----------------------------- MODULE Publisher ------------------------------
(* concurrent/publisher.hpp: the reorder window in front of the hand-off     *)
(* ring.  The client delivers messages in arrival order; the publisher holds *)
(* the ones that are early and pushes every message in sequence order.       *)
(*                                                                           *)
(* The ring is the bounded FIFO that SpscRing is shown to implement: the     *)
(* producer's copy of the consumer's position may be old, so the ring may    *)
(* refuse although the consumer has just made room.  The consumer pops       *)
(* between any two pushes, those of one drain included.                      *)
EXTENDS Integers, Sequences, BoundedFifo

CONSTANTS
    Pending,        \* slots of the reorder window
    First,          \* the sequence the publisher starts from
    Oversized,      \* sequences whose body does not fit a delivery record
    MaxSequence,    \* bound: the highest sequence offered
    MaxOffers,      \* bound: calls of offer
    ReoffersStalled \* may the client repeat the message a stalled drain waits on?

Sequences == First .. MaxSequence

ASSUME PublisherAssumption ==
    /\ Capacity \in Nat \ {0} /\ Pending \in Nat \ {0}
    /\ First \in Nat /\ MaxSequence \in Nat /\ MaxOffers \in Nat
    /\ Value = Sequences /\ Oversized \subseteq Sequences
    /\ ReoffersStalled \in BOOLEAN

VARIABLES
    next,           \* next_
    have, held,     \* have_, held_ (the sequence of the record in each slot)
    draining,       \* offer is inside drain_pending
    seenTaken,      \* the consumer's position as push last saw it
    offers,         \* stats_.offered
    current,        \* the sequence being offered
    accepted        \* history: sequences whose offer returned true

windowVars == <<next, have, held>>
pubVars == <<fifoVars, windowVars, draining, seenTaken, offers, current, accepted>>

Slots == 0 .. Pending - 1
SlotOf(s) == s % Pending

Init ==
    /\ FifoInit
    /\ next = First
    /\ have = [i \in Slots |-> FALSE] /\ held = [i \in Slots |-> First]
    /\ draining = FALSE
    /\ seenTaken = 0 /\ offers = 0 /\ current = First
    /\ accepted = {}

-----------------------------------------------------------------------------
(* spsc_ring::push, as the publisher sees it.                                *)
Pushed == Len(taken) + Len(queue)
LooksFull(at) == Pushed - at >= Capacity

\* Room shown by the old copy needs no look at the consumer's position.
SeesRoom ==
    /\ seenTaken' \in seenTaken .. Len(taken)
    /\ ~LooksFull(seenTaken) => seenTaken' = seenTaken
    /\ ~LooksFull(seenTaken')

SeesFull ==
    /\ seenTaken' \in seenTaken .. Len(taken)
    /\ LooksFull(seenTaken')

Returns(s, result) ==
    /\ draining' = FALSE
    /\ accepted' = IF result THEN accepted \cup {s} ELSE accepted

-----------------------------------------------------------------------------
(* offer                                                                     *)
Offering(s) ==
    /\ ~draining
    /\ offers < MaxOffers
    /\ ~ReoffersStalled => ~(s = next /\ have[SlotOf(s)] /\ held[SlotOf(s)] = s)
    /\ offers' = offers + 1
    /\ current' = s

OfferPublished(s) ==                    \* already published: a duplicate
    /\ Offering(s)
    /\ s < next
    /\ Returns(s, TRUE)
    /\ UNCHANGED <<fifoVars, windowVars, seenTaken>>

OfferOversized(s) ==
    /\ Offering(s)
    /\ s >= next
    /\ s \in Oversized
    /\ Returns(s, FALSE)
    /\ UNCHANGED <<fifoVars, windowVars, seenTaken>>

OfferInOrder(s) ==
    /\ Offering(s)
    /\ s = next
    /\ s \notin Oversized
    /\ \/ /\ SeesRoom
          /\ Accept(s)
          /\ next' = next + 1
          /\ draining' = TRUE
          /\ UNCHANGED <<have, held, accepted>>
       \/ /\ SeesFull
          /\ Returns(s, FALSE)
          /\ UNCHANGED <<fifoVars, windowVars>>

\* Mutant: only the slot is looked at, not the distance.
WindowTakesAnyDistance(s) == have[SlotOf(s)] => held[SlotOf(s)] = s

\* The slot index wraps, so a message a whole window ahead is refused, and so
\* is one whose slot another sequence occupies.
WindowTakes(s) ==
    /\ s - next < Pending
    /\ have[SlotOf(s)] => held[SlotOf(s)] = s

\* Mutant: the refusal is not told to the caller.
OfferEarlyAlwaysTrue(s) ==
    /\ Offering(s)
    /\ s > next
    /\ s \notin Oversized
    /\ IF WindowTakes(s)
       THEN /\ held' = [held EXCEPT ![SlotOf(s)] = s]
            /\ have' = [have EXCEPT ![SlotOf(s)] = TRUE]
       ELSE UNCHANGED <<have, held>>
    /\ Returns(s, TRUE)
    /\ UNCHANGED <<fifoVars, next, seenTaken>>

OfferEarly(s) ==
    /\ Offering(s)
    /\ s > next
    /\ s \notin Oversized
    /\ IF WindowTakes(s)
       THEN /\ held' = [held EXCEPT ![SlotOf(s)] = s]
            /\ have' = [have EXCEPT ![SlotOf(s)] = TRUE]
       ELSE UNCHANGED <<have, held>>
    /\ Returns(s, WindowTakes(s))
    /\ UNCHANGED <<fifoVars, next, seenTaken>>

-----------------------------------------------------------------------------
(* drain_pending, one turn of its loop at a time                             *)
\* Mutant: the slot is not freed.
DrainNextKeepsSlot ==
    /\ draining
    /\ have[SlotOf(next)]
    /\ SeesRoom
    /\ Accept(held[SlotOf(next)])
    /\ next' = next + 1
    /\ UNCHANGED <<have, held, draining, offers, current, accepted>>

DrainNext ==
    /\ draining
    /\ have[SlotOf(next)]
    /\ SeesRoom
    /\ Accept(held[SlotOf(next)])
    /\ have' = [have EXCEPT ![SlotOf(next)] = FALSE]
    /\ next' = next + 1
    /\ UNCHANGED <<held, draining, offers, current, accepted>>

DrainStalls ==
    /\ draining
    /\ have[SlotOf(next)]
    /\ SeesFull
    /\ Returns(current, FALSE)
    /\ UNCHANGED <<fifoVars, windowVars, offers, current>>

DrainDone ==
    /\ draining
    /\ ~have[SlotOf(next)]
    /\ Returns(current, TRUE)
    /\ UNCHANGED <<fifoVars, windowVars, seenTaken, offers, current>>

-----------------------------------------------------------------------------
(* The consumer thread.                                                      *)
Consume ==
    /\ \E n \in 1 .. Len(queue) : Take(n)
    /\ UNCHANGED <<windowVars, draining, seenTaken, offers, current, accepted>>

Offer(s) ==
    \/ OfferPublished(s)
    \/ OfferOversized(s)
    \/ OfferInOrder(s)
    \/ OfferEarly(s)

Drain == DrainNext \/ DrainStalls \/ DrainDone

Next ==
    \/ \E s \in Sequences : Offer(s)
    \/ Drain
    \/ Consume

Spec == Init /\ [][Next]_pubVars

-----------------------------------------------------------------------------
(* Properties                                                                *)
HeldSequences == {held[i] : i \in {j \in Slots : have[j]}}
Crossed == taken \o queue

\* What crosses the thread boundary is First, First + 1, ... with nothing
\* skipped, repeated or out of order, so the consumer can be "a loop with no
\* memory".
CrossesInSequence ==
    /\ Len(Crossed) = next - First
    /\ \A i \in 1 .. Len(Crossed) : Crossed[i] = First + i - 1

\* A held record sits in the slot its sequence indexes and is still ahead of
\* everything published: the assertion in drain_pending, extended to every
\* slot and every moment.
WindowHolds ==
    \A i \in Slots : have[i] =>
        /\ SlotOf(held[i]) = i
        /\ held[i] >= next
        /\ held[i] < next + Pending

\* A message whose offer returned true has crossed or is held for crossing:
\* "the caller is told about" every message that is neither.
AcceptedIsKept ==
    \A s \in accepted : s < next \/ s \in HeldSequences
=============================================================================
