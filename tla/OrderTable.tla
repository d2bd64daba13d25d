----------------------------- MODULE OrderTable -----------------------------
(***************************************************************************)
(* The order-level book (book/order_level_book.hpp) as operators: orders   *)
(* by reference in a table with open addressing, linear probing and        *)
(* tombstones, and the five ITCH messages that change it.  Zero shares and *)
(* a zero reference are refused at the door and not modelled as inputs;    *)
(* the counters of the statistics are left out.                            *)
(***************************************************************************)
EXTENDS Integers, FiniteSetsExt

CONSTANTS
    Capacity,       \* slots of the table, a power of two
    Multiplier      \* the hash factor 11400714819323198485, modulo Capacity

ASSUME TableAssumption ==
    /\ Capacity \in Nat \ {0} /\ \E k \in 1..16 : Capacity = 2 ^ k
    /\ Multiplier \in 0..Capacity - 1 /\ Multiplier % 2 = 1

Slots == 0..Capacity - 1
Unused == [state |-> "empty"]
Tombstone == [state |-> "tombstone"]
Holding(order) == [state |-> "live", order |-> order]

EmptyTable == [at \in Slots |-> Unused]

\* The slot a probe for the reference looks at after distance steps.
Probe(reference, distance) == (reference * Multiplier + distance) % Capacity

\* find_index(): Capacity when the reference is not live.
FindIndex(table, reference) ==
    LET holds(slot) == slot.state = "live" /\ slot.order.reference = reference
        stops == {d \in Slots : LET slot == table[Probe(reference, d)]
                                IN  slot.state = "empty" \/ holds(slot)}
    IN  IF stops = {} THEN Capacity
        ELSE LET at == Probe(reference, Min(stops))
             IN  IF holds(table[at]) THEN at ELSE Capacity

Has(table, reference) == FindIndex(table, reference) # Capacity
Find(table, reference) == table[FindIndex(table, reference)].order

\* insert(): the first tombstone before the first empty slot, or that slot.
SlotFor(table, reference) ==
    LET state(d) == table[Probe(reference, d)].state
        empties == {d \in Slots : state(d) = "empty"}
        end == IF empties = {} THEN Capacity ELSE Min(empties)
        tombstones == {d \in Slots : d < end /\ state(d) = "tombstone"}
        distance == IF tombstones = {} THEN end ELSE Min(tombstones)
    IN  IF distance = Capacity THEN Capacity ELSE Probe(reference, distance)

\* Mutant: an erased slot is empty again.
MutantErase(table, reference) == [table EXCEPT ![FindIndex(table, reference)] = Unused]

\* erase(): the slot keeps the probe chains that run over it together.
Erase(table, reference) == [table EXCEPT ![FindIndex(table, reference)] = Tombstone]

Told(table, answer) == [table |-> table, answer |-> answer]

Insert(table, order) ==
    LET at == SlotFor(table, order.reference)
    IN  IF at = Capacity THEN Told(table, "capacity_exceeded")
        ELSE Told([table EXCEPT ![at] = Holding(order)], "ok")

ApplyAdd(table, order) ==
    IF Has(table, order.reference) THEN Told(table, "invalid_argument")
    ELSE Insert(table, order)

\* apply(order_executed) and apply(order_cancel).
ApplyReduce(table, reference, shares) ==
    IF ~Has(table, reference) THEN Told(table, "invalid_argument")
    ELSE LET order == Find(table, reference)
             left == order.shares - shares
         IN  IF left < 0 THEN Told(table, "invalid_argument")
             ELSE IF left = 0 THEN Told(Erase(table, reference), "ok")
             ELSE Told([table EXCEPT ![FindIndex(table, reference)] =
                            Holding([order EXCEPT !.shares = left])], "ok")

ApplyDelete(table, reference) ==
    IF Has(table, reference) THEN Told(Erase(table, reference), "ok")
    ELSE Told(table, "invalid_argument")

\* The order is copied before it is erased: its slot may be taken again.
ApplyReplace(table, original, new, shares, price) ==
    IF ~Has(table, original) \/ new = original \/ Has(table, new)
    THEN Told(table, "invalid_argument")
    ELSE Insert(Erase(table, original),
                [Find(table, original) EXCEPT !.reference = new, !.shares = shares,
                                              !.price = price])
=============================================================================
