------------------------------ MODULE SpscRing ------------------------------
(* concurrent/spsc_ring.hpp: the single-producer, single-consumer ring that  *)
(* hands recovered messages to another thread.                               *)
(*                                                                           *)
(* Each operation is split at its accesses to shared memory, and the memory  *)
(* is the release/acquire fragment of C++: every store to an atomic index    *)
(* stays readable by the other thread until that thread has read a newer     *)
(* one, and only a release store read by an acquire load carries the         *)
(* storing thread's earlier slot accesses along.  A slot access that is not  *)
(* ordered after the other thread's last access to the slot is a data race,  *)
(* and a racing read may return anything.                                    *)
EXTENDS Naturals, Sequences

CONSTANTS
    RingCapacity,       \* slots in the ring, a power of two in the code
    Record,             \* records
    Torn,               \* what a racing read may return besides a record
    MaxBatch,           \* largest limit given to pop_batch
    MaxPushes           \* bound: calls of push

ASSUME RingAssumption ==
    /\ RingCapacity \in Nat /\ RingCapacity >= 2
    /\ MaxBatch \in Nat \ {0}
    /\ MaxPushes \in Nat
    /\ Torn \notin Record

VARIABLES
    slots,          \* slots_
    tail, head,     \* newest value of tail_ and head_
    tailView,       \* for each value stored to tail_, the slot writes it carries
    headView,       \* for each value stored to head_, the slot reads it carries
    cachedHead, cachedTail,
    pPc, pValue,    \* the push in progress
    seenReads,      \* slot reads known to happen before the producer's step
    cPc, cWant, cOut, \* the pop in progress: records to take, records taken
    seenWrites,     \* slot writes known to happen before the consumer's step
    refused,        \* refused_
    pushed, popped  \* history: records push accepted, records pop returned

producerVars == <<slots, tail, tailView, cachedHead, pPc, pValue, seenReads,
                  refused, pushed>>
consumerVars == <<head, headView, cachedTail, cPc, cWant, cOut, seenWrites,
                  popped>>
ringVars == <<producerVars, consumerVars>>

IndexOf(n) == n % RingCapacity

-----------------------------------------------------------------------------
(* The memory orders the code names.                                         *)
RelaxedStore == "relaxed"    \* mutant: the order left out of a store
RelaxedLoad == "relaxed"     \* mutant: the order left out of a load
TailStoreOrder == "release"
TailLoadOrder  == "acquire"
HeadStoreOrder == "release"
HeadLoadOrder  == "acquire"

\* What a store carries, and what a load that reads it learns.
Carried(order, view) == IF order = "release" THEN view ELSE 0
Learned(order, known, view) ==
    IF order = "acquire" /\ view > known THEN view ELSE known

\* The stores of an index once `value' has been stored, carrying `view'.
Stored(views, value, view) ==
    [x \in DOMAIN views \cup {value} |-> IF x = value THEN view ELSE views[x]]

-----------------------------------------------------------------------------
RingInit ==
    /\ slots = [i \in 0 .. RingCapacity - 1 |-> Torn]
    /\ tail = 0 /\ head = 0
    /\ tailView = [t \in {0} |-> 0] /\ headView = [h \in {0} |-> 0]
    /\ cachedHead = 0 /\ cachedTail = 0
    /\ pPc = "idle" /\ pValue = Torn
    /\ cPc = "idle" /\ cWant = 0 /\ cOut = <<>>
    /\ seenReads = 0 /\ seenWrites = 0
    /\ refused = 0
    /\ pushed = <<>> /\ popped = <<>>

-----------------------------------------------------------------------------
(* push                                                                      *)
NoRoom(h) == tail - h >= RingCapacity

PushBegin(v) ==
    /\ pPc = "idle"
    /\ tail + refused < MaxPushes
    /\ pValue' = v
    /\ pPc' = IF NoRoom(cachedHead) THEN "reload" ELSE "write"
    /\ UNCHANGED <<slots, tail, tailView, cachedHead, seenReads, refused, pushed>>
    /\ UNCHANGED consumerVars

\* The acquire load may return any head_ not older than the one last read.
PushReload(h) ==
    /\ pPc = "reload"
    /\ h >= cachedHead
    /\ cachedHead' = h
    /\ seenReads' = Learned(HeadLoadOrder, seenReads, headView[h])
    /\ pPc' = IF NoRoom(h) THEN "idle" ELSE "write"
    /\ refused' = IF NoRoom(h) THEN refused + 1 ELSE refused
    /\ UNCHANGED <<slots, tail, tailView, pValue, pushed>>
    /\ UNCHANGED consumerVars

PushWrite ==
    /\ pPc = "write"
    /\ slots' = [slots EXCEPT ![IndexOf(tail)] = pValue]
    /\ pPc' = "store"
    /\ UNCHANGED <<tail, tailView, cachedHead, pValue, seenReads, refused, pushed>>
    /\ UNCHANGED consumerVars

PushStore ==
    /\ pPc = "store"
    /\ tail' = tail + 1
    /\ tailView' = Stored(tailView, tail + 1, Carried(TailStoreOrder, tail + 1))
    /\ pushed' = Append(pushed, pValue)
    /\ pPc' = "idle"
    /\ UNCHANGED <<slots, cachedHead, pValue, seenReads, refused>>
    /\ UNCHANGED consumerVars

-----------------------------------------------------------------------------
(* pop and pop_batch                                                         *)
\* Mutant: an empty cached view is taken for an empty ring.
PopBeginNeverReloads ==
    /\ cPc = "idle"
    /\ head < cachedTail
    /\ cPc' = "read" /\ cWant' = 1
    /\ UNCHANGED <<head, headView, cachedTail, cOut, seenWrites, popped>>
    /\ UNCHANGED producerVars

PopBegin ==
    /\ cPc = "idle"
    /\ IF head >= cachedTail
       THEN cPc' = "reload" /\ UNCHANGED cWant
       ELSE cPc' = "read" /\ cWant' = 1
    /\ UNCHANGED <<head, headView, cachedTail, cOut, seenWrites, popped>>
    /\ UNCHANGED producerVars

\* Mutant: the ring is not seen to be empty after the reload.
LoadTailUnchecked(t, limit) ==
    /\ t >= cachedTail
    /\ cachedTail' = t
    /\ seenWrites' = Learned(TailLoadOrder, seenWrites, tailView[t])
    /\ cPc' = "read" /\ cWant' = 1
    /\ UNCHANGED <<head, headView, cOut, popped>>
    /\ UNCHANGED producerVars

\* The acquire load of tail_, which may return any value not older than the
\* one last read; `limit' records at most are then taken.
LoadTail(t, limit) ==
    /\ t >= cachedTail
    /\ cachedTail' = t
    /\ seenWrites' = Learned(TailLoadOrder, seenWrites, tailView[t])
    /\ IF t > head
       THEN cPc' = "read" /\ cWant' = IF t - head < limit THEN t - head ELSE limit
       ELSE cPc' = "idle" /\ UNCHANGED cWant
    /\ UNCHANGED <<head, headView, cOut, popped>>
    /\ UNCHANGED producerVars

PopReload(t) == cPc = "reload" /\ LoadTail(t, 1)

PopBatch(t, limit) == cPc = "idle" /\ LoadTail(t, limit)

Reading == head + Len(cOut)      \* the index being read

SlotWrites == IF pPc = "store" THEN tail + 1 ELSE tail

\* The write of the record at index n happens before the consumer's read of it,
\* and the producer has not gone on to reuse its slot.
ReadOrdered(n) == seenWrites > n /\ SlotWrites <= n + RingCapacity

ReadSlot(v) ==
    /\ cPc = "read"
    /\ ReadOrdered(Reading) => v = slots[IndexOf(Reading)]
    /\ cOut' = Append(cOut, v)
    /\ cPc' = IF Len(cOut) + 1 = cWant THEN "store" ELSE "read"
    /\ UNCHANGED <<head, headView, cachedTail, cWant, seenWrites, popped>>
    /\ UNCHANGED producerVars

PopStore ==
    /\ cPc = "store"
    /\ head' = head + cWant
    /\ headView' = Stored(headView, head + cWant,
                          Carried(HeadStoreOrder, head + cWant))
    /\ popped' = popped \o cOut
    /\ cOut' = <<>>
    /\ cPc' = "idle"
    /\ UNCHANGED <<cachedTail, cWant, seenWrites>>
    /\ UNCHANGED producerVars

-----------------------------------------------------------------------------
Producer ==
    \/ \E v \in Record : PushBegin(v)
    \/ \E h \in DOMAIN headView : PushReload(h)
    \/ PushWrite
    \/ PushStore

Consumer ==
    \/ PopBegin
    \/ \E t \in DOMAIN tailView : PopReload(t)
    \/ \E t \in DOMAIN tailView, limit \in 1 .. MaxBatch : PopBatch(t, limit)
    \/ \E v \in Record \cup {Torn} : ReadSlot(v)
    \/ PopStore

RingNext == Producer \/ Consumer

RingSpec == RingInit /\ [][RingNext]_ringVars

\* Each thread runs its operation to the end and the consumer keeps calling
\* pop.  A store becomes visible to a thread that keeps loading the atomic (the
\* progress C++ asks of an implementation), so the newest tail_ is read at
\* last.  Nothing makes the producer push again, and pop_batch is optional.
Fairness ==
    /\ WF_ringVars(\E h \in DOMAIN headView : PushReload(h))
    /\ WF_ringVars(PushWrite \/ PushStore)
    /\ WF_ringVars(PopBegin)
    /\ WF_ringVars(\E t \in DOMAIN tailView : PopReload(t))
    /\ SF_ringVars(PopReload(tail))
    /\ WF_ringVars(PopStore \/ \E v \in Record \cup {Torn} : ReadSlot(v))

FairSpec == RingSpec /\ Fairness

-----------------------------------------------------------------------------
(* Properties                                                                *)

\* Types, and the ring holds at most RingCapacity records.
TypeOK ==
    /\ tail - head \in 0 .. RingCapacity
    /\ slots \in [0 .. RingCapacity - 1 -> Record \cup {Torn}]
    /\ tail \in Nat /\ head \in Nat /\ cachedHead \in Nat /\ cachedTail \in Nat
    /\ tailView \in [DOMAIN tailView -> Nat] /\ DOMAIN tailView \subseteq Nat
    /\ headView \in [DOMAIN headView -> Nat] /\ DOMAIN headView \subseteq Nat
    /\ pPc \in {"idle", "reload", "write", "store"}
    /\ pValue \in Record \cup {Torn}
    /\ cPc \in {"idle", "reload", "read", "store"}
    /\ cWant \in Nat /\ cOut \in Seq(Record \cup {Torn})
    /\ seenReads \in Nat /\ seenWrites \in Nat /\ refused \in Nat
    /\ pushed \in Seq(Record \cup {Torn}) /\ popped \in Seq(Record \cup {Torn})

\* No slot access races: when the producer is about to reuse a slot, the
\* consumer's read of its previous record happens before the write; when the
\* consumer is about to read a slot, the write of the record happens before
\* the read.  This is the release/acquire argument at the top of
\* spsc_ring.hpp, and what the cached copies of the indices must not spoil.
DataRaceFree ==
    /\ pPc = "write" => tail < seenReads + RingCapacity
    /\ cPc = "read" => ReadOrdered(Reading)

\* What pop and pop_batch have returned is, record for record, what push
\* accepted first: nothing overwritten, skipped, repeated or torn.
PoppedInOrder ==
    /\ Len(popped) + Len(cOut) <= Len(pushed)
    /\ \A i \in 1 .. Len(popped) : popped[i] = pushed[i]
    /\ \A i \in 1 .. Len(cOut) : cOut[i] = pushed[Len(popped) + i]

\* The ring is a bounded FIFO whose push takes effect at the store to tail_ and
\* whose pop takes effect at the store to head_.
Fifo == INSTANCE BoundedFifo WITH
            Capacity <- RingCapacity, Value <- Record,
            queue <- SubSeq(pushed, Len(popped) + 1, Len(pushed)),
            taken <- popped
ImplementsFifo == Fifo!FifoSpec

\* Every record the ring accepted is taken by a consumer that keeps popping,
\* however stale its view of tail_ was.
AcceptedIsTaken ==
    \A n \in 1 .. MaxPushes : Len(pushed) >= n ~> Len(popped) >= n
=============================================================================
