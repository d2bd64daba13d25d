--------------------------- MODULE Handoff_proofs ---------------------------
(* The hand-off between the two threads: the ring (SpscRing), for every      *)
(* capacity, record set and batch limit, and the publisher that feeds it in  *)
(* sequence order (Publisher), for every capacity, every reorder window and  *)
(* any order of offers.                                                      *)
EXTENDS SpscRing, Publisher, SequenceTheorems, TLAPS

(***************************************************************************)
(* SpscRing: no record is torn, skipped or repeated.                       *)
(***************************************************************************)
-----------------------------------------------------------------------------
(* The slot an index maps to.                                                *)

\* A product with a positive factor is at least the other factor.
LEMMA ProductBound ==
    ASSUME NEW d \in Nat, NEW k \in Int, k >= 1
    PROVE  d * k >= d
PROOF
  <1>1. d * k = d + d * (k - 1) BY SMT
  <1>2. d * (k - 1) >= 0 BY SMT
  <1> QED BY <1>1, <1>2, SMT

\* Indices less than a ring apart have different slots: what the masked index
\* of spsc_ring rests on.
LEMMA SlotsDiffer ==
    ASSUME NEW a \in Nat, NEW b \in Nat, a < b, b < a + RingCapacity
    PROVE  IndexOf(a) # IndexOf(b)
PROOF
  <1> USE RingAssumption DEF IndexOf
  <1> DEFINE qa == a \div RingCapacity
             qb == b \div RingCapacity
  <1>1. /\ a = RingCapacity * qa + (a % RingCapacity)
        /\ b = RingCapacity * qb + (b % RingCapacity)
        /\ qa \in Int /\ qb \in Int /\ a % RingCapacity \in Int
    BY SMT
  <1> HIDE DEF qa, qb
  <1>2. SUFFICES ASSUME a % RingCapacity = b % RingCapacity PROVE FALSE
    OBVIOUS
  <1>3. b - a = RingCapacity * (qb - qa)
    <2>1. RingCapacity * (qb - qa) = RingCapacity * qb - RingCapacity * qa BY <1>1, SMT
    <2> QED BY <1>1, <1>2, <2>1, SMT
  <1>4. CASE qb - qa >= 1
    BY <1>1, <1>3, <1>4, ProductBound, SMT
  <1>5. CASE qb - qa <= 0
    <2>1. RingCapacity * (qa - qb) >= 0 BY <1>1, <1>5, SMT
    <2>2. RingCapacity * (qb - qa) = -(RingCapacity * (qa - qb)) BY <1>1, SMT
    <2> QED BY <1>1, <1>3, <2>1, <2>2, SMT
  <1> QED BY <1>1, <1>4, <1>5, SMT

\* A slot index is a slot of the ring.
LEMMA SlotInRange ==
    ASSUME NEW n \in Nat
    PROVE  IndexOf(n) \in 0 .. RingCapacity - 1
PROOF BY RingAssumption, SMT DEF IndexOf

-----------------------------------------------------------------------------
(* The inductive invariant.                                                  *)

\* Histories and indices agree, every store carries its own value, and what a
\* thread knows of the other is exactly the copy it cached.
IndexInv ==
    /\ tail = Len(pushed) /\ head = Len(popped)
    /\ DOMAIN tailView = 0 .. tail /\ \A t \in 0 .. tail : tailView[t] = t
    /\ DOMAIN headView \subseteq 0 .. head
    /\ \A h \in DOMAIN headView : headView[h] = h
    /\ seenReads = cachedHead /\ seenWrites = cachedTail
    /\ cachedHead <= head /\ head <= cachedTail /\ cachedTail <= tail
    /\ tail <= cachedHead + RingCapacity

\* A push past its check has room for its record, by the cached head.
ProducerInv ==
    /\ pPc # "idle" => pValue \in Record
    /\ pPc \in {"write", "store"} => tail < cachedHead + RingCapacity
    /\ pPc = "store" => slots[IndexOf(tail)] = pValue

\* A pop past its check takes records below the cached tail.
ConsumerInv ==
    /\ cPc \in {"idle", "reload"} => cOut = <<>>
    /\ cPc = "read" => Len(cOut) < cWant /\ head + cWant <= cachedTail
    /\ cPc = "store" => Len(cOut) = cWant /\ cWant > 0 /\ head + cWant <= cachedTail

\* The slots hold the records accepted and not yet taken.
SlotInv ==
    /\ \A i \in 1 .. Len(pushed) : pushed[i] \in Record
    /\ \A n \in head .. tail - 1 : slots[IndexOf(n)] = pushed[n + 1]

RingInv == TypeOK /\ IndexInv /\ ProducerInv /\ ConsumerInv /\ SlotInv /\ PoppedInOrder

LEMMA InitRing == RingInit => RingInv
PROOF
  <1> SUFFICES ASSUME RingInit PROVE RingInv OBVIOUS
  <1> USE RingAssumption DEF RingInit
  <1>1. TypeOK BY DEF TypeOK
  <1>2. IndexInv BY DEF IndexInv
  <1>3. ProducerInv /\ ConsumerInv BY DEF ProducerInv, ConsumerInv
  <1>4. SlotInv /\ PoppedInOrder BY DEF SlotInv, PoppedInOrder
  <1> QED BY <1>1, <1>2, <1>3, <1>4 DEF RingInv

\* The parts of the invariant speak only of the variables: a step that leaves
\* everything alone keeps them.
LEMMA RingStutters == RingInv /\ UNCHANGED ringVars => RingInv'
PROOF
  <1> SUFFICES ASSUME RingInv, UNCHANGED ringVars PROVE RingInv' OBVIOUS
  <1> USE DEF RingInv, ringVars, producerVars, consumerVars
  <1>1. TypeOK' BY DEF TypeOK
  <1>2. IndexInv' BY DEF IndexInv
  <1>3. ProducerInv' /\ ConsumerInv' BY DEF ProducerInv, ConsumerInv
  <1>4. SlotInv' /\ PoppedInOrder' BY DEF SlotInv, PoppedInOrder
  <1> QED BY <1>1, <1>2, <1>3, <1>4

-----------------------------------------------------------------------------
(* push keeps the invariant.                                                 *)
LEMMA PushBeginRing ==
    ASSUME RingInv, NEW v \in Record, PushBegin(v)
    PROVE  RingInv'
PROOF
  <1> USE RingAssumption DEF RingInv, PushBegin, consumerVars
  <1>1. TypeOK' BY DEF TypeOK
  <1>2. IndexInv' BY DEF IndexInv
  <1>3. ProducerInv' BY SMTT(20) DEF ProducerInv, NoRoom, TypeOK, IndexInv
  <1>4. ConsumerInv' BY DEF ConsumerInv
  <1>5. SlotInv' /\ PoppedInOrder' BY DEF SlotInv, PoppedInOrder
  <1> QED BY <1>1, <1>2, <1>3, <1>4, <1>5

LEMMA PushReloadRing ==
    ASSUME RingInv, NEW h \in DOMAIN headView, PushReload(h)
    PROVE  RingInv'
PROOF
  <1> USE RingAssumption DEF RingInv, PushReload, consumerVars
  <1>1. h \in Nat /\ h <= head /\ headView[h] = h
    BY DEF IndexInv, TypeOK
  <1>2. seenReads' = h
    BY <1>1, SMTT(20) DEF Learned, HeadLoadOrder, IndexInv, TypeOK
  <1>3. TypeOK'
    <2>0. refused \in Nat BY DEF TypeOK
    <2>1. refused' \in Nat /\ pPc' \in {"idle", "reload", "write", "store"}
      BY <2>0
    <2>2. cachedHead' \in Nat /\ seenReads' \in Nat BY <1>1, <1>2
    <2> QED BY <2>1, <2>2 DEF TypeOK
  <1>4. IndexInv'
    <2>1. tail <= h + RingCapacity BY <1>1, SMTT(20) DEF IndexInv, TypeOK
    <2> QED BY <1>1, <1>2, <2>1 DEF IndexInv
  <1>5. ProducerInv' BY <1>1, SMTT(20) DEF ProducerInv, NoRoom, TypeOK, IndexInv
  <1>6. ConsumerInv' BY DEF ConsumerInv
  <1>7. SlotInv' /\ PoppedInOrder' BY DEF SlotInv, PoppedInOrder
  <1> QED BY <1>3, <1>4, <1>5, <1>6, <1>7

\* The write goes to a slot no unread record occupies.
LEMMA PushWriteRing ==
    ASSUME RingInv, PushWrite
    PROVE  RingInv'
PROOF
  <1> USE RingAssumption DEF RingInv, PushWrite, consumerVars
  <1>1. tail < head + RingCapacity
    BY DEF ProducerInv, IndexInv, TypeOK
  <1>2. IndexOf(tail) \in 0 .. RingCapacity - 1
    BY SlotInRange DEF TypeOK
  <1>3. TypeOK' BY <1>2 DEF TypeOK
  <1>4. IndexInv' BY DEF IndexInv
  <1>5. ProducerInv' BY <1>2 DEF ProducerInv, TypeOK
  <1>6. ConsumerInv' BY DEF ConsumerInv
  <1>7. SlotInv'
    <2>1. ASSUME NEW n \in head .. tail - 1
          PROVE  slots'[IndexOf(n)] = slots[IndexOf(n)]
      <3>0. head \in Nat /\ tail \in Nat BY DEF TypeOK
      <3>1. n \in Nat /\ n < tail /\ tail < n + RingCapacity
        BY <1>1, <3>0
      <3>2. IndexOf(n) # IndexOf(tail) BY <3>1, SlotsDiffer DEF TypeOK
      <3>3. IndexOf(n) \in 0 .. RingCapacity - 1 BY <3>1, SlotInRange
      <3> QED BY <3>2, <3>3 DEF TypeOK
    <2> QED BY <2>1 DEF SlotInv
  <1>8. PoppedInOrder' BY DEF PoppedInOrder
  <1> QED BY <1>3, <1>4, <1>5, <1>6, <1>7, <1>8

LEMMA PushStoreRing ==
    ASSUME RingInv, PushStore
    PROVE  RingInv'
PROOF
  <1> USE RingAssumption DEF RingInv, PushStore, consumerVars
  <1>1. tail \in Nat /\ tail = Len(pushed) /\ pValue \in Record
    BY DEF TypeOK, IndexInv, ProducerInv
  <1>2. /\ pushed' \in Seq(Record \cup {Torn})
        /\ Len(pushed') = tail + 1
        /\ \A i \in 1 .. tail : pushed'[i] = pushed[i]
        /\ pushed'[tail + 1] = pValue
    BY <1>1 DEF TypeOK
  <1>3. /\ DOMAIN tailView' = 0 .. tail'
        /\ \A t \in 0 .. tail' : tailView'[t] = t
        /\ tailView' \in [DOMAIN tailView' -> Nat]
    BY <1>1 DEF Stored, Carried, TailStoreOrder, IndexInv
  <1>4. TypeOK'
    <2>1. tail' \in Nat /\ DOMAIN tailView' \subseteq Nat BY <1>1, <1>3
    <2>2. tail' - head' \in 0 .. RingCapacity
      <3>1. /\ head \in Nat /\ cachedHead \in Nat /\ cachedTail \in Nat
            /\ RingCapacity \in Nat
        BY DEF TypeOK
      <3>2. cachedHead <= head /\ head <= cachedTail /\ cachedTail <= tail
        BY DEF IndexInv
      <3>3. tail < cachedHead + RingCapacity BY DEF ProducerInv
      <3>4. tail' = tail + 1 /\ head' = head OBVIOUS
      <3> QED BY <1>1, <3>1, <3>2, <3>3, <3>4
    <2>3. pPc' \in {"idle", "reload", "write", "store"} OBVIOUS
    <2> QED BY <1>2, <1>3, <2>1, <2>2, <2>3 DEF TypeOK
  <1>5. IndexInv'
    <2>1. /\ tail < cachedHead + RingCapacity /\ cachedTail <= tail
          /\ cachedHead \in Nat /\ cachedTail \in Nat /\ RingCapacity \in Nat
      BY DEF IndexInv, ProducerInv, TypeOK
    <2>2. tail' = tail + 1 OBVIOUS
    <2>3. tail' <= cachedHead + RingCapacity /\ cachedTail <= tail'
      BY ONLY <1>1, <2>1, <2>2, SMT
    <2> QED BY <1>1, <1>2, <1>3, <2>3 DEF IndexInv
  <1>6. ProducerInv' BY DEF ProducerInv
  <1>7. ConsumerInv' BY DEF ConsumerInv
  <1>8. SlotInv'
    <2>1. \A i \in 1 .. Len(pushed') : pushed'[i] \in Record
      BY <1>1, <1>2 DEF SlotInv
    <2>2. ASSUME NEW n \in head .. tail
          PROVE  slots[IndexOf(n)] = pushed'[n + 1]
      <3>1. head \in Nat BY DEF TypeOK
      <3>2. CASE n = tail BY <1>2, <3>2 DEF ProducerInv
      <3>3. CASE n \in head .. tail - 1
        <4>1. n + 1 \in 1 .. tail BY <1>1, <3>1, <3>3
        <4> QED BY <1>2, <3>3, <4>1 DEF SlotInv
      <3> QED BY <1>1, <3>1, <3>2, <3>3
    <2>3. tail' - 1 = tail BY <1>1
    <2> QED BY <2>1, <2>2, <2>3 DEF SlotInv
  <1>9. PoppedInOrder'
    <2>1. Len(popped) \in Nat /\ Len(cOut) \in Nat
      <3>1. popped \in Seq(Record \cup {Torn}) /\ cOut \in Seq(Record \cup {Torn})
        BY DEF TypeOK
      <3> QED BY <3>1, LenProperties
    <2>2. Len(popped) + Len(cOut) <= tail BY <1>1 DEF PoppedInOrder
    <2>3. \A i \in 1 .. Len(popped) : popped[i] = pushed'[i]
      BY <1>1, <1>2, <2>1, <2>2 DEF PoppedInOrder
    <2>4. \A i \in 1 .. Len(cOut) : cOut[i] = pushed'[Len(popped) + i]
      <3>1. ASSUME NEW i \in 1 .. Len(cOut)
            PROVE  Len(popped) + i \in 1 .. tail
        BY <1>1, <2>1, <2>2
      <3> QED BY <1>2, <3>1 DEF PoppedInOrder
    <2> QED BY <1>1, <1>2, <2>1, <2>2, <2>3, <2>4 DEF PoppedInOrder
  <1> QED BY <1>4, <1>5, <1>6, <1>7, <1>8, <1>9

-----------------------------------------------------------------------------
(* pop and pop_batch keep the invariant.                                     *)
LEMMA PopBeginRing ==
    ASSUME RingInv, PopBegin
    PROVE  RingInv'
PROOF
  <1> USE RingAssumption DEF RingInv, PopBegin, producerVars
  <1>1. TypeOK'
    <2>1. cWant' \in Nat /\ cPc' \in {"idle", "reload", "read", "store"}
      BY SMTT(20) DEF TypeOK
    <2> QED BY <2>1 DEF TypeOK
  <1>2. IndexInv' BY DEF IndexInv
  <1>3. ProducerInv' BY DEF ProducerInv
  <1>4. ConsumerInv'
    <2>1. head \in Nat /\ cachedTail \in Nat /\ cOut = <<>> /\ Len(cOut) = 0
      BY DEF TypeOK, ConsumerInv
    <2> QED BY <2>1 DEF ConsumerInv
  <1>5. SlotInv' /\ PoppedInOrder' BY DEF SlotInv, PoppedInOrder
  <1> QED BY <1>1, <1>2, <1>3, <1>4, <1>5

LEMMA LoadTailRing ==
    ASSUME RingInv, NEW t \in DOMAIN tailView, NEW limit \in Nat \ {0},
           cPc \in {"idle", "reload"}, LoadTail(t, limit)
    PROVE  RingInv'
PROOF
  <1> USE RingAssumption DEF RingInv, LoadTail, producerVars
  <1>1. t \in Nat /\ t <= tail /\ tailView[t] = t
    BY DEF IndexInv, TypeOK
  <1>2. seenWrites' = t
    BY <1>1, SMTT(20) DEF Learned, TailLoadOrder, IndexInv, TypeOK
  <1>3. head \in Nat /\ head <= t
    BY <1>1, SMTT(20) DEF IndexInv, TypeOK
  <1>4. /\ cWant' \in Nat
        /\ cPc' = "read" => cWant' > 0 /\ head + cWant' <= t
        /\ cPc' \in {"idle", "read"}
    <2>1. CASE t > head
      <3>1. t - head \in Nat \ {0} /\ head + (t - head) = t BY <1>1, <1>3, <2>1
      <3>2. CASE t - head < limit
        <4>1. cWant' = t - head /\ cPc' = "read" BY <2>1, <3>2
        <4> QED BY <1>1, <1>3, <3>1, <4>1
      <3>3. CASE ~(t - head < limit)
        <4>1. head + limit <= t BY <1>1, <1>3, <3>1, <3>3
        <4> QED BY <2>1, <3>3, <4>1
      <3> QED BY <3>2, <3>3
    <2>2. CASE ~(t > head) BY <2>2 DEF TypeOK
    <2> QED BY <2>1, <2>2
  <1>5. TypeOK' BY <1>1, <1>2, <1>4 DEF TypeOK
  <1>6. IndexInv' BY <1>1, <1>2, <1>3 DEF IndexInv
  <1>7. ProducerInv' BY DEF ProducerInv
  <1>8. ConsumerInv'
    <2>1. cOut = <<>> /\ Len(cOut) = 0 BY DEF ConsumerInv
    <2> QED BY <1>4, <2>1 DEF ConsumerInv
  <1>9. SlotInv' /\ PoppedInOrder' BY DEF SlotInv, PoppedInOrder
  <1> QED BY <1>5, <1>6, <1>7, <1>8, <1>9

\* The accesses the invariant leaves possible are ordered.
LEMMA RingIsRaceFree == RingInv => DataRaceFree
PROOF
  <1> SUFFICES ASSUME RingInv PROVE DataRaceFree OBVIOUS
  <1> USE RingAssumption DEF RingInv
  <1>1. /\ tail \in Nat /\ head \in Nat /\ cachedHead \in Nat /\ cachedTail \in Nat
        /\ Len(cOut) \in Nat /\ cWant \in Nat /\ RingCapacity \in Nat
    BY DEF TypeOK
  <1>2. pPc = "write" => tail < seenReads + RingCapacity
    BY DEF ProducerInv, IndexInv
  <1>3. ASSUME cPc = "read" PROVE ReadOrdered(Reading)
    <2>1. SlotWrites <= head + RingCapacity
      BY <1>1 DEF SlotWrites, ProducerInv, IndexInv
    <2>2. seenWrites > head + Len(cOut)
      BY <1>1, <1>3 DEF ConsumerInv, IndexInv
    <2>3. SlotWrites \in Nat BY <1>1 DEF SlotWrites
    <2> QED BY <1>1, <2>1, <2>2, <2>3 DEF ReadOrdered, Reading
  <1> QED BY <1>2, <1>3 DEF DataRaceFree

\* A read, being ordered, returns the record push put there.
LEMMA ReadSlotRing ==
    ASSUME RingInv, NEW v \in Record \cup {Torn}, ReadSlot(v)
    PROVE  RingInv'
PROOF
  <1> USE RingAssumption DEF RingInv, ReadSlot, producerVars
  <1>1. /\ head \in Nat /\ tail \in Nat /\ cWant \in Nat /\ Len(cOut) \in Nat
        /\ Len(cOut) < cWant /\ head + cWant <= tail
        /\ head = Len(popped) /\ tail = Len(pushed)
    BY SMTT(20) DEF TypeOK, ConsumerInv, IndexInv
  <1>2. v = pushed[Len(popped) + Len(cOut) + 1]
    <2>1. ReadOrdered(Reading) BY RingIsRaceFree DEF DataRaceFree
    <2>2. Reading \in head .. tail - 1 BY <1>1 DEF Reading
    <2> QED BY <1>1, <2>1, <2>2 DEF SlotInv, Reading
  <1>3. /\ cOut' \in Seq(Record \cup {Torn})
        /\ Len(cOut') = Len(cOut) + 1
        /\ \A i \in 1 .. Len(cOut) : cOut'[i] = cOut[i]
        /\ cOut'[Len(cOut) + 1] = v
    BY <1>1 DEF TypeOK
  <1>4. TypeOK' BY <1>3 DEF TypeOK
  <1>5. IndexInv' BY DEF IndexInv
  <1>6. ProducerInv' BY DEF ProducerInv
  <1>7. ConsumerInv' BY <1>1, <1>3 DEF ConsumerInv
  <1>8. SlotInv' BY DEF SlotInv
  <1>9. PoppedInOrder'
    <2>1. ASSUME NEW i \in 1 .. Len(cOut')
          PROVE  cOut'[i] = pushed[Len(popped) + i]
      <3>1. CASE i \in 1 .. Len(cOut) BY <1>3, <3>1 DEF PoppedInOrder
      <3>2. CASE i = Len(cOut) + 1 BY <1>1, <1>2, <1>3, <3>2
      <3> QED BY <1>1, <1>3, <3>1, <3>2
    <2>2. Len(popped) + Len(cOut') <= Len(pushed) BY <1>1, <1>3
    <2> QED BY <2>1, <2>2 DEF PoppedInOrder
  <1> QED BY <1>4, <1>5, <1>6, <1>7, <1>8, <1>9

LEMMA PopStoreRing ==
    ASSUME RingInv, PopStore
    PROVE  RingInv'
PROOF
  <1> USE RingAssumption DEF RingInv, PopStore, producerVars
  <1>1. /\ head \in Nat /\ tail \in Nat /\ cWant \in Nat /\ Len(cOut) = cWant
        /\ head + cWant <= cachedTail /\ head + cWant <= tail
        /\ cachedTail \in Nat /\ cachedHead \in Nat
        /\ head = Len(popped) /\ tail = Len(pushed)
    BY SMTT(20) DEF TypeOK, ConsumerInv, IndexInv
  <1>2. /\ popped' \in Seq(Record \cup {Torn})
        /\ Len(popped') = head + cWant
        /\ \A i \in 1 .. head + cWant :
               popped'[i] = IF i <= head THEN popped[i] ELSE cOut[i - head]
    <2>1. popped \in Seq(Record \cup {Torn}) /\ cOut \in Seq(Record \cup {Torn})
      BY DEF TypeOK
    <2>2. /\ popped \o cOut \in Seq(Record \cup {Torn})
          /\ Len(popped \o cOut) = Len(popped) + Len(cOut)
          /\ \A i \in 1 .. Len(popped) + Len(cOut) : (popped \o cOut)[i] =
                 IF i <= Len(popped) THEN popped[i] ELSE cOut[i - Len(popped)]
      BY <2>1, ConcatProperties, Zenon
    <2> QED BY <1>1, <2>2
  <1>3. /\ DOMAIN headView' \subseteq 0 .. head'
        /\ \A h \in DOMAIN headView' : headView'[h] = h
        /\ headView' \in [DOMAIN headView' -> Nat]
        /\ DOMAIN headView' \subseteq Nat
    <2>1. DOMAIN headView' = DOMAIN headView \cup {head + cWant}
      BY DEF Stored
    <2>2. \A h \in DOMAIN headView' : h \in Nat /\ h <= head + cWant
      BY <1>1, <2>1 DEF IndexInv
    <2>3. \A h \in DOMAIN headView' : headView'[h] = h
      BY <2>1 DEF Stored, Carried, HeadStoreOrder, IndexInv
    <2>4. headView' \in [DOMAIN headView' -> Nat]
      BY <2>2, <2>3 DEF Stored
    <2> QED BY <1>1, <2>2, <2>3, <2>4
  <1>4. TypeOK'
    <2>1. cOut' \in Seq(Record \cup {Torn}) /\ head' \in Nat BY <1>1
    <2>2. tail' - head' \in 0 .. RingCapacity
      <3>1. tail - head \in 0 .. RingCapacity BY DEF TypeOK
      <3>2. tail' = tail /\ head' = head + cWant OBVIOUS
      <3> QED BY <1>1, <3>1, <3>2
    <2>3. cPc' \in {"idle", "reload", "read", "store"} OBVIOUS
    <2> QED BY <1>2, <1>3, <2>1, <2>2, <2>3 DEF TypeOK
  <1>5. IndexInv'
    <2>1. cachedHead <= head' BY <1>1 DEF IndexInv
    <2> QED BY <1>1, <1>2, <1>3, <2>1 DEF IndexInv
  <1>6. ProducerInv' BY DEF ProducerInv
  <1>7. ConsumerInv' BY DEF ConsumerInv
  <1>8. SlotInv'
    <2>1. \A n \in head' .. tail - 1 : n \in head .. tail - 1 BY <1>1
    <2> QED BY <2>1 DEF SlotInv
  <1>9. PoppedInOrder'
    <2>1. ASSUME NEW i \in 1 .. head + cWant PROVE popped'[i] = pushed[i]
      <3>1. CASE i <= head BY <1>1, <1>2, <3>1 DEF PoppedInOrder
      <3>2. CASE i > head
        <4>1. i - head \in 1 .. Len(cOut) /\ Len(popped) + (i - head) = i /\ ~(i <= head)
          BY <1>1, <3>2
        <4>2. cOut[i - head] = pushed[i] BY <4>1 DEF PoppedInOrder
        <4>3. popped'[i] = IF i <= head THEN popped[i] ELSE cOut[i - head] BY <2>1, <1>2
        <4> QED BY ONLY <4>1, <4>2, <4>3, Zenon
      <3>3. i <= head \/ i > head BY ONLY <1>1, <2>1, SMT
      <3> QED BY ONLY <3>1, <3>2, <3>3, Zenon
    <2>2. Len(cOut') = 0 BY DEF PopStore
    <2> QED BY <1>1, <1>2, <2>1, <2>2 DEF PoppedInOrder
  <1> QED BY <1>4, <1>5, <1>6, <1>7, <1>8, <1>9

-----------------------------------------------------------------------------
LEMMA NextRing == RingInv /\ [RingNext]_ringVars => RingInv'
PROOF
  <1> SUFFICES ASSUME RingInv, [RingNext]_ringVars PROVE RingInv' OBVIOUS
  <1>1. ASSUME NEW v \in Record, PushBegin(v) PROVE RingInv'
    BY <1>1, PushBeginRing
  <1>2. ASSUME NEW h \in DOMAIN headView, PushReload(h) PROVE RingInv'
    BY <1>2, PushReloadRing
  <1>3. CASE PushWrite BY <1>3, PushWriteRing
  <1>4. CASE PushStore BY <1>4, PushStoreRing
  <1>5. CASE PopBegin BY <1>5, PopBeginRing
  <1>6. ASSUME NEW t \in DOMAIN tailView, PopReload(t) PROVE RingInv'
    BY <1>6, LoadTailRing DEF PopReload
  <1>7. ASSUME NEW t \in DOMAIN tailView, NEW limit \in 1 .. MaxBatch,
               PopBatch(t, limit)
        PROVE  RingInv'
    <2>1. limit \in Nat \ {0} BY RingAssumption
    <2> QED BY <1>7, <2>1, LoadTailRing DEF PopBatch
  <1>8. ASSUME NEW v \in Record \cup {Torn}, ReadSlot(v) PROVE RingInv'
    BY <1>8, ReadSlotRing
  <1>9. CASE PopStore BY <1>9, PopStoreRing
  <1>10. CASE UNCHANGED ringVars BY <1>10, RingStutters
  <1> QED
    BY <1>1, <1>2, <1>3, <1>4, <1>5, <1>6, <1>7, <1>8, <1>9, <1>10
    DEF RingNext, Producer, Consumer

LEMMA RingInvariant == RingSpec => []RingInv
PROOF BY InitRing, NextRing, PTL DEF RingSpec

\* The ring's state keeps its types.
THEOREM RingTypeOK == RingSpec => []TypeOK
PROOF BY RingInvariant, PTL DEF RingInv

\* No slot access of push, pop or pop_batch races with one of the other
\* thread, whatever values the loads of the indices return within their
\* modification order.
THEOREM RingDataRaceFree == RingSpec => []DataRaceFree
PROOF BY RingInvariant, RingIsRaceFree, PTL

\* pop and pop_batch return what push accepted, in order, each record once.
THEOREM RingPoppedInOrder == RingSpec => []PoppedInOrder
PROOF BY RingInvariant, PTL DEF RingInv

-----------------------------------------------------------------------------
(* Refinement: the ring is the bounded FIFO.                                 *)
Queue == SubSeq(pushed, Len(popped) + 1, Len(pushed))

\* What a window of a sequence holds, element by element.
LEMMA Window ==
    ASSUME NEW S, NEW s, NEW m \in Nat, NEW n \in Nat, m <= n,
           \A i \in m + 1 .. n : s[i] \in S
    PROVE  /\ SubSeq(s, m + 1, n) \in Seq(S)
           /\ Len(SubSeq(s, m + 1, n)) = n - m
           /\ \A i \in 1 .. n - m : SubSeq(s, m + 1, n)[i] = s[m + i]
PROOF
  <1> DEFINE w == SubSeq(s, m + 1, n)
  <1>1. m + 1 \in Int /\ n \in Int OBVIOUS
  <1>2. /\ w \in Seq(S)
        /\ Len(w) = IF m + 1 <= n THEN n - (m + 1) + 1 ELSE 0
        /\ \A i \in 1 .. n - (m + 1) + 1 : w[i] = s[(m + 1) + i - 1]
    BY <1>1, SubSeqProperties
  <1> HIDE DEF w
  <1>3. Len(w) = n - m BY <1>2
  <1>4. ASSUME NEW i \in 1 .. n - m PROVE w[i] = s[m + i]
    <2>1. i \in 1 .. n - (m + 1) + 1 /\ (m + 1) + i - 1 = m + i OBVIOUS
    <2> QED BY <1>2, <2>1
  <1> QED BY <1>2, <1>3, <1>4 DEF w

\* What the queue holds, record by record.
LEMMA QueueProperties ==
    ASSUME RingInv
    PROVE  /\ Queue \in Seq(Record)
           /\ Len(Queue) = tail - head
           /\ \A i \in 1 .. tail - head : Queue[i] = pushed[head + i]
PROOF
  <1>1. /\ head \in Nat /\ tail \in Nat /\ head <= tail
        /\ tail = Len(pushed) /\ head = Len(popped)
    BY DEF RingInv, TypeOK, IndexInv
  <1>2. \A i \in head + 1 .. tail : pushed[i] \in Record
    BY <1>1 DEF RingInv, SlotInv
  <1>3. Queue = SubSeq(pushed, head + 1, tail) BY <1>1 DEF Queue
  <1> QED BY <1>1, <1>2, <1>3, Window

\* push takes effect at its store to tail_.
LEMMA PushStoreAccepts ==
    ASSUME RingInv, RingInv', PushStore
    PROVE  \E v \in Record :
               Len(Queue) < RingCapacity /\ Queue' = Append(Queue, v) /\ popped' = popped
PROOF
  <1>1. /\ head \in Nat /\ tail \in Nat /\ head <= tail /\ pValue \in Record
        /\ tail = Len(pushed) /\ tail < head + RingCapacity /\ RingCapacity \in Nat
    <2>1. /\ head \in Nat /\ tail \in Nat /\ cachedHead \in Nat /\ cachedTail \in Nat
          /\ RingCapacity \in Nat
      BY RingAssumption DEF RingInv, TypeOK
    <2>2. /\ pValue \in Record /\ tail = Len(pushed) /\ cachedHead <= head
          /\ tail < cachedHead + RingCapacity /\ head <= cachedTail /\ cachedTail <= tail
      BY DEF RingInv, IndexInv, ProducerInv, PushStore
    <2> QED BY <2>1, <2>2
  <1>2. tail' = tail + 1 /\ head' = head /\ popped' = popped
    BY DEF PushStore, consumerVars
  <1>3. \A i \in 1 .. tail : pushed'[i] = pushed[i]
    BY <1>1 DEF PushStore, RingInv, TypeOK
  <1>4. pushed'[tail + 1] = pValue
    BY <1>1 DEF PushStore, RingInv, TypeOK
  <1>5. /\ Queue \in Seq(Record) /\ Len(Queue) = tail - head
        /\ \A i \in 1 .. tail - head : Queue[i] = pushed[head + i]
    BY QueueProperties
  <1>6. /\ Queue' \in Seq(Record) /\ Len(Queue') = (tail - head) + 1
        /\ \A i \in 1 .. (tail - head) + 1 : Queue'[i] = pushed'[head + i]
    <2>1. /\ tail' \in Nat /\ head' \in Nat /\ head' <= tail'
          /\ tail' = Len(pushed') /\ head' = Len(popped')
      BY <1>1, <1>2 DEF RingInv, IndexInv
    <2>2. \A i \in head' + 1 .. tail' : pushed'[i] \in Record
      BY <2>1 DEF RingInv, SlotInv
    <2>3. Queue' = SubSeq(pushed', head' + 1, tail') BY <2>1 DEF Queue
    <2>4. /\ Queue' \in Seq(Record) /\ Len(Queue') = tail' - head'
          /\ \A i \in 1 .. tail' - head' : Queue'[i] = pushed'[head' + i]
      BY <2>1, <2>2, <2>3, Window
    <2>5. tail' - head' = (tail - head) + 1 BY <1>1, <1>2
    <2> QED BY <1>2, <2>4, <2>5
  <1>7. /\ Append(Queue, pValue) \in Seq(Record)
        /\ Len(Append(Queue, pValue)) = tail - head + 1
        /\ \A i \in 1 .. tail - head : Append(Queue, pValue)[i] = Queue[i]
        /\ Append(Queue, pValue)[tail - head + 1] = pValue
    BY <1>1, <1>5
  <1>8. ASSUME NEW i \in 1 .. Len(Queue') PROVE Queue'[i] = Append(Queue, pValue)[i]
    <2>1. CASE i \in 1 .. tail - head
      <3>1. head + i \in 1 .. tail BY <1>1, <2>1
      <3> QED BY <1>1, <1>3, <1>5, <1>6, <1>7, <2>1, <3>1
    <2>2. CASE i = tail - head + 1
      <3>1. head + i = tail + 1 /\ i \in 1 .. (tail - head) + 1 BY <1>1, <2>2
      <3> QED BY <1>4, <1>6, <1>7, <2>2, <3>1
    <2>3. i \in 1 .. (tail - head) + 1 BY <1>6
    <2>4. tail - head \in Nat BY <1>1
    <2>5. i \in 1 .. tail - head \/ i = tail - head + 1 BY <2>3, <2>4
    <2> QED BY <2>1, <2>2, <2>5
  <1>9. Queue' = Append(Queue, pValue)
    <2>1. Len(Queue') = Len(Append(Queue, pValue)) BY <1>1, <1>6, <1>7
    <2> QED BY <1>6, <1>7, <1>8, <2>1, SeqEqual
  <1> QED BY <1>1, <1>2, <1>5, <1>9

\* pop and pop_batch take effect at their store to head_.
LEMMA PopStoreTakes ==
    ASSUME RingInv, RingInv', PopStore
    PROVE  \E n \in 1 .. Len(Queue) :
               /\ popped' = popped \o SubSeq(Queue, 1, n)
               /\ Queue' = SubSeq(Queue, n + 1, Len(Queue))
PROOF
  <1>1. /\ head \in Nat /\ tail \in Nat /\ cWant \in Nat /\ cWant > 0
        /\ head + cWant <= tail /\ Len(cOut) = cWant /\ head = Len(popped)
        /\ cOut \in Seq(Record \cup {Torn})
    BY SMTT(20) DEF RingInv, TypeOK, IndexInv, ConsumerInv, PopStore
  <1>2. head' = head + cWant /\ tail' = tail /\ pushed' = pushed
    BY DEF PopStore, producerVars
  <1>3. /\ Queue \in Seq(Record) /\ Len(Queue) = tail - head
        /\ \A i \in 1 .. tail - head : Queue[i] = pushed[head + i]
    BY QueueProperties
  <1>4. /\ Queue' \in Seq(Record) /\ Len(Queue') = tail - (head + cWant)
        /\ \A i \in 1 .. tail - (head + cWant) : Queue'[i] = pushed[head + cWant + i]
    <2>1. /\ tail' \in Nat /\ head' \in Nat /\ head' <= tail'
          /\ tail' = Len(pushed') /\ head' = Len(popped')
      BY <1>1, <1>2 DEF RingInv, IndexInv
    <2>2. \A i \in head' + 1 .. tail' : pushed'[i] \in Record
      BY <2>1 DEF RingInv, SlotInv
    <2>3. Queue' = SubSeq(pushed', head' + 1, tail') BY <2>1 DEF Queue
    <2>4. /\ Queue' \in Seq(Record) /\ Len(Queue') = tail' - head'
          /\ \A i \in 1 .. tail' - head' : Queue'[i] = pushed'[head' + i]
      BY <2>1, <2>2, <2>3, Window
    <2> QED BY <1>2, <2>4
  <1>5. cWant \in 1 .. Len(Queue) BY <1>1, <1>3
  <1>6. \A i \in 1 .. Len(Queue) : Queue[i] \in Record
    BY <1>3, ElementOfSeq
  <1>7. popped' = popped \o SubSeq(Queue, 1, cWant)
    <2> DEFINE front == SubSeq(Queue, 0 + 1, cWant)
    <2>1. /\ front \in Seq(Record \cup {Torn}) /\ Len(front) = cWant - 0
          /\ \A i \in 1 .. cWant - 0 : front[i] = Queue[0 + i]
      <3>1. \A i \in 0 + 1 .. cWant : Queue[i] \in Record \cup {Torn}
        BY <1>1, <1>3, <1>5, <1>6
      <3> QED BY <1>1, <3>1, Window
    <2> HIDE DEF front
    <2>2. ASSUME NEW i \in 1 .. Len(cOut) PROVE cOut[i] = front[i]
      <3>1. i \in 1 .. cWant - 0 /\ 0 + i = i /\ i \in 1 .. tail - head
        BY <1>1
      <3>2. cOut[i] = pushed[head + i]
        BY <1>1 DEF RingInv, PoppedInOrder
      <3> QED BY <1>3, <2>1, <3>1, <3>2
    <2>3. Len(cOut) = Len(front) BY <1>1, <2>1
    <2>4. cOut = front BY <1>1, <2>1, <2>2, <2>3, SeqEqual
    <2> QED BY <2>4 DEF PopStore, front
  <1>8. Queue' = SubSeq(Queue, cWant + 1, Len(Queue))
    <2> DEFINE rest == SubSeq(Queue, cWant + 1, Len(Queue))
    <2>1. /\ rest \in Seq(Record) /\ Len(rest) = Len(Queue) - cWant
          /\ \A i \in 1 .. Len(Queue) - cWant : rest[i] = Queue[cWant + i]
      <3>1. \A i \in cWant + 1 .. Len(Queue) : Queue[i] \in Record
        BY <1>1, <1>3, <1>6
      <3>2. Len(Queue) \in Nat /\ cWant <= Len(Queue) BY <1>3, <1>5
      <3> QED BY <1>1, <3>1, <3>2, Window
    <2> HIDE DEF rest
    <2>2. Len(Queue') = Len(rest) BY <1>1, <1>3, <1>4, <2>1
    <2>3. ASSUME NEW i \in 1 .. Len(Queue') PROVE Queue'[i] = rest[i]
      <3>1. /\ i \in 1 .. Len(Queue) - cWant
            /\ cWant + i \in 1 .. tail - head
            /\ head + (cWant + i) = head + cWant + i
        BY <1>1, <1>3, <1>4
      <3>2. rest[i] = pushed[head + (cWant + i)] BY <1>3, <2>1, <3>1
      <3> QED BY <1>4, <3>1, <3>2
    <2> QED BY <1>4, <2>1, <2>2, <2>3, SeqEqual DEF rest
  <1> QED BY <1>5, <1>7, <1>8

\* Every step of the ring is a step of the FIFO or leaves it alone.
LEMMA RingStepsAreFifoSteps ==
    RingInv /\ RingInv' /\ [RingNext]_ringVars => [Fifo!FifoNext]_(Fifo!fifoVars)
PROOF
  <1> SUFFICES ASSUME RingInv, RingInv', [RingNext]_ringVars
               PROVE  [Fifo!FifoNext]_(Fifo!fifoVars)
    OBVIOUS
  <1>1. CASE PushStore
    <2>1. \E v \in Record : Fifo!Accept(v)
      BY <1>1, PushStoreAccepts DEF Fifo!Accept, Queue
    <2> QED BY <2>1 DEF Fifo!FifoNext
  <1>2. CASE PopStore
    <2>1. \E n \in 1 .. Len(Queue) : Fifo!Take(n)
      BY <1>2, PopStoreTakes DEF Fifo!Take, Queue
    <2> QED BY <2>1 DEF Fifo!FifoNext, Queue
  <1>3. CASE UNCHANGED <<pushed, popped>>
    BY <1>3 DEF Fifo!fifoVars
  <1>4. PushStore \/ PopStore \/ UNCHANGED <<pushed, popped>>
    BY DEF RingNext, Producer, Consumer, ringVars, producerVars, consumerVars, PushBegin,
           PushReload, PushWrite, PopBegin, PopReload, PopBatch, LoadTail, ReadSlot
  <1> QED BY <1>1, <1>2, <1>3, <1>4

\* The ring implements the bounded FIFO, for every capacity: it never holds
\* more than RingCapacity records, and gives them back in order, each once.
THEOREM RingImplementsFifo == RingSpec => ImplementsFifo
PROOF
  <1>1. RingInit => Fifo!FifoInit
    <2> SUFFICES ASSUME RingInit PROVE Fifo!FifoInit OBVIOUS
    <2>1. pushed = <<>> /\ popped = <<>> BY DEF RingInit
    <2>2. SubSeq(pushed, Len(popped) + 1, Len(pushed)) = <<>>
      <3>1. Len(popped) + 1 = 1 /\ Len(pushed) = 0 BY <2>1
      <3> QED BY <3>1, SubSeqEmpty
    <2> QED BY <2>1, <2>2 DEF Fifo!FifoInit
  <1> QED
    BY <1>1, RingInvariant, RingStepsAreFifoSteps, PTL
    DEF RingSpec, ImplementsFifo, Fifo!FifoSpec

(***************************************************************************)
(* Publisher: records cross in sequence order.  The theorems are about a   *)
(* client that does not repeat the message a stalled drain waits on        *)
(* (~ReoffersStalled): for one that does, TLC shows the slot of the        *)
(* message left behind.                                                    *)
(***************************************************************************)
-----------------------------------------------------------------------------
(* The slot of a sequence.                                                   *)

LEMMA FactorBound ==
    ASSUME NEW d \in Nat, NEW k \in Int, k >= 1
    PROVE  d * k >= d
PROOF
  <1>1. d * k = d + d * (k - 1) BY SMT
  <1>2. d * (k - 1) >= 0 BY SMT
  <1> QED BY <1>1, <1>2, SMT

\* Within one window a slot belongs to one sequence: what held_ rests on.
LEMMA SlotIsOwn ==
    ASSUME NEW a \in Nat, NEW b \in Nat, a <= b, b < a + Pending,
           SlotOf(a) = SlotOf(b)
    PROVE  a = b
PROOF
  <1> USE PublisherAssumption DEF SlotOf
  <1> DEFINE qa == a \div Pending
             qb == b \div Pending
  <1>1. /\ a = Pending * qa + (a % Pending)
        /\ b = Pending * qb + (b % Pending)
        /\ qa \in Int /\ qb \in Int /\ a % Pending \in Int
    BY SMT
  <1> HIDE DEF qa, qb
  <1>2. Pending * (qb - qa) = Pending * qb - Pending * qa BY <1>1, SMT
  <1>3. b - a = Pending * (qb - qa) BY <1>1, <1>2, SMT
  <1>4. CASE qb - qa >= 1 BY <1>1, <1>3, <1>4, FactorBound, SMT
  <1>5. CASE qb - qa <= 0
    <2>1. Pending * (qa - qb) >= 0 BY <1>1, <1>5, SMT
    <2>2. Pending * (qb - qa) = -(Pending * (qa - qb)) BY <1>1, SMT
    <2> QED BY <1>1, <1>3, <2>1, <2>2, SMT
  <1> QED BY <1>1, <1>4, <1>5, SMT

LEMMA SlotIsSlot == ASSUME NEW s \in Nat PROVE SlotOf(s) \in Slots
PROOF BY PublisherAssumption, SMT DEF SlotOf, Slots

-----------------------------------------------------------------------------
(* The inductive invariant.                                                  *)

PublisherTypes ==
    /\ queue \in Seq(Sequences) /\ taken \in Seq(Sequences)
    /\ next \in Nat /\ next >= First
    /\ have \in [Slots -> BOOLEAN] /\ held \in [Slots -> Nat]
    /\ draining \in BOOLEAN
    /\ accepted \subseteq Sequences /\ current \in Nat

\* What is held was offered, so it may be pushed.
HeldIsOffered == \A i \in Slots : have[i] => held[i] \in Sequences

\* The offer a drain belongs to has crossed already.
DrainFollowsPush == draining => current \in Sequences /\ current < next

PublisherInv ==
    /\ PublisherTypes /\ HeldIsOffered /\ DrainFollowsPush
    /\ CrossesInSequence /\ WindowHolds /\ AcceptedIsKept

LEMMA NatConstants ==
    /\ First \in Nat /\ Pending \in Nat /\ Pending > 0 /\ MaxSequence \in Nat
    /\ Sequences \subseteq Nat
PROOF BY PublisherAssumption, SMT DEF Sequences

LEMMA InitPublisher == Init => PublisherInv
PROOF
  <1> SUFFICES ASSUME Init PROVE PublisherInv OBVIOUS
  <1> USE NatConstants DEF Init, FifoInit
  <1>1. PublisherTypes
    <2>1. <<>> \in Seq(Sequences) OBVIOUS
    <2>2. /\ [i \in Slots |-> FALSE] \in [Slots -> BOOLEAN]
          /\ [i \in Slots |-> First] \in [Slots -> Nat]
      OBVIOUS
    <2>3. next \in Nat /\ next >= First /\ current \in Nat BY SMT
    <2> QED BY <2>1, <2>2, <2>3 DEF PublisherTypes
  <1>2. HeldIsOffered /\ DrainFollowsPush BY DEF HeldIsOffered, DrainFollowsPush
  <1>3. CrossesInSequence BY DEF CrossesInSequence, Crossed
  <1>4. WindowHolds BY DEF WindowHolds
  <1>5. AcceptedIsKept BY DEF AcceptedIsKept
  <1> QED BY <1>1, <1>2, <1>3, <1>4, <1>5 DEF PublisherInv

-----------------------------------------------------------------------------
(* Pushing and popping.                                                      *)

\* A push of the next sequence extends what crossed by one.
LEMMA PushCrosses ==
    ASSUME PublisherInv, next \in Sequences, Accept(next), next' = next + 1
    PROVE  /\ CrossesInSequence'
           /\ queue' \in Seq(Sequences) /\ taken' \in Seq(Sequences)
PROOF
  <1>1. /\ queue \in Seq(Sequences) /\ taken \in Seq(Sequences)
        /\ next \in Nat /\ next >= First
    BY DEF PublisherInv, PublisherTypes
  <1>2. queue' = Append(queue, next) /\ taken' = taken BY DEF Accept
  <1>3. /\ queue' \in Seq(Sequences) /\ Len(queue') = Len(queue) + 1
        /\ \A j \in 1 .. Len(queue) + 1 :
                queue'[j] = IF j = Len(queue) + 1 THEN next ELSE queue[j]
    BY <1>1, <1>2
  <1> DEFINE c == taken \o queue
             d == taken' \o queue'
             n == Len(taken)
  <1>4. /\ Len(c) = n + Len(queue) /\ Len(d) = n + Len(queue')
        /\ \A i \in 1 .. Len(c) : c[i] = IF i <= n THEN taken[i] ELSE queue[i - n]
        /\ \A i \in 1 .. Len(d) : d[i] = IF i <= n THEN taken[i] ELSE queue'[i - n]
    BY <1>1, <1>2, <1>3
  <1>5. Len(c) = next - First /\ \A i \in 1 .. Len(c) : c[i] = First + i - 1
    BY DEF PublisherInv, CrossesInSequence, Crossed
  <1>6. n \in Nat /\ Len(queue) \in Nat BY <1>1
  <1> HIDE DEF c, d, n
  <1>7. Len(d) = Len(c) + 1 BY <1>3, <1>4, <1>6
  <1>8. ASSUME NEW i \in 1 .. Len(d) PROVE d[i] = First + i - 1
    <2>1. CASE i = Len(c) + 1
      <3>1. i = n + Len(queue) + 1 /\ Len(c) \in Nat BY <2>1, <1>4, <1>6, SMT
      <3>2. i - n = Len(queue) + 1 /\ ~(i <= n) BY <3>1, <1>6, SMT
      <3>3. queue'[Len(queue) + 1] = next BY <1>3, <1>6
      <3>4. d[i] = next BY <3>2, <3>3, <1>4
      <3> QED BY <2>1, <3>1, <3>4, <1>1, <1>5, NatConstants, SMT
    <2>2. CASE i # Len(c) + 1
      <3>1. i \in 1 .. Len(c) BY <2>2, <1>4, <1>6, <1>7, SMT
      <3>2. d[i] = c[i] BY <3>1, <2>2, <1>3, <1>4, <1>6, <1>7, SMTT(20)
      <3> QED BY <3>1, <3>2, <1>5
    <2> QED BY <2>1, <2>2
  <1>9. Len(d) = next' - First BY <1>1, <1>5, <1>7, NatConstants, SMT
  <1> QED BY <1>1, <1>2, <1>3, <1>8, <1>9 DEF CrossesInSequence, Crossed, d

\* Two ways to cut one sequence in two.
LEMMA Regrouped ==
    ASSUME NEW S, NEW t \in Seq(S), NEW q \in Seq(S), NEW n \in 0 .. Len(q),
           NEW u \in Seq(S), Len(u) = Len(t) + n,
           \A i \in 1 .. Len(t) : u[i] = t[i],
           \A i \in 1 .. n : u[Len(t) + i] = q[i],
           NEW p \in Seq(S), Len(p) = Len(q) - n,
           \A i \in 1 .. Len(q) - n : p[i] = q[n + i]
    PROVE  u \o p = t \o q
PROOF
  <1>1. Len(q) \in Nat /\ Len(t) \in Nat /\ n \in Nat /\ n <= Len(q) OBVIOUS
  <1>2. /\ t \o q \in Seq(S) /\ Len(t \o q) = Len(t) + Len(q)
        /\ \A i \in 1 .. Len(t) + Len(q) :
                (t \o q)[i] = IF i <= Len(t) THEN t[i] ELSE q[i - Len(t)]
    BY ConcatProperties
  <1>3. /\ u \o p \in Seq(S) /\ Len(u \o p) = Len(u) + Len(p)
        /\ \A i \in 1 .. Len(u) + Len(p) :
                (u \o p)[i] = IF i <= Len(u) THEN u[i] ELSE p[i - Len(u)]
    BY ConcatProperties
  <1>4. Len(u) + Len(p) = Len(t) + Len(q) BY <1>1, SMT
  <1>5. ASSUME NEW i \in 1 .. Len(t) + Len(q) PROVE (u \o p)[i] = (t \o q)[i]
    <2>1. CASE i <= Len(t)
      <3>1. i \in 1 .. Len(t) /\ i <= Len(u) BY <2>1, <1>1, SMT
      <3> QED BY <3>1, <2>1, <1>2, <1>3, <1>4
    <2>2. CASE ~(i <= Len(t)) /\ i <= Len(t) + n
      <3>1. i - Len(t) \in 1 .. n /\ i = Len(t) + (i - Len(t)) BY <2>2, <1>1, SMT
      <3> QED BY <3>1, <2>2, <1>2, <1>3, <1>4
    <2>3. CASE ~(i <= Len(t) + n)
      <3>1. /\ i - Len(u) \in 1 .. Len(q) - n /\ n + (i - Len(u)) = i - Len(t)
            /\ ~(i <= Len(t)) /\ ~(i <= Len(u))
        BY <2>3, <1>1, SMT
      <3>2. i \in 1 .. Len(u) + Len(p) BY <1>4
      <3>3. (u \o p)[i] = p[i - Len(u)] BY <3>1, <3>2, <1>3, Zenon
      <3>4. (t \o q)[i] = q[i - Len(t)] BY <3>1, <1>2, Zenon
      <3>5. p[i - Len(u)] = q[n + (i - Len(u))] BY <3>1, Zenon
      <3> QED BY <3>1, <3>3, <3>4, <3>5, Zenon
    <2> QED BY <2>1, <2>2, <2>3
  <1> QED BY <1>2, <1>3, <1>4, <1>5, SeqEqual

\* A pop moves records from the queue to what was taken, and no farther.
LEMMA PopKeepsCrossed ==
    ASSUME NEW S, NEW t \in Seq(S), NEW q \in Seq(S), NEW n \in 1 .. Len(q)
    PROVE  /\ t \o SubSeq(q, 1, n) \in Seq(S) /\ SubSeq(q, n + 1, Len(q)) \in Seq(S)
           /\ (t \o SubSeq(q, 1, n)) \o SubSeq(q, n + 1, Len(q)) = t \o q
PROOF
  <1>1. Len(q) \in Nat /\ Len(t) \in Nat /\ n \in Nat OBVIOUS
  <1> DEFINE f == SubSeq(q, 1, n)
             u == t \o f
             p == SubSeq(q, n + 1, Len(q))
  <1>2. /\ f \in Seq(S) /\ Len(f) = n /\ \A i \in 1 .. n : f[i] = q[i]
    BY <1>1
  <1>3. /\ p \in Seq(S) /\ Len(p) = Len(q) - n
        /\ \A i \in 1 .. Len(q) - n : p[i] = q[n + i]
    BY <1>1
  <1> HIDE DEF f
  <1>4. /\ u \in Seq(S) /\ Len(u) = Len(t) + n
        /\ \A i \in 1 .. Len(t) + n : u[i] = IF i <= Len(t) THEN t[i] ELSE f[i - Len(t)]
    BY <1>1, <1>2 DEF f
  <1> HIDE DEF u, p
  <1>5. \A i \in 1 .. Len(t) : u[i] = t[i] BY <1>1, <1>4
  <1>6. \A i \in 1 .. n : u[Len(t) + i] = q[i]
    <2> TAKE i \in 1 .. n
    <2>1. /\ Len(t) + i \in 1 .. Len(t) + n /\ ~(Len(t) + i <= Len(t))
          /\ (Len(t) + i) - Len(t) = i
      BY <1>1, SMT
    <2> QED BY <2>1, <1>2, <1>4
  <1>7. n \in 0 .. Len(q) BY <1>1
  <1>8. u \in Seq(S) /\ p \in Seq(S) BY <1>3, <1>4
  <1>9. Len(u) = Len(t) + n /\ Len(p) = Len(q) - n BY <1>3, <1>4
  <1>10. \A i \in 1 .. Len(q) - n : p[i] = q[n + i] BY <1>3
  <1>11. t \in Seq(S) /\ q \in Seq(S) OBVIOUS
  <1>12. u \o p = t \o q
    BY ONLY <1>5, <1>6, <1>7, <1>8, <1>9, <1>10, <1>11, Regrouped, ZenonT(60)
  <1> QED BY <1>8, <1>12 DEF u, p, f

-----------------------------------------------------------------------------
(* Each action keeps the invariant.                                          *)

\* The record in the slot of the next sequence is the next sequence.
LEMMA NextInItsSlot ==
    ASSUME PublisherInv, have[SlotOf(next)]
    PROVE  held[SlotOf(next)] = next /\ next \in Sequences
PROOF
  <1>1. next \in Nat /\ SlotOf(next) \in Slots
    BY SlotIsSlot DEF PublisherInv, PublisherTypes
  <1> DEFINE h == held[SlotOf(next)]
  <1>2. h \in Sequences /\ SlotOf(h) = SlotOf(next) /\ h >= next /\ h < next + Pending
    BY <1>1 DEF PublisherInv, WindowHolds, HeldIsOffered
  <1> HIDE DEF h
  <1>3. h \in Nat BY <1>2, NatConstants
  <1>4. h = next BY <1>1, <1>2, <1>3, SlotIsOwn
  <1> QED BY <1>2, <1>4 DEF h

\* Everything held, with the slot of the next sequence empty, is farther ahead.
LEMMA WindowMoves ==
    ASSUME PublisherInv, NEW i \in Slots, have[i], i # SlotOf(next)
    PROVE  held[i] >= next + 1 /\ held[i] < next + 1 + Pending
PROOF
  <1>1. /\ SlotOf(held[i]) = i /\ held[i] >= next /\ held[i] < next + Pending
        /\ held[i] \in Nat /\ next \in Nat
    BY DEF PublisherInv, WindowHolds, PublisherTypes
  <1>2. held[i] # next BY <1>1
  <1> QED BY <1>1, <1>2, NatConstants, SMT

\* A step that only answers an offer, or a drain.
LEMMA AnswerKeeps ==
    ASSUME PublisherInv, UNCHANGED <<fifoVars, windowVars>>,
           NEW s \in Sequences, NEW result \in BOOLEAN, Returns(s, result),
           result => s < next \/ s \in HeldSequences,
           current' \in Nat
    PROVE  PublisherInv'
PROOF
  <1> USE DEF PublisherInv, fifoVars, windowVars
  <1>1. accepted' \subseteq accepted \cup {s} /\ (~result => accepted' = accepted)
        /\ draining' = FALSE
    BY DEF Returns
  <1>2. PublisherTypes' BY <1>1 DEF PublisherTypes
  <1>3. HeldIsOffered' /\ DrainFollowsPush' BY <1>1 DEF HeldIsOffered, DrainFollowsPush
  <1>4. CrossesInSequence' BY DEF CrossesInSequence, Crossed
  <1>5. WindowHolds' BY DEF WindowHolds
  <1>6. AcceptedIsKept' BY <1>1 DEF AcceptedIsKept, HeldSequences
  <1> QED BY <1>2, <1>3, <1>4, <1>5, <1>6

LEMMA OfferPublishedKeeps ==
    ASSUME PublisherInv, NEW s \in Sequences, OfferPublished(s)
    PROVE  PublisherInv'
PROOF
  <1>1. s \in Nat BY NatConstants
  <1> QED BY <1>1, AnswerKeeps DEF OfferPublished, Offering

LEMMA OfferOversizedKeeps ==
    ASSUME PublisherInv, NEW s \in Sequences, OfferOversized(s)
    PROVE  PublisherInv'
PROOF
  <1>1. s \in Nat BY NatConstants
  <1> QED BY <1>1, AnswerKeeps DEF OfferOversized, Offering

LEMMA OfferInOrderKeeps ==
    ASSUME PublisherInv, ~ReoffersStalled, NEW s \in Sequences, OfferInOrder(s)
    PROVE  PublisherInv'
PROOF
  <1>0. s \in Nat /\ s = next /\ current' = s BY NatConstants DEF OfferInOrder, Offering
  <1>1. CASE SeesFull /\ Returns(s, FALSE) /\ UNCHANGED <<fifoVars, windowVars>>
    BY <1>0, <1>1, AnswerKeeps
  <1>2. CASE /\ Accept(s) /\ next' = next + 1 /\ draining' = TRUE
             /\ UNCHANGED <<have, held, accepted>>
    <2> USE DEF PublisherInv
    \* The client does not offer again what its slot still holds.
    <2>1. ~have[SlotOf(next)]
      BY <1>0, NextInItsSlot DEF OfferInOrder, Offering
    <2>2. CrossesInSequence' /\ queue' \in Seq(Sequences) /\ taken' \in Seq(Sequences)
      BY <1>0, <1>2, PushCrosses
    <2>3. next \in Nat /\ next >= First BY DEF PublisherTypes
    <2>4. PublisherTypes'
      BY <1>0, <1>2, <2>2, <2>3, NatConstants DEF PublisherTypes
    <2>5. HeldIsOffered' /\ DrainFollowsPush'
      BY <1>0, <1>2, <2>3 DEF HeldIsOffered, DrainFollowsPush
    <2>6. WindowHolds'
      <3> SUFFICES ASSUME NEW i \in Slots, have'[i]
                   PROVE  /\ SlotOf(held'[i]) = i
                          /\ held'[i] >= next' /\ held'[i] < next' + Pending
        BY DEF WindowHolds
      <3>1. have[i] /\ held'[i] = held[i] /\ i # SlotOf(next) BY <1>2, <2>1
      <3> QED BY <3>1, <1>2, WindowMoves DEF WindowHolds
    <2>7. AcceptedIsKept'
      <3>1. \A t \in accepted : t < next => t < next + 1
        BY <2>3, NatConstants, SMT DEF PublisherTypes
      <3> QED BY <3>1, <1>2 DEF AcceptedIsKept, HeldSequences
    <2> QED BY <2>2, <2>4, <2>5, <2>6, <2>7
  <1> QED BY <1>1, <1>2 DEF OfferInOrder

LEMMA OfferEarlyKeeps ==
    ASSUME PublisherInv, NEW s \in Sequences, OfferEarly(s)
    PROVE  PublisherInv'
PROOF
  <1>0. s \in Nat /\ current' = s /\ s > next BY NatConstants DEF OfferEarly, Offering
  <1>1. CASE ~WindowTakes(s)
    <2>1. UNCHANGED <<fifoVars, windowVars>> /\ Returns(s, FALSE)
      BY <1>1 DEF OfferEarly, Returns, windowVars
    <2> QED BY <1>0, <2>1, AnswerKeeps
  <1>2. CASE WindowTakes(s)
    <2> USE DEF PublisherInv
    <2> DEFINE k == SlotOf(s)
    <2>1. /\ held' = [held EXCEPT ![k] = s] /\ have' = [have EXCEPT ![k] = TRUE]
          /\ UNCHANGED <<fifoVars, next>>
          /\ draining' = FALSE /\ accepted' = accepted \cup {s}
      BY <1>2 DEF OfferEarly, Returns
    <2>2. k \in Slots BY <1>0, SlotIsSlot
    <2>3. s < next + Pending /\ (have[k] => held[k] = s)
      BY <1>0, <1>2, NatConstants, SMT DEF WindowTakes, PublisherTypes
    <2> HIDE DEF k
    <2>4. \A i \in Slots : /\ held'[i] = IF i = k THEN s ELSE held[i]
                           /\ have'[i] = IF i = k THEN TRUE ELSE have[i]
      BY <2>1 DEF PublisherTypes
    <2>5. PublisherTypes' BY <1>0, <2>1 DEF PublisherTypes, fifoVars
    <2>6. HeldIsOffered' /\ DrainFollowsPush'
      BY <2>1, <2>4 DEF HeldIsOffered, DrainFollowsPush
    <2>7. CrossesInSequence' BY <2>1 DEF CrossesInSequence, Crossed, fifoVars
    <2>8. WindowHolds'
      <3> SUFFICES ASSUME NEW i \in Slots, have'[i]
                   PROVE  /\ SlotOf(held'[i]) = i
                          /\ held'[i] >= next' /\ held'[i] < next' + Pending
        BY DEF WindowHolds
      <3>1. CASE i = k
        <4>1. s >= next BY <1>0, SMT DEF PublisherTypes
        <4> QED BY <3>1, <4>1, <2>1, <2>3, <2>4 DEF k
      <3>2. CASE i # k BY <3>2, <2>1, <2>4 DEF WindowHolds
      <3> QED BY <3>1, <3>2
    <2>9. AcceptedIsKept'
      <3>1. s \in HeldSequences' BY <2>2, <2>4 DEF HeldSequences
      <3>2. ASSUME NEW t \in HeldSequences PROVE t \in HeldSequences'
        <4>1. PICK i \in Slots : have[i] /\ t = held[i] BY DEF HeldSequences
        <4>2. have'[i] /\ held'[i] = t BY <4>1, <2>3, <2>4
        <4> QED BY <4>2 DEF HeldSequences
      <3> QED BY <3>1, <3>2, <2>1 DEF AcceptedIsKept
    <2> QED BY <2>5, <2>6, <2>7, <2>8, <2>9
  <1> QED BY <1>1, <1>2

LEMMA DrainNextKeeps ==
    ASSUME PublisherInv, DrainNext
    PROVE  PublisherInv'
PROOF
  <1> USE DEF PublisherInv
  <1> DEFINE k == SlotOf(next)
  <1>1. held[k] = next /\ next \in Sequences BY NextInItsSlot DEF DrainNext
  <1>2. /\ Accept(next) /\ have' = [have EXCEPT ![k] = FALSE] /\ next' = next + 1
        /\ UNCHANGED <<held, draining, current, accepted>>
    BY <1>1 DEF DrainNext
  <1>3. CrossesInSequence' /\ queue' \in Seq(Sequences) /\ taken' \in Seq(Sequences)
    BY <1>1, <1>2, PushCrosses
  <1>4. next \in Nat /\ next >= First BY DEF PublisherTypes
  <1> HIDE DEF k
  <1>5. \A i \in Slots : have'[i] <=> i # k /\ have[i]
    BY <1>2 DEF PublisherTypes
  <1>6. PublisherTypes'
    <2>1. have' \in [Slots -> BOOLEAN] BY <1>2 DEF PublisherTypes
    <2>2. next' \in Nat /\ next' >= First BY <1>2, <1>4, NatConstants, SMT
    <2> QED BY <1>2, <1>3, <2>1, <2>2 DEF PublisherTypes
  <1>7. HeldIsOffered' BY <1>2, <1>5 DEF HeldIsOffered
  <1>8. DrainFollowsPush'
    <2>1. current < next => current < next + 1 BY <1>4, SMT DEF PublisherTypes
    <2> QED BY <2>1, <1>2 DEF DrainFollowsPush
  <1>9. WindowHolds'
    <2> SUFFICES ASSUME NEW i \in Slots, have'[i]
                 PROVE  /\ SlotOf(held'[i]) = i
                        /\ held'[i] >= next' /\ held'[i] < next' + Pending
      BY DEF WindowHolds
    <2>1. have[i] /\ held'[i] = held[i] /\ i # SlotOf(next) BY <1>2, <1>5 DEF k
    <2> QED BY <2>1, <1>2, WindowMoves DEF WindowHolds
  <1>10. AcceptedIsKept'
    <2> SUFFICES ASSUME NEW t \in accepted PROVE t < next + 1 \/ t \in HeldSequences'
      BY <1>2 DEF AcceptedIsKept
    <2>1. t \in Nat BY NatConstants DEF PublisherTypes
    <2>2. CASE t <= next BY <2>1, <2>2, <1>4, SMT
    <2>3. CASE ~(t <= next)
      <3>1. t \in HeldSequences BY <2>1, <2>3, <1>4, SMT DEF AcceptedIsKept
      <3>2. PICK i \in Slots : have[i] /\ t = held[i] BY <3>1 DEF HeldSequences
      <3>3. i # k BY <2>1, <2>3, <3>2, <1>1, <1>4
      <3>4. have'[i] /\ held'[i] = t BY <3>2, <3>3, <1>2, <1>5
      <3> QED BY <3>4 DEF HeldSequences
    <2> QED BY <2>2, <2>3
  <1> QED BY <1>3, <1>6, <1>7, <1>8, <1>9, <1>10

LEMMA DrainEndsKeeps ==
    ASSUME PublisherInv, DrainStalls \/ DrainDone
    PROVE  PublisherInv'
PROOF
  <1>1. draining /\ UNCHANGED <<fifoVars, windowVars, current>>
        /\ (Returns(current, FALSE) \/ Returns(current, TRUE))
    BY DEF DrainStalls, DrainDone
  <1>2. current \in Sequences /\ current < next /\ current' \in Nat
    BY <1>1 DEF PublisherInv, DrainFollowsPush, PublisherTypes
  <1> QED BY <1>1, <1>2, AnswerKeeps

LEMMA ConsumeKeeps ==
    ASSUME PublisherInv, Consume
    PROVE  PublisherInv'
PROOF
  <1> USE DEF PublisherInv
  <1>1. PICK n \in 1 .. Len(queue) : Take(n) BY DEF Consume
  <1>2. /\ taken' \in Seq(Sequences) /\ queue' \in Seq(Sequences)
        /\ taken' \o queue' = taken \o queue
    <2>1. queue \in Seq(Sequences) /\ taken \in Seq(Sequences) BY DEF PublisherTypes
    <2>2. /\ taken \o SubSeq(queue, 1, n) \in Seq(Sequences)
          /\ SubSeq(queue, n + 1, Len(queue)) \in Seq(Sequences)
          /\ (taken \o SubSeq(queue, 1, n)) \o SubSeq(queue, n + 1, Len(queue))
             = taken \o queue
      BY <2>1, PopKeepsCrossed, ZenonT(30)
    <2>3. /\ taken' = taken \o SubSeq(queue, 1, n)
          /\ queue' = SubSeq(queue, n + 1, Len(queue))
      BY <1>1 DEF Take
    <2> QED BY <2>2, <2>3
  <1>3. UNCHANGED <<next, have, held, draining, current, accepted>>
    BY DEF Consume, windowVars
  <1>4. PublisherTypes' BY <1>2, <1>3 DEF PublisherTypes
  <1>5. HeldIsOffered' /\ DrainFollowsPush' BY <1>3 DEF HeldIsOffered, DrainFollowsPush
  <1>6. CrossesInSequence' BY <1>2, <1>3 DEF CrossesInSequence, Crossed
  <1>7. WindowHolds' /\ AcceptedIsKept'
    BY <1>3 DEF WindowHolds, AcceptedIsKept, HeldSequences
  <1> QED BY <1>4, <1>5, <1>6, <1>7

LEMMA PublisherStep ==
    ASSUME ~ReoffersStalled
    PROVE  PublisherInv /\ [Next]_pubVars => PublisherInv'
PROOF
  <1> SUFFICES ASSUME PublisherInv, [Next]_pubVars PROVE PublisherInv' OBVIOUS
  <1>1. ASSUME NEW s \in Sequences, Offer(s) PROVE PublisherInv'
    BY <1>1, OfferPublishedKeeps, OfferOversizedKeeps, OfferInOrderKeeps,
       OfferEarlyKeeps DEF Offer
  <1>2. CASE Drain BY <1>2, DrainNextKeeps, DrainEndsKeeps DEF Drain
  <1>3. CASE Consume BY <1>3, ConsumeKeeps
  <1>4. CASE UNCHANGED pubVars
    <2> USE <1>4 DEF PublisherInv, pubVars, fifoVars, windowVars
    <2>1. PublisherTypes' BY DEF PublisherTypes
    <2>2. HeldIsOffered' /\ DrainFollowsPush' BY DEF HeldIsOffered, DrainFollowsPush
    <2>3. CrossesInSequence' BY DEF CrossesInSequence, Crossed
    <2>4. WindowHolds' /\ AcceptedIsKept'
      BY DEF WindowHolds, AcceptedIsKept, HeldSequences
    <2> QED BY <2>1, <2>2, <2>3, <2>4
  <1> QED BY <1>1, <1>2, <1>3, <1>4 DEF Next

LEMMA PublisherAlways == ~ReoffersStalled => (Spec => []PublisherInv)
PROOF
  <1> SUFFICES ASSUME ~ReoffersStalled PROVE Spec => []PublisherInv OBVIOUS
  <1>1. PublisherInv /\ [Next]_pubVars => PublisherInv' BY PublisherStep
  <1> QED BY <1>1, InitPublisher, PTL DEF Spec

-----------------------------------------------------------------------------
(* What the invariant says.                                                  *)

\* What the consumer pops is First, First + 1, ... with nothing skipped, repeated
\* or out of order, whatever the order of the offers, the room in the ring and
\* the size of the window (concurrent/publisher.hpp).
THEOREM PublisherCrossesInSequence == ~ReoffersStalled => (Spec => []CrossesInSequence)
PROOF
  <1> SUFFICES ASSUME ~ReoffersStalled PROVE Spec => []CrossesInSequence OBVIOUS
  <1>1. PublisherInv => CrossesInSequence BY DEF PublisherInv
  <1> QED BY <1>1, PublisherAlways, PTL

\* The assertion of drain_pending, for every slot and at every moment.
THEOREM PublisherWindowHolds == ~ReoffersStalled => (Spec => []WindowHolds)
PROOF
  <1> SUFFICES ASSUME ~ReoffersStalled PROVE Spec => []WindowHolds OBVIOUS
  <1>1. PublisherInv => WindowHolds BY DEF PublisherInv
  <1> QED BY <1>1, PublisherAlways, PTL

\* A message whose offer returned true has crossed or is held for crossing.
THEOREM PublisherAcceptedIsKept == ~ReoffersStalled => (Spec => []AcceptedIsKept)
PROOF
  <1> SUFFICES ASSUME ~ReoffersStalled PROVE Spec => []AcceptedIsKept OBVIOUS
  <1>1. PublisherInv => AcceptedIsKept BY DEF PublisherInv
  <1> QED BY <1>1, PublisherAlways, PTL

\* The publisher drives the ring by its interface alone: every step of it is an
\* accept, a take, or nothing the ring sees.
THEOREM PublisherDrivesFifo == ~ReoffersStalled => (Spec => FifoSpec)
PROOF
  <1> SUFFICES ASSUME ~ReoffersStalled PROVE Spec => FifoSpec OBVIOUS
  <1>1. Init => FifoInit BY DEF Init
  <1>2. ASSUME PublisherInv, [Next]_pubVars PROVE [FifoNext]_fifoVars
    <2>1. ASSUME NEW s \in Sequences, Offer(s) PROVE [FifoNext]_fifoVars
      BY <2>1, PublisherAssumption DEF Offer, OfferPublished, OfferOversized,
         OfferInOrder, OfferEarly, FifoNext
    <2>2. CASE DrainNext
      BY <1>2, <2>2, NextInItsSlot, PublisherAssumption DEF DrainNext, FifoNext
    <2>3. CASE DrainStalls \/ DrainDone BY <2>3 DEF DrainStalls, DrainDone
    <2>4. CASE Consume BY <2>4 DEF Consume, FifoNext
    <2>5. CASE UNCHANGED pubVars BY <2>5 DEF pubVars
    <2> QED BY <1>2, <2>1, <2>2, <2>3, <2>4, <2>5 DEF Next, Drain
  <1> QED BY <1>1, <1>2, PublisherAlways, PTL DEF Spec, FifoSpec
=============================================================================
