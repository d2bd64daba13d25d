---------------------------- MODULE Books_proofs ----------------------------
(* Proofs about Books, for every depth and capacity, every hash factor and    *)
(* all prices, sizes, references and numbers of messages.                     *)
EXTENDS Books, SequenceLemmas, FiniteSetTheorems

-----------------------------------------------------------------------------
(* Probing: from any reference the probes visit every slot once.             *)

\* The remainder is the only number of the right size that a quotient leaves.
LEMMA RemainderIsUnique ==
    ASSUME NEW q \in Int, NEW b \in Slots
    PROVE  (Capacity * q + b) % Capacity = b
PROOF
  <1> DEFINE x == Capacity * q + b
             p == x \div Capacity
             r == x % Capacity
  <1>0. Capacity \in Nat \ {0} /\ b \in Nat /\ b < Capacity
        BY TableAssumption, SMT DEF Slots
  <1>1. /\ x = Capacity * p + r /\ p \in Int /\ r \in Int /\ 0 <= r /\ r < Capacity
        BY <1>0, SMT
  <1>2. x = Capacity * q + b OBVIOUS
  <1> HIDE DEF x, p, r
  <1>3. Capacity * (q - p) = r - b
    <2>1. Capacity * (q - p) = Capacity * q - Capacity * p BY <1>0, <1>1, SMT
    <2> QED BY <1>0, <1>1, <1>2, <2>1, SMT
  <1>4. q - p < 1
    <2> SUFFICES ASSUME q - p >= 1 PROVE FALSE BY <1>1, SMT
    <2>1. Capacity * (q - p) = Capacity + Capacity * (q - p - 1) BY <1>0, <1>1, SMT
    <2>2. Capacity * (q - p - 1) >= 0 BY <1>0, <1>1, SMT
    <2> QED BY <1>0, <1>1, <1>3, <2>1, <2>2, SMT
  <1>5. q - p > -1
    <2> SUFFICES ASSUME p - q >= 1 PROVE FALSE BY <1>1, SMT
    <2>1. Capacity * (p - q) = Capacity + Capacity * (p - q - 1) BY <1>0, <1>1, SMT
    <2>2. Capacity * (p - q - 1) >= 0 BY <1>0, <1>1, SMT
    <2>3. Capacity * (p - q) = -(Capacity * (q - p)) BY <1>0, <1>1, SMT
    <2> QED BY <1>0, <1>1, <1>3, <2>1, <2>2, <2>3, SMT
  <1>6. q = p BY <1>1, <1>4, <1>5, SMT
  <1>7. r = b BY <1>0, <1>1, <1>2, <1>6, SMT
  <1> QED BY <1>7 DEF x, r

LEMMA ProbeIsASlot ==
    ASSUME NEW r \in Nat, NEW d \in Slots
    PROVE  Probe(r, d) \in Slots
PROOF
  <1>1. r * Multiplier \in Int BY TableAssumption, SMT DEF Slots
  <1> DEFINE home == r * Multiplier
  <1> HIDE DEF home
  <1>2. (home + d) % Capacity \in Slots BY <1>1, TableAssumption, SMT DEF Slots, home
  <1> QED BY <1>2 DEF Probe, home

LEMMA ProbesReach ==
    ASSUME NEW r \in Nat, NEW s \in Slots
    PROVE  \E d \in Slots : Probe(r, d) = s
PROOF
  <1> DEFINE home == r * Multiplier
             d == (s - home) % Capacity
             q == (s - home) \div Capacity
  <1>0. Capacity \in Nat \ {0} /\ home \in Int /\ s \in Int
        BY TableAssumption, SMT DEF Slots
  <1>1. home = r * Multiplier OBVIOUS
  <1> HIDE DEF home
  <1>2. s - home = Capacity * q + d /\ q \in Int /\ d \in Slots BY <1>0, SMT DEF Slots
  <1> HIDE DEF d, q
  <1>3. home + d = Capacity * (-q) + s
    <2>1. Capacity * (-q) = -(Capacity * q) /\ Capacity * q \in Int BY <1>0, <1>2, SMT
    <2>2. d \in Int BY <1>0, <1>2, SMT DEF Slots
    <2> QED BY <1>0, <1>2, <2>1, <2>2, SMT
  <1>4. -q \in Int BY <1>2, SMT
  <1>5. (Capacity * (-q) + s) % Capacity = s BY <1>4, RemainderIsUnique
  <1>6. Probe(r, d) = s BY <1>1, <1>3, <1>5 DEF Probe
  <1> QED BY <1>2, <1>6

LEMMA ProbesDiffer ==
    ASSUME NEW r \in Nat, NEW d \in Slots, NEW e \in Slots, Probe(r, d) = Probe(r, e)
    PROVE  d = e
PROOF
  <1> DEFINE home == r * Multiplier
             b == (home + d) % Capacity
             q == (home + d) \div Capacity
             p == (home + e) \div Capacity
  <1>0. /\ Capacity \in Nat \ {0} /\ home \in Int
        /\ d \in Int /\ 0 <= d /\ d < Capacity /\ e \in Int /\ 0 <= e /\ e < Capacity
        BY TableAssumption, SMT DEF Slots
  <1>1. (home + e) % Capacity = b BY DEF Probe
  <1> HIDE DEF home
  <1>2. /\ home + d = Capacity * q + b /\ q \in Int /\ b \in Int
        /\ home + e = Capacity * p + b /\ p \in Int
        BY <1>0, <1>1, SMT
  <1> HIDE DEF b, q, p
  <1>3. Capacity * (q - p) = d - e
    <2>1. Capacity * (q - p) = Capacity * q - Capacity * p BY <1>0, <1>2, SMT
    <2> QED BY <1>0, <1>2, <2>1, SMT
  <1>4. q - p < 1
    <2> SUFFICES ASSUME q - p >= 1 PROVE FALSE BY <1>2, SMT
    <2>1. Capacity * (q - p) = Capacity + Capacity * (q - p - 1) BY <1>0, <1>2, SMT
    <2>2. Capacity * (q - p - 1) >= 0 BY <1>0, <1>2, SMT
    <2> QED BY <1>0, <1>2, <1>3, <2>1, <2>2, SMT
  <1>5. q - p > -1
    <2> SUFFICES ASSUME p - q >= 1 PROVE FALSE BY <1>2, SMT
    <2>1. Capacity * (p - q) = Capacity + Capacity * (p - q - 1) BY <1>0, <1>2, SMT
    <2>2. Capacity * (p - q - 1) >= 0 BY <1>0, <1>2, SMT
    <2>3. Capacity * (p - q) = -(Capacity * (q - p)) BY <1>0, <1>2, SMT
    <2> QED BY <1>0, <1>2, <1>3, <2>1, <2>2, <2>3, SMT
  <1>6. q = p BY <1>2, <1>4, <1>5, SMT
  <1> QED BY <1>0, <1>2, <1>6, SMT

-----------------------------------------------------------------------------
(* What the table keeps.                                                     *)

Orders == [reference : References, shares : Nat, price : References, buy : BOOLEAN]

Cells == {Unused, Tombstone} \cup {Holding(order) : order \in Orders}

IsLive(t, s) == t[s].state = "live"

\* No live order has an empty slot between its home and its own.
Chained(t) ==
    \A s, d, e \in Slots :
        (IsLive(t, s) /\ Probe(t[s].order.reference, d) = s /\ e < d)
            => t[Probe(t[s].order.reference, e)].state # "empty"

\* No reference is live twice.
Single(t) ==
    \A s, z \in Slots :
        (IsLive(t, s) /\ IsLive(t, z) /\ t[s].order.reference = t[z].order.reference)
            => s = z

TableOk(t) == t \in [Slots -> Cells] /\ Chained(t) /\ Single(t)

\* The live slots hold the orders of the map, and no other.
Agrees(t, m) ==
    /\ DOMAIN m \subseteq References /\ m \in [DOMAIN m -> Orders]
    /\ \A s \in Slots :
          IsLive(t, s) => /\ t[s].order.reference \in DOMAIN m
                          /\ m[t[s].order.reference] = t[s].order
    /\ \A r \in DOMAIN m :
          \E s \in Slots : IsLive(t, s) /\ t[s].order.reference = r

TableInv ==
    feed \in {"deep", "itch"} /\ TableOk(table) /\ Agrees(table, orders)
        /\ answer[1] = answer[2]

LEMMA CellKinds ==
    ASSUME NEW c \in Cells
    PROVE  /\ c.state \in {"empty", "tombstone", "live"}
           /\ c.state = "live" => c.order \in Orders /\ c = Holding(c.order)
PROOF
  <1>1. CASE c \in {Unused, Tombstone} BY <1>1 DEF Unused, Tombstone
  <1>2. CASE \E order \in Orders : c = Holding(order)
    <2>1. PICK order \in Orders : c = Holding(order) BY <1>2
    <2>2. c.state = "live" /\ c.order = order BY <2>1 DEF Holding
    <2> QED BY <2>1, <2>2
  <1> QED BY <1>1, <1>2 DEF Cells

LEMMA Kinds ==
    /\ Unused \in Cells /\ Tombstone \in Cells
    /\ Unused.state = "empty" /\ Tombstone.state = "tombstone"
    /\ \A order \in Orders : /\ Holding(order) \in Cells
                             /\ Holding(order).state = "live"
                             /\ Holding(order).order = order
PROOF
  <1>1. Unused \in Cells /\ Tombstone \in Cells BY DEF Cells
  <1>2. Unused.state = "empty" /\ Tombstone.state = "tombstone" BY DEF Unused, Tombstone
  <1>3. ASSUME NEW order \in Orders
        PROVE  /\ Holding(order) \in Cells /\ Holding(order).state = "live"
               /\ Holding(order).order = order
    <2>1. Holding(order) \in Cells BY DEF Cells
    <2>2. Holding(order).state = "live" /\ Holding(order).order = order BY DEF Holding
    <2> QED BY <2>1, <2>2
  <1> QED BY <1>1, <1>2, <1>3

LEMMA LeastSlot ==
    ASSUME NEW T \in SUBSET Slots, T # {}
    PROVE  Min(T) \in T /\ \A k \in T : Min(T) <= k
PROOF
  <1>1. T \in SUBSET Nat BY TableAssumption, SMT DEF Slots
  <1>2. \E x \in T : \A y \in T : x <= y BY <1>1, LeastNumber
  <1> QED BY <1>2, Zenon DEF Min

LEMMA SlotsAreNumbers ==
    /\ \A s \in Slots : s \in Nat /\ s # Capacity
    /\ Capacity \in Nat /\ Capacity \notin Slots
PROOF BY TableAssumption, SMT DEF Slots

\* A live order is found where it is.
LEMMA FindsTheLive ==
    ASSUME NEW t, TableOk(t), NEW s \in Slots, IsLive(t, s),
           t[s].order.reference \in Nat
    PROVE  /\ FindIndex(t, t[s].order.reference) = s
           /\ Has(t, t[s].order.reference)
           /\ Find(t, t[s].order.reference) = t[s].order
PROOF
  <1> DEFINE r == t[s].order.reference
             holds(slot) == slot.state = "live" /\ slot.order.reference = r
             stops == {d \in Slots : t[Probe(r, d)].state = "empty" \/ holds(t[Probe(r, d)])}
             least == Min(stops)
  <1>1. PICK d \in Slots : Probe(r, d) = s BY ProbesReach
  <1>2. holds(t[Probe(r, d)]) BY <1>1 DEF IsLive
  <1>3. d \in stops BY <1>2
  <1>4. least \in stops /\ least <= d BY <1>3, LeastSlot
  <1>5. least \in Slots /\ Probe(r, least) \in Slots BY <1>4, ProbeIsASlot
  <1>6. t[Probe(r, least)].state # "empty"
    <2>1. CASE least < d
      <3>1. \A e \in Slots : e < d => t[Probe(r, e)].state # "empty"
            BY <1>1 DEF TableOk, Chained
      <3> QED BY <2>1, <3>1, <1>5
    <2>2. CASE ~(least < d)
      <3>2. t[Probe(r, d)].state = "live" BY <1>2
      <3> HIDE DEF least
      <3>1. least = d BY <2>2, <1>4, <1>5, SlotsAreNumbers, SMT
      <3> QED BY <3>1, <3>2
    <2> QED BY <2>1, <2>2
  <1>7. holds(t[Probe(r, least)]) BY <1>4, <1>6
  <1>8. Probe(r, least) = s BY <1>5, <1>7 DEF TableOk, Single, IsLive
  <1>9. FindIndex(t, r) = s
    <2>1. FindIndex(t, r) =
            IF stops = {} THEN Capacity
            ELSE IF holds(t[Probe(r, least)]) THEN Probe(r, least) ELSE Capacity
          BY Zenon DEF FindIndex
    <2>2. stops # {} BY <1>3
    <2> HIDE DEF stops, least, holds
    <2> QED BY <2>1, <2>2, <1>7, <1>8
  <1> QED BY <1>9, SlotsAreNumbers DEF Has, Find

\* What is not live is not found.
LEMMA FindsNothingElse ==
    ASSUME NEW t, NEW r \in Nat,
           \A s \in Slots : IsLive(t, s) => t[s].order.reference # r
    PROVE  FindIndex(t, r) = Capacity /\ ~Has(t, r)
PROOF
  <1> DEFINE holds(slot) == slot.state = "live" /\ slot.order.reference = r
             stops == {d \in Slots : t[Probe(r, d)].state = "empty" \/ holds(t[Probe(r, d)])}
             least == Min(stops)
  <1>1. FindIndex(t, r) =
            IF stops = {} THEN Capacity
            ELSE IF holds(t[Probe(r, least)]) THEN Probe(r, least) ELSE Capacity
        BY Zenon DEF FindIndex
  <1>2. stops # {} => least \in Slots
    <2>1. stops # {} => least \in stops BY LeastSlot
    <2> QED BY <2>1
  <1>3. stops # {} => ~holds(t[Probe(r, least)])
    <2>1. stops # {} => Probe(r, least) \in Slots BY <1>2, ProbeIsASlot
    <2> QED BY <2>1 DEF IsLive
  <1>4. FindIndex(t, r) = Capacity
    <2> HIDE DEF stops, least, holds
    <2> QED BY <1>1, <1>3
  <1> QED BY <1>4 DEF Has

\* insert() takes a slot that holds no order, on a chain with no gap before it;
\* it finds none only when every slot holds an order.
LEMMA SlotIsFree ==
    ASSUME NEW t \in [Slots -> Cells], NEW r \in Nat
    PROVE  \/ /\ SlotFor(t, r) = Capacity /\ \A s \in Slots : IsLive(t, s)
           \/ \E d \in Slots : /\ SlotFor(t, r) = Probe(r, d) /\ ~IsLive(t, Probe(r, d))
                               /\ \A e \in Slots : e < d => t[Probe(r, e)].state # "empty"
PROOF
  <1> DEFINE state(d) == t[Probe(r, d)].state
             empties == {d \in Slots : state(d) = "empty"}
             end == IF empties = {} THEN Capacity ELSE Min(empties)
             tombstones == {d \in Slots : d < end /\ state(d) = "tombstone"}
             distance == IF tombstones = {} THEN end ELSE Min(tombstones)
  <1>1. SlotFor(t, r) = IF distance = Capacity THEN Capacity ELSE Probe(r, distance)
        BY Zenon DEF SlotFor
  <1>2. empties # {} => Min(empties) \in empties /\ \A k \in empties : Min(empties) <= k
        BY LeastSlot
  <1>3. tombstones # {} => Min(tombstones) \in tombstones BY LeastSlot
  <1>4. end \in Nat /\ end <= Capacity
    <2>1. empties # {} => Min(empties) \in Slots BY <1>2
    <2> HIDE DEF empties
    <2> QED BY <2>1, TableAssumption, SMT DEF Slots
  <1>5. \A e \in Slots : e < end => state(e) # "empty"
    <2> SUFFICES ASSUME NEW e \in Slots, e < end, state(e) = "empty" PROVE FALSE OBVIOUS
    <2>1. e \in empties OBVIOUS
    <2>2. end \in Slots /\ end <= e BY <2>1, <1>2
    <2> HIDE DEF end
    <2> QED BY <2>2, SlotsAreNumbers, SMT
  <1>6. CASE tombstones # {}
    <2> DEFINE d == Min(tombstones)
    <2>1. d \in Slots /\ d < end /\ state(d) = "tombstone" BY <1>6, <1>3
    <2>2. distance = d BY <1>6
    <2> HIDE DEF d, distance
    <2>3. SlotFor(t, r) = Probe(r, d) BY <1>1, <2>1, <2>2, SlotsAreNumbers
    <2>4. \A e \in Slots : e < d => e < end
      <3> HIDE DEF end
      <3> QED BY <2>1, <1>4, SlotsAreNumbers, SMT
    <2> QED BY <2>1, <2>3, <2>4, <1>5 DEF IsLive
  <1>7. CASE tombstones = {} /\ empties # {}
    <2>1. end \in Slots /\ state(end) = "empty" BY <1>7, <1>2
    <2>2. distance = end BY <1>7
    <2> HIDE DEF distance
    <2>3. SlotFor(t, r) = Probe(r, end) BY <1>1, <2>1, <2>2, SlotsAreNumbers
    <2> QED BY <2>1, <2>3, <1>5 DEF IsLive
  <1>8. CASE tombstones = {} /\ empties = {}
    <2>1. distance = Capacity BY <1>8
    <2>2. SlotFor(t, r) = Capacity BY <1>1, <2>1
    <2>3. ASSUME NEW s \in Slots PROVE IsLive(t, s)
      <3>1. PICK d \in Slots : Probe(r, d) = s BY ProbesReach
      <3>2. t[s].state # "empty" BY <1>8, <3>1
      <3>3. d < Capacity BY TableAssumption, SMT DEF Slots
      <3>4. t[s].state # "tombstone" BY <1>8, <3>1, <3>3
      <3> QED BY <3>2, <3>4, CellKinds DEF IsLive
    <2> QED BY <2>2, <2>3
  <1> QED BY <1>6, <1>7, <1>8

-----------------------------------------------------------------------------
(* The table answers as the map does.                                        *)

LEMMA OrderTypes ==
    /\ \A r \in References : r \in Nat
    /\ \A order \in Orders :
          /\ order.reference \in References /\ order.reference \in Nat
          /\ order.shares \in Nat
          /\ order = [reference |-> order.reference, shares |-> order.shares,
                      price |-> order.price, buy |-> order.buy]
    /\ \A order \in Orders, n \in Nat :
          /\ [order EXCEPT !.shares = n] \in Orders
          /\ [order EXCEPT !.shares = n].reference = order.reference
          /\ [order EXCEPT !.shares = n].shares = n
PROOF BY BooksAssumption DEF Orders

LEMMA LooksUpTheMap ==
    ASSUME NEW t, NEW m, TableOk(t), Agrees(t, m), NEW r \in References
    PROVE  /\ Has(t, r) <=> r \in DOMAIN m
           /\ r \in DOMAIN m =>
                 /\ FindIndex(t, r) \in Slots /\ IsLive(t, FindIndex(t, r))
                 /\ t[FindIndex(t, r)].order = m[r] /\ Find(t, r) = m[r]
                 /\ m[r] \in Orders /\ m[r].reference = r
PROOF
  <1>0. r \in Nat BY OrderTypes
  <1>1. CASE r \in DOMAIN m
    <2>1. PICK s \in Slots : IsLive(t, s) /\ t[s].order.reference = r
          BY <1>1 DEF Agrees
    <2>2. FindIndex(t, r) = s /\ Has(t, r) /\ Find(t, r) = t[s].order
          BY <1>0, <2>1, FindsTheLive
    <2>3. m[r] = t[s].order /\ m[r] \in Orders BY <1>1, <2>1 DEF Agrees
    <2> QED BY <1>1, <2>1, <2>2, <2>3
  <1>2. CASE r \notin DOMAIN m
    <2>1. \A s \in Slots : IsLive(t, s) => t[s].order.reference # r BY <1>2 DEF Agrees
    <2> QED BY <1>0, <1>2, <2>1, FindsNothingElse
  <1> QED BY <1>1, <1>2

\* A live order is in Orders, and its cell holds it.
LEMMA LiveOrders ==
    ASSUME NEW t \in [Slots -> Cells], NEW s \in Slots, IsLive(t, s)
    PROVE  /\ t[s] = Holding(t[s].order) /\ t[s].order \in Orders
           /\ t[s].order.reference \in References /\ t[s].order.reference \in Nat
PROOF BY CellKinds, OrderTypes DEF IsLive

\* erase() takes the order out of the map and leaves a slot without one.
LEMMA ErasesTheOrder ==
    ASSUME NEW t, NEW m, TableOk(t), Agrees(t, m), NEW r \in DOMAIN m
    PROVE  /\ TableOk(Erase(t, r)) /\ Agrees(Erase(t, r), Without(m, r))
           /\ \E s \in Slots : ~IsLive(Erase(t, r), s)
PROOF
  <1> DEFINE at == FindIndex(t, r)
             u == Erase(t, r)
             n == Without(m, r)
  <1>1. r \in References BY DEF Agrees
  <1>2. at \in Slots /\ IsLive(t, at) /\ t[at].order.reference = r
        BY <1>1, LooksUpTheMap
  <1>3. t \in [Slots -> Cells] BY DEF TableOk
  <1>4. u = [t EXCEPT ![at] = Tombstone] BY DEF Erase
  <1> HIDE DEF u, at
  <1>5. u \in [Slots -> Cells] /\ u[at].state = "tombstone" BY <1>3, <1>4, <1>2, Kinds
  <1>6. \A s \in Slots : s # at => u[s] = t[s] BY <1>3, <1>4
  <1>7. \A s \in Slots : IsLive(u, s) => s # at /\ IsLive(t, s) /\ u[s] = t[s]
        BY <1>5, <1>6 DEF IsLive
  <1>8. Chained(u)
    <2> SUFFICES ASSUME NEW s \in Slots, NEW d \in Slots, NEW e \in Slots, IsLive(u, s),
                        Probe(u[s].order.reference, d) = s, e < d
                 PROVE  u[Probe(u[s].order.reference, e)].state # "empty"
          BY DEF Chained
    <2> DEFINE k == Probe(u[s].order.reference, e)
    <2>1. k \in Slots BY <1>7, <1>3, LiveOrders, ProbeIsASlot
    <2>2. t[k].state # "empty" BY <1>7 DEF TableOk, Chained
    <2> QED BY <2>1, <2>2, <1>5, <1>6
  <1>9. Single(u) BY <1>7 DEF TableOk, Single
  <1>10. Agrees(u, n)
    <2>1. DOMAIN n = DOMAIN m \ {r} /\ \A q \in DOMAIN m \ {r} : n[q] = m[q] BY DEF Without
    <2>2. n \in [DOMAIN n -> Orders]
      <3>1. n = [q \in DOMAIN m \ {r} |-> m[q]] BY DEF Without
      <3>2. \A q \in DOMAIN m : m[q] \in Orders BY DEF Agrees
      <3> HIDE DEF n
      <3> QED BY <3>1, <3>2
    <2> HIDE DEF n
    <2>3. ASSUME NEW s \in Slots, IsLive(u, s)
          PROVE  u[s].order.reference \in DOMAIN n /\ n[u[s].order.reference] = u[s].order
      <3>1. s # at /\ IsLive(t, s) /\ u[s] = t[s] BY <1>7, <2>3
      <3>2. t[s].order.reference \in DOMAIN m /\ m[t[s].order.reference] = t[s].order
            BY <3>1 DEF Agrees
      <3>3. t[s].order.reference # r BY <3>1, <1>2 DEF TableOk, Single
      <3> QED BY <2>1, <3>1, <3>2, <3>3
    <2>4. ASSUME NEW q \in DOMAIN n
          PROVE  \E s \in Slots : IsLive(u, s) /\ u[s].order.reference = q
      <3>1. PICK s \in Slots : IsLive(t, s) /\ t[s].order.reference = q
            BY <2>1 DEF Agrees
      <3>2. s # at BY <2>1, <3>1, <1>2
      <3>3. u[s] = t[s] BY <3>2, <1>6
      <3> QED BY <3>1, <3>3 DEF IsLive
    <2>5. DOMAIN n \subseteq References BY <2>1 DEF Agrees
    <2> QED BY <2>2, <2>3, <2>4, <2>5 DEF Agrees
  <1>11. ~IsLive(u, at) BY <1>5 DEF IsLive
  <1> QED BY <1>2, <1>5, <1>8, <1>9, <1>10, <1>11 DEF TableOk, u

\* An order put in a free slot of its chain is put in the map.
LEMMA PlacesTheOrder ==
    ASSUME NEW t, NEW m, TableOk(t), Agrees(t, m),
           NEW order \in Orders, order.reference \notin DOMAIN m, NEW d \in Slots,
           ~IsLive(t, Probe(order.reference, d)),
           \A e \in Slots : e < d => t[Probe(order.reference, e)].state # "empty"
    PROVE  LET u == [t EXCEPT ![Probe(order.reference, d)] = Holding(order)]
           IN  TableOk(u) /\ Agrees(u, Put(m, order))
PROOF
  <1> DEFINE r == order.reference
             at == Probe(r, d)
             u == [t EXCEPT ![at] = Holding(order)]
             n == Put(m, order)
  <1>1. r \in References /\ r \in Nat BY OrderTypes
  <1>2. at \in Slots BY <1>1, ProbeIsASlot
  <1>3. t \in [Slots -> Cells] BY DEF TableOk
  <1>4. /\ Holding(order) \in Cells /\ Holding(order).state = "live"
        /\ Holding(order).order = order
        BY Kinds
  <1>5. /\ u \in [Slots -> Cells] /\ u[at] = Holding(order)
        /\ \A s \in Slots : s # at => u[s] = t[s]
        BY <1>2, <1>3, <1>4
  <1>a. at = Probe(r, d) /\ ~IsLive(t, at) OBVIOUS
  <1>b. \A e \in Slots : e < d => t[Probe(r, e)].state # "empty" OBVIOUS
  <1> HIDE DEF u, at
  <1>6. IsLive(u, at) /\ u[at].order = order BY <1>4, <1>5 DEF IsLive
  <1>7. \A s \in Slots : IsLive(u, s) /\ s # at => IsLive(t, s) /\ u[s] = t[s]
        BY <1>5 DEF IsLive
  <1>8. \A s \in Slots : t[s].state # "empty" => u[s].state # "empty"
        BY <1>4, <1>5
  <1>9. \A s \in Slots : IsLive(t, s) => t[s].order.reference # r BY DEF Agrees
  <1>10. Chained(u)
    <2> SUFFICES ASSUME NEW s \in Slots, NEW c \in Slots, NEW e \in Slots, IsLive(u, s),
                        Probe(u[s].order.reference, c) = s, e < c
                 PROVE  u[Probe(u[s].order.reference, e)].state # "empty"
          BY DEF Chained
    <2>1. CASE s = at
      <3>1. u[s].order.reference = r BY <2>1, <1>6
      <3>2. c = d BY <3>1, <2>1, <1>1, <1>a, ProbesDiffer
      <3>3. Probe(r, e) \in Slots BY <1>1, ProbeIsASlot
      <3>4. t[Probe(r, e)].state # "empty" BY <3>2, <1>b
      <3> QED BY <3>1, <3>3, <3>4, <1>8
    <2>2. CASE s # at
      <3>1. IsLive(t, s) /\ u[s] = t[s] BY <2>2, <1>7
      <3>2. Probe(t[s].order.reference, e) \in Slots
            BY <3>1, <1>3, LiveOrders, ProbeIsASlot
      <3>3. t[Probe(t[s].order.reference, e)].state # "empty"
            BY <3>1 DEF TableOk, Chained
      <3> QED BY <3>1, <3>2, <3>3, <1>8
    <2> QED BY <2>1, <2>2
  <1>11. Single(u)
    <2> SUFFICES ASSUME NEW s \in Slots, NEW z \in Slots, IsLive(u, s), IsLive(u, z),
                        u[s].order.reference = u[z].order.reference
                 PROVE  s = z
          BY DEF Single
    <2>1. CASE s = at
      <3>1. u[z].order.reference = r BY <2>1, <1>6
      <3> QED BY <2>1, <3>1, <1>7, <1>9
    <2>2. CASE z = at
      <3>1. u[s].order.reference = r BY <2>2, <1>6
      <3> QED BY <2>2, <3>1, <1>7, <1>9
    <2>3. CASE s # at /\ z # at BY <2>3, <1>7 DEF TableOk, Single
    <2> QED BY <2>1, <2>2, <2>3
  <1>12. Agrees(u, n)
    <2>0. n = [q \in DOMAIN m \cup {r} |-> IF q = r THEN order ELSE m[q]]
          BY DEF Put
    <2> HIDE DEF n
    <2>1. /\ DOMAIN n = DOMAIN m \cup {r} /\ n[r] = order
          /\ \A q \in DOMAIN m : n[q] = m[q]
          BY <2>0
    <2>2. n \in [DOMAIN n -> Orders]
      <3>1. \A q \in DOMAIN m : m[q] \in Orders BY DEF Agrees
      <3> QED BY <2>0, <3>1
    <2>3. ASSUME NEW s \in Slots, IsLive(u, s)
          PROVE  u[s].order.reference \in DOMAIN n /\ n[u[s].order.reference] = u[s].order
      <3>1. CASE s = at BY <3>1, <2>1, <1>6
      <3>2. CASE s # at
        <4>1. IsLive(t, s) /\ u[s] = t[s] BY <1>7, <2>3, <3>2
        <4>2. t[s].order.reference \in DOMAIN m /\ m[t[s].order.reference] = t[s].order
              BY <4>1 DEF Agrees
        <4> QED BY <2>1, <4>1, <4>2
      <3> QED BY <3>1, <3>2
    <2>4. ASSUME NEW q \in DOMAIN n
          PROVE  \E s \in Slots : IsLive(u, s) /\ u[s].order.reference = q
      <3>1. CASE q = r BY <3>1, <1>2, <1>6
      <3>2. CASE q # r
        <4>1. PICK s \in Slots : IsLive(t, s) /\ t[s].order.reference = q
              BY <2>1, <3>2 DEF Agrees
        <4>2. s # at BY <4>1, <1>a
        <4>3. u[s] = t[s] BY <4>2, <1>5
        <4> QED BY <4>1, <4>3 DEF IsLive
      <3> QED BY <3>1, <3>2
    <2>5. DOMAIN n \subseteq References BY <2>1, <1>1 DEF Agrees
    <2> QED BY <2>2, <2>3, <2>4, <2>5 DEF Agrees
  <1> QED BY <1>5, <1>10, <1>11, <1>12 DEF TableOk, u, at

\* Fewer shares in the order's own slot are fewer shares in the map.
LEMMA ChangesTheOrder ==
    ASSUME NEW t, NEW m, TableOk(t), Agrees(t, m), NEW r \in DOMAIN m, NEW k \in Nat
    PROVE  LET u == [t EXCEPT ![FindIndex(t, r)] = Holding([m[r] EXCEPT !.shares = k])]
               n == [m EXCEPT ![r].shares = k]
           IN  TableOk(u) /\ Agrees(u, n)
PROOF
  <1> DEFINE at == FindIndex(t, r)
             order == [m[r] EXCEPT !.shares = k]
             u == [t EXCEPT ![at] = Holding(order)]
             n == [m EXCEPT ![r].shares = k]
  <1>1. r \in References BY DEF Agrees
  <1>2. /\ at \in Slots /\ IsLive(t, at) /\ t[at].order = m[r]
        /\ m[r] \in Orders /\ m[r].reference = r
        BY <1>1, LooksUpTheMap
  <1>3. t \in [Slots -> Cells] BY DEF TableOk
  <1>4. order \in Orders /\ order.reference = r BY <1>2, OrderTypes
  <1>5. n = [m EXCEPT ![r] = order] OBVIOUS
  <1> HIDE DEF order, at
  <1>6. /\ Holding(order) \in Cells /\ Holding(order).state = "live"
        /\ Holding(order).order = order
        BY <1>4, Kinds
  <1>7. /\ u \in [Slots -> Cells] /\ u[at] = Holding(order)
        /\ \A s \in Slots : s # at => u[s] = t[s]
        BY <1>2, <1>3, <1>6
  <1> HIDE DEF u, n
  <1>8. IsLive(u, at) /\ u[at].order = order BY <1>6, <1>7 DEF IsLive
  <1>9. \A s \in Slots : /\ IsLive(u, s) <=> IsLive(t, s)
                         /\ IsLive(t, s) => u[s].order.reference = t[s].order.reference
                         /\ t[s].state # "empty" => u[s].state # "empty"
        BY <1>2, <1>4, <1>6, <1>7, <1>8 DEF IsLive
  <1>10. Chained(u)
    <2> SUFFICES ASSUME NEW s \in Slots, NEW c \in Slots, NEW e \in Slots, IsLive(u, s),
                        Probe(u[s].order.reference, c) = s, e < c
                 PROVE  u[Probe(u[s].order.reference, e)].state # "empty"
          BY DEF Chained
    <2>1. IsLive(t, s) /\ u[s].order.reference = t[s].order.reference BY <1>9
    <2>2. Probe(t[s].order.reference, e) \in Slots
          BY <2>1, <1>3, LiveOrders, ProbeIsASlot
    <2>3. t[Probe(t[s].order.reference, e)].state # "empty"
          BY <2>1 DEF TableOk, Chained
    <2> QED BY <2>1, <2>2, <2>3, <1>9
  <1>11. Single(u) BY <1>9 DEF TableOk, Single
  <1>12. Agrees(u, n)
    <2>1. m \in [DOMAIN m -> Orders] /\ DOMAIN m \subseteq References BY DEF Agrees
    <2>2. /\ n \in [DOMAIN n -> Orders] /\ DOMAIN n = DOMAIN m /\ n[r] = order
          /\ \A q \in DOMAIN m : q # r => n[q] = m[q]
          BY <2>1, <1>4, <1>5
    <2>3. ASSUME NEW s \in Slots, IsLive(u, s)
          PROVE  u[s].order.reference \in DOMAIN n /\ n[u[s].order.reference] = u[s].order
      <3>1. CASE s = at BY <3>1, <2>2, <1>4, <1>8
      <3>2. CASE s # at
        <4>1. IsLive(t, s) /\ u[s] = t[s] BY <1>7, <1>9, <2>3, <3>2
        <4>2. t[s].order.reference \in DOMAIN m /\ m[t[s].order.reference] = t[s].order
              BY <4>1 DEF Agrees
        <4>3. t[s].order.reference # r
              BY <3>2, <4>1, <1>2 DEF TableOk, Single
        <4> QED BY <2>2, <4>1, <4>2, <4>3
      <3> QED BY <3>1, <3>2
    <2>4. ASSUME NEW q \in DOMAIN n
          PROVE  \E s \in Slots : IsLive(u, s) /\ u[s].order.reference = q
      <3>1. PICK s \in Slots : IsLive(t, s) /\ t[s].order.reference = q
            BY <2>2 DEF Agrees
      <3> QED BY <3>1, <1>9
    <2> QED BY <2>1, <2>2, <2>3, <2>4 DEF Agrees
  <1> QED BY <1>7, <1>10, <1>11, <1>12 DEF TableOk, u, n, at, order

\* The table is full exactly when the map has Capacity orders.
LEMMA FullTogether ==
    ASSUME NEW t, NEW m, TableOk(t), Agrees(t, m)
    PROVE  (\A s \in Slots : IsLive(t, s)) <=> Cardinality(DOMAIN m) = Capacity
PROOF
  <1> DEFINE at == [r \in DOMAIN m |-> FindIndex(t, r)]
  <1>1. IsFiniteSet(Slots) /\ Cardinality(Slots) = Capacity
    <2>1. 0 \in Int /\ Capacity - 1 \in Int BY TableAssumption, SMT
    <2>2. /\ IsFiniteSet(0 .. Capacity - 1)
          /\ Cardinality(0 .. Capacity - 1)
                = IF 0 > Capacity - 1 THEN 0 ELSE Capacity - 1 - 0 + 1
          BY <2>1, FS_Interval
    <2> QED BY <2>2, TableAssumption, SMT DEF Slots
  <1>2. \A r \in DOMAIN m : /\ at[r] \in Slots /\ IsLive(t, at[r])
                            /\ t[at[r]].order = m[r] /\ m[r].reference = r
    <2>1. DOMAIN m \subseteq References BY DEF Agrees
    <2> QED BY <2>1, LooksUpTheMap
  <1>3. at \in Injection(DOMAIN m, Slots)
    <2>1. at \in [DOMAIN m -> Slots] BY <1>2
    <2>2. \A q, r \in DOMAIN m : at[q] = at[r] => q = r
      <3> HIDE DEF at
      <3> QED BY <1>2
    <2> HIDE DEF at
    <2> QED BY <2>1, <2>2 DEF Injection, IsInjective
  <1>4. Cardinality(DOMAIN m) = Cardinality(Slots) <=> at \in Surjection(DOMAIN m, Slots)
        BY <1>1, <1>3, FS_Injection
  <1>5. at \in Surjection(DOMAIN m, Slots) <=>
           \A s \in Slots : \E r \in DOMAIN m : at[r] = s
    <2>1. at \in [DOMAIN m -> Slots] BY <1>2
    <2> HIDE DEF at
    <2> QED BY <2>1 DEF Surjection
  <1>6. ASSUME NEW s \in Slots
        PROVE  IsLive(t, s) <=> \E r \in DOMAIN m : at[r] = s
    <2>1. IsLive(t, s) => t[s].order.reference \in DOMAIN m BY DEF Agrees
    <2>2. IsLive(t, s) => at[t[s].order.reference] = s
      <3> SUFFICES ASSUME IsLive(t, s) PROVE at[t[s].order.reference] = s OBVIOUS
      <3> DEFINE z == at[t[s].order.reference]
      <3>1. z \in Slots /\ IsLive(t, z) /\ t[z].order.reference = t[s].order.reference
            BY <1>2, <2>1
      <3> HIDE DEF z
      <3>2. z = s BY <3>1 DEF TableOk, Single
      <3> QED BY <3>2 DEF z
    <2> HIDE DEF at
    <2> QED BY <2>1, <2>2, <1>2
  <1> HIDE DEF at
  <1> QED BY <1>1, <1>4, <1>5, <1>6

\* What a message makes of the table is what it makes of the map.
Together(result, reference) ==
    /\ TableOk(result.table) /\ Agrees(result.table, reference.orders)
    /\ result.answer = reference.answer

LEMMA ToldFields ==
    /\ \A t, a : Told(t, a).table = t /\ Told(t, a).answer = a
    /\ \A m, a : MapAnswer(m, a).orders = m /\ MapAnswer(m, a).answer = a
PROOF BY DEF Told, MapAnswer

LEMMA InsertsTogether ==
    ASSUME NEW t, NEW m, TableOk(t), Agrees(t, m),
           NEW order \in Orders, order.reference \notin DOMAIN m
    PROVE  Together(Insert(t, order),
                    IF Cardinality(DOMAIN m) = Capacity
                    THEN MapAnswer(m, "capacity_exceeded")
                    ELSE MapAnswer(Put(m, order), "ok"))
PROOF
  <1> DEFINE r == order.reference
             at == SlotFor(t, r)
             u == [t EXCEPT ![at] = Holding(order)]
  <1>1. r \in Nat /\ r \in References BY OrderTypes
  <1>2. t \in [Slots -> Cells] BY DEF TableOk
  <1>3. Insert(t, order) = IF at = Capacity THEN Told(t, "capacity_exceeded")
                           ELSE Told(u, "ok")
        BY DEF Insert
  <1>a. at = SlotFor(t, r) OBVIOUS
  <1> HIDE DEF at
  <1>4. CASE at = Capacity /\ \A s \in Slots : IsLive(t, s)
    <2>1. Cardinality(DOMAIN m) = Capacity BY <1>4, FullTogether
    <2>2. Insert(t, order) = Told(t, "capacity_exceeded") BY <1>3, <1>4
    <2>3. Together(Told(t, "capacity_exceeded"), MapAnswer(m, "capacity_exceeded"))
          BY ToldFields DEF Together
    <2> QED BY <2>1, <2>2, <2>3
  <1>5. ASSUME NEW d \in Slots, at = Probe(r, d), ~IsLive(t, Probe(r, d)),
               \A e \in Slots : e < d => t[Probe(r, e)].state # "empty"
        PROVE  Together(Insert(t, order),
                        IF Cardinality(DOMAIN m) = Capacity
                        THEN MapAnswer(m, "capacity_exceeded")
                        ELSE MapAnswer(Put(m, order), "ok"))
    <2>1. at \in Slots BY <1>1, <1>5, ProbeIsASlot
    <2>2. Cardinality(DOMAIN m) # Capacity BY <1>5, <2>1, FullTogether
    <2>3. Insert(t, order) = Told(u, "ok") BY <1>3, <2>1, SlotsAreNumbers
    <2>4. TableOk(u) /\ Agrees(u, Put(m, order)) BY <1>5, PlacesTheOrder
    <2> HIDE DEF u
    <2>5. Together(Told(u, "ok"), MapAnswer(Put(m, order), "ok"))
          BY <2>4, ToldFields DEF Together
    <2> QED BY <2>2, <2>3, <2>5
  <1>6. \/ at = Capacity /\ \A s \in Slots : IsLive(t, s)
        \/ \E d \in Slots : /\ at = Probe(r, d) /\ ~IsLive(t, Probe(r, d))
                            /\ \A e \in Slots : e < d => t[Probe(r, e)].state # "empty"
        BY <1>1, <1>2, <1>a, SlotIsFree
  <1> QED BY <1>4, <1>5, <1>6

LEMMA AddsTogether ==
    ASSUME NEW t, NEW m, TableOk(t), Agrees(t, m), NEW order \in Orders
    PROVE  Together(ApplyAdd(t, order), MapAdd(m, order))
PROOF
  <1>1. order.reference \in References BY OrderTypes
  <1>2. Has(t, order.reference) <=> order.reference \in DOMAIN m BY <1>1, LooksUpTheMap
  <1>3. CASE order.reference \in DOMAIN m
    <2>1. ApplyAdd(t, order) = Told(t, "invalid_argument") BY <1>2, <1>3 DEF ApplyAdd
    <2>2. MapAdd(m, order) = MapAnswer(m, "invalid_argument") BY <1>3 DEF MapAdd
    <2> QED BY <2>1, <2>2, ToldFields DEF Together
  <1>4. CASE order.reference \notin DOMAIN m
    <2>1. ApplyAdd(t, order) = Insert(t, order) BY <1>2, <1>4 DEF ApplyAdd
    <2>2. MapAdd(m, order) = IF Cardinality(DOMAIN m) = Capacity
                             THEN MapAnswer(m, "capacity_exceeded")
                             ELSE MapAnswer(Put(m, order), "ok")
          BY <1>4 DEF MapAdd
    <2> QED BY <2>1, <2>2, <1>4, InsertsTogether
  <1> QED BY <1>3, <1>4

LEMMA ReducesTogether ==
    ASSUME NEW t, NEW m, TableOk(t), Agrees(t, m), NEW r \in References, NEW k \in Nat
    PROVE  Together(ApplyReduce(t, r, k), MapReduce(m, r, k))
PROOF
  <1>1. Has(t, r) <=> r \in DOMAIN m BY LooksUpTheMap
  <1>2. CASE r \notin DOMAIN m
    <2>1. ApplyReduce(t, r, k) = Told(t, "invalid_argument") BY <1>1, <1>2 DEF ApplyReduce
    <2>2. MapReduce(m, r, k) = MapAnswer(m, "invalid_argument") BY <1>2 DEF MapReduce
    <2> QED BY <2>1, <2>2, ToldFields DEF Together
  <1>3. CASE r \in DOMAIN m
    <2> DEFINE had == m[r].shares
               left == had - k
               u == [t EXCEPT ![FindIndex(t, r)] = Holding([m[r] EXCEPT !.shares = left])]
    <2>1. Find(t, r) = m[r] /\ m[r] \in Orders BY <1>3, LooksUpTheMap
    <2>2. had \in Nat BY <2>1, OrderTypes
    <2>3. ApplyReduce(t, r, k) =
            IF left < 0 THEN Told(t, "invalid_argument")
            ELSE IF left = 0 THEN Told(Erase(t, r), "ok")
            ELSE Told(u, "ok")
          BY <1>1, <1>3, <2>1 DEF ApplyReduce
    <2>4. MapReduce(m, r, k) =
            IF had < k THEN MapAnswer(m, "invalid_argument")
            ELSE IF had = k THEN MapAnswer(Without(m, r), "ok")
            ELSE MapAnswer([m EXCEPT ![r].shares = left], "ok")
          BY <1>3 DEF MapReduce
    <2>5. left < 0 <=> had < k BY <2>2, SMT
    <2>6. left = 0 <=> had = k BY <2>2, SMT
    <2>7. ~(left < 0) => left \in Nat BY <2>2, SMT
    <2>8. CASE left < 0
      <3>1. ApplyReduce(t, r, k) = Told(t, "invalid_argument") BY <2>3, <2>8, Zenon
      <3>2. MapReduce(m, r, k) = MapAnswer(m, "invalid_argument")
            BY <2>4, <2>5, <2>8, Zenon
      <3> QED BY <3>1, <3>2, ToldFields DEF Together
    <2>9. CASE ~(left < 0) /\ left = 0
      <3>1. ApplyReduce(t, r, k) = Told(Erase(t, r), "ok") BY <2>3, <2>9, Zenon
      <3>2. MapReduce(m, r, k) = MapAnswer(Without(m, r), "ok")
            BY <2>4, <2>5, <2>6, <2>9, Zenon
      <3>3. TableOk(Erase(t, r)) /\ Agrees(Erase(t, r), Without(m, r))
            BY <1>3, ErasesTheOrder
      <3> QED BY <3>1, <3>2, <3>3, ToldFields DEF Together
    <2>10. CASE ~(left < 0) /\ left # 0
      <3>1. ApplyReduce(t, r, k) = Told(u, "ok") BY <2>3, <2>10, Zenon
      <3>2. MapReduce(m, r, k) = MapAnswer([m EXCEPT ![r].shares = left], "ok")
            BY <2>4, <2>5, <2>6, <2>10, Zenon
      <3>3. left \in Nat BY <2>7, <2>10
      <3>4. TableOk(u) /\ Agrees(u, [m EXCEPT ![r].shares = left])
        <4> HIDE DEF left
        <4> QED BY <1>3, <3>3, ChangesTheOrder
      <3> HIDE DEF u
      <3> QED BY <3>1, <3>2, <3>4, ToldFields DEF Together
    <2> QED BY <2>8, <2>9, <2>10
  <1> QED BY <1>2, <1>3

LEMMA DeletesTogether ==
    ASSUME NEW t, NEW m, TableOk(t), Agrees(t, m), NEW r \in References
    PROVE  Together(ApplyDelete(t, r), MapDelete(m, r))
PROOF
  <1>1. Has(t, r) <=> r \in DOMAIN m BY LooksUpTheMap
  <1>2. CASE r \notin DOMAIN m
    <2>1. ApplyDelete(t, r) = Told(t, "invalid_argument") BY <1>1, <1>2 DEF ApplyDelete
    <2>2. MapDelete(m, r) = MapAnswer(m, "invalid_argument") BY <1>2 DEF MapDelete
    <2> QED BY <2>1, <2>2, ToldFields DEF Together
  <1>3. CASE r \in DOMAIN m
    <2>1. ApplyDelete(t, r) = Told(Erase(t, r), "ok") BY <1>1, <1>3 DEF ApplyDelete
    <2>2. MapDelete(m, r) = MapAnswer(Without(m, r), "ok") BY <1>3 DEF MapDelete
    <2>3. TableOk(Erase(t, r)) /\ Agrees(Erase(t, r), Without(m, r))
          BY <1>3, ErasesTheOrder
    <2> QED BY <2>1, <2>2, <2>3, ToldFields DEF Together
  <1> QED BY <1>2, <1>3

\* A replace always fits: it frees a slot first.
LEMMA ReplacesTogether ==
    ASSUME NEW t, NEW m, TableOk(t), Agrees(t, m),
           NEW r \in References, NEW q \in References, NEW k \in Nat
    PROVE  Together(ApplyReplace(t, r, q, k, q), MapReplace(m, r, q, k, q))
PROOF
  <1>1. (Has(t, r) <=> r \in DOMAIN m) /\ (Has(t, q) <=> q \in DOMAIN m)
        BY LooksUpTheMap
  <1>2. CASE r \notin DOMAIN m \/ q \in DOMAIN m
    <2>1. ApplyReplace(t, r, q, k, q) = Told(t, "invalid_argument")
          BY <1>1, <1>2 DEF ApplyReplace
    <2>2. MapReplace(m, r, q, k, q) = MapAnswer(m, "invalid_argument")
          BY <1>2 DEF MapReplace
    <2> QED BY <2>1, <2>2, ToldFields DEF Together
  <1>3. CASE r \in DOMAIN m /\ q \notin DOMAIN m
    <2> DEFINE u == Erase(t, r)
               n == Without(m, r)
               order == [reference |-> q, shares |-> k, price |-> q, buy |-> m[r].buy]
               copy == [Find(t, r) EXCEPT !.reference = q, !.shares = k, !.price = q]
    <2>1. Find(t, r) = m[r] /\ m[r] \in Orders BY <1>3, LooksUpTheMap
    <2>2. order \in Orders /\ order.reference = q BY <2>1 DEF Orders
    <2>3. copy = order
      <3> DEFINE old == m[r]
                 moved == [old EXCEPT !.reference = q, !.shares = k, !.price = q]
      <3>1. copy = moved BY <2>1
      <3>2. old \in Orders BY <2>1
      <3> HIDE DEF old
      <3>3. moved \in Orders BY <3>2 DEF Orders
      <3>4. moved.reference = q /\ moved.shares = k /\ moved.price = q /\ moved.buy = old.buy
            BY <3>2 DEF Orders
      <3> HIDE DEF moved
      <3>5. moved = [reference |-> moved.reference, shares |-> moved.shares,
                     price |-> moved.price, buy |-> moved.buy]
            BY <3>3, OrderTypes
      <3> QED BY <3>1, <3>4, <3>5 DEF old
    <2>4. ApplyReplace(t, r, q, k, q) = Insert(u, copy)
          BY <1>1, <1>3 DEF ApplyReplace
    <2>5. MapReplace(m, r, q, k, q) = MapAnswer(Put(n, order), "ok")
          BY <1>3 DEF MapReplace
    <2>6. TableOk(u) /\ Agrees(u, n) /\ \E s \in Slots : ~IsLive(u, s)
          BY <1>3, ErasesTheOrder
    <2>7. q \notin DOMAIN n BY <1>3 DEF Without
    <2> HIDE DEF u, n, order, copy
    <2>8. Cardinality(DOMAIN n) # Capacity BY <2>6, FullTogether
    <2>9. Together(Insert(u, order), IF Cardinality(DOMAIN n) = Capacity
                                     THEN MapAnswer(n, "capacity_exceeded")
                                     ELSE MapAnswer(Put(n, order), "ok"))
          BY <2>2, <2>6, <2>7, InsertsTogether
    <2> QED BY <2>3, <2>4, <2>5, <2>8, <2>9
  <1> QED BY <1>2, <1>3

-----------------------------------------------------------------------------
(* The order-level book, for every run of messages.                          *)

LEMMA AppliedTogether ==
    ASSUME NEW result, NEW reference, Together(result, reference),
           Apply(result, reference)
    PROVE  TableInv'
PROOF BY DEF Together, Apply, TableInv

LEMMA TableStep == TableInv /\ [Next]_vars => TableInv'
PROOF
  <1> SUFFICES ASSUME TableInv, [Next]_vars PROVE TableInv' OBVIOUS
  <1>0. TableOk(table) /\ Agrees(table, orders) BY DEF TableInv
  <1>1. CASE UNCHANGED <<feed, itch>>
        BY <1>1 DEF TableInv, itch
  <1>2. CASE Publish BY <1>1, <1>2 DEF Publish
  <1>3. CASE AskSnapshot BY <1>1, <1>3 DEF AskSnapshot
  <1>4. CASE ReadNext BY <1>1, <1>4 DEF ReadNext
  <1>5. CASE ConnectionCut BY <1>1, <1>5 DEF ConnectionCut
  <1>6. CASE FollowFeed BY <1>1, <1>6 DEF FollowFeed
  <1>s. \A r : Shares(r) \in Nat BY DEF Shares
  <1>7. CASE AddOrder
    <2>1. PICK r \in References :
             LET order == [reference |-> r, shares |-> Shares(r), price |-> r,
                           buy |-> r \in Large]
             IN  Apply(ApplyAdd(table, order), MapAdd(orders, order))
          BY <1>7 DEF AddOrder
    <2> DEFINE order == [reference |-> r, shares |-> Shares(r), price |-> r,
                         buy |-> r \in Large]
    <2>2. order \in Orders BY <1>s DEF Orders
    <2>a. Apply(ApplyAdd(table, order), MapAdd(orders, order)) BY <2>1
    <2> HIDE DEF order
    <2>3. Together(ApplyAdd(table, order), MapAdd(orders, order))
          BY <1>0, <2>2, AddsTogether
    <2> QED BY <2>a, <2>3, AppliedTogether
  <1>8. CASE OrderExecutedOrCanceled
    <2>1. PICK r \in References, k \in 1..2 :
             Apply(ApplyReduce(table, r, k), MapReduce(orders, r, k))
          BY <1>8 DEF OrderExecutedOrCanceled
    <2>2. k \in Nat BY SMT
    <2>3. Together(ApplyReduce(table, r, k), MapReduce(orders, r, k))
          BY <1>0, <2>2, ReducesTogether
    <2> QED BY <2>1, <2>3, AppliedTogether
  <1>9. CASE OrderDelete
    <2>1. PICK r \in References : Apply(ApplyDelete(table, r), MapDelete(orders, r))
          BY <1>9 DEF OrderDelete
    <2>2. Together(ApplyDelete(table, r), MapDelete(orders, r))
          BY <1>0, DeletesTogether
    <2> QED BY <2>1, <2>2, AppliedTogether
  <1>10. CASE OrderReplace
    <2>1. PICK r \in References, q \in References :
             Apply(ApplyReplace(table, r, q, Shares(q), q),
                   MapReplace(orders, r, q, Shares(q), q))
          BY <1>10 DEF OrderReplace
    <2>2. Together(ApplyReplace(table, r, q, Shares(q), q),
                   MapReplace(orders, r, q, Shares(q), q))
          BY <1>0, <1>s, ReplacesTogether
    <2> QED BY <2>1, <2>2, AppliedTogether
  <1>11. CASE UNCHANGED vars BY <1>1, <1>11 DEF vars
  <1> QED BY <1>2, <1>3, <1>4, <1>5, <1>6, <1>7, <1>8, <1>9, <1>10, <1>11 DEF Next

LEMMA TableStarts == Init => TableInv
PROOF
  <1> SUFFICES ASSUME Init PROVE TableInv OBVIOUS
  <1>1. table = [at \in Slots |-> Unused] /\ orders = [r \in {} |-> 0]
        BY DEF Init, EmptyTable
  <1>2. TableOk(table)
    <2>1. table \in [Slots -> Cells] /\ \A s \in Slots : ~IsLive(table, s)
          BY <1>1, Kinds DEF IsLive
    <2> QED BY <2>1 DEF TableOk, Chained, Single
  <1>3. Agrees(table, orders)
    <2>1. DOMAIN orders = {} /\ orders \in [DOMAIN orders -> Orders] BY <1>1
    <2>2. \A s \in Slots : ~IsLive(table, s) BY <1>1, Kinds DEF IsLive
    <2> QED BY <2>1, <2>2 DEF Agrees
  <1>4. feed \in {"deep", "itch"} /\ answer[1] = answer[2] BY DEF Init
  <1> QED BY <1>2, <1>3, <1>4 DEF TableInv

LEMMA TableInvIsTheMap == TableInv => TableIsTheMap
PROOF
  <1> SUFFICES ASSUME TableInv PROVE TableIsTheMap OBVIOUS
  <1>1. TableOk(table) /\ Agrees(table, orders) /\ DOMAIN orders \subseteq References
        BY DEF TableInv, Agrees
  <1>2. \A r \in References : Has(table, r) <=> r \in DOMAIN orders
        BY <1>1, LooksUpTheMap
  <1>3. \A r \in DOMAIN orders : Find(table, r) = orders[r] BY <1>1, LooksUpTheMap
  <1> QED BY <1>2, <1>3 DEF TableInv, TableIsTheMap

\* The open-addressing table of order_level_book finds exactly the orders a plain
\* map holds and answers every message as the map does, for every capacity, hash
\* factor and set of references: tombstones never cut a probe chain, the table is
\* full exactly when Capacity orders are live, and a replace always fits.
THEOREM BooksTableIsTheMap == Spec => []TableIsTheMap
PROOF
  <1>1. Init => TableInv BY TableStarts
  <1>2. TableInv /\ [Next]_vars => TableInv' BY TableStep
  <1>3. TableInv => TableIsTheMap BY TableInvIsTheMap
  <1> QED BY <1>1, <1>2, <1>3, PTL DEF Spec

-----------------------------------------------------------------------------
(* A side of the price-level book.                                           *)

Levels == [price : Int, size : Nat \ {0}]

\* Best price first.
Ranked(buy, levels) ==
    \A i, j \in 1 .. Len(levels) : i < j => Better(buy, levels[i].price, levels[j].price)

Sides(buy) ==
    {side \in [levels : Seq(Levels), refused : Nat] :
        Len(side.levels) <= Depth /\ Ranked(buy, side.levels)}

LEMMA RemovedAt ==
    ASSUME NEW S, NEW s \in Seq(S), NEW w \in 1 .. Len(s)
    PROVE  /\ RemoveAt(s, w) \in Seq(S) /\ Len(RemoveAt(s, w)) = Len(s) - 1
           /\ \A i \in 1 .. Len(s) - 1 :
                 RemoveAt(s, w)[i] = IF i < w THEN s[i] ELSE s[i + 1]
PROOF
  <1> DEFINE n == Len(s)
             a == SubSeq(s, 1, w - 1)
             b == SubSeq(s, w + 1, n)
  <1>1. n \in Nat /\ w \in Nat /\ 1 <= w /\ w <= n /\ s \in [1 .. n -> S] BY SMT
  <1>2. a \in Seq(S) /\ Len(a) = w - 1 /\ \A i \in 1 .. w - 1 : a[i] = s[i]
    <2>1. \A i \in 1 .. w - 1 : i \in 1 .. n BY <1>1, SMT
    <2>2. \A i \in 1 .. w - 1 : s[i] \in S BY <2>1, <1>1
    <2> QED BY <1>1, <2>2, SubSeqProperties, SMT
  <1>3. b \in Seq(S) /\ Len(b) = n - w /\ \A i \in 1 .. n - w : b[i] = s[i + w]
    <2>1. \A i \in w + 1 .. n : i \in 1 .. n BY <1>1, SMT
    <2>2. \A i \in w + 1 .. n : s[i] \in S BY <2>1, <1>1
    <2>3. w + 1 \in Int /\ w + 1 <= n + 1 /\ n - (w + 1) + 1 = n - w BY <1>1, SMT
    <2>4. /\ b \in Seq(S)
          /\ Len(b) = (IF w + 1 <= n THEN n - (w + 1) + 1 ELSE 0)
          /\ \A i \in 1 .. n - (w + 1) + 1 : b[i] = s[(w + 1) + i - 1]
          BY <1>1, <2>2, <2>3, SubSeqProperties
    <2> HIDE DEF b, n
    <2>5. Len(b) = n - w BY <2>4, <1>1, SMT
    <2>6. \A i \in 1 .. n - w : (w + 1) + i - 1 = i + w BY <1>1, SMT
    <2> QED BY <2>3, <2>4, <2>5, <2>6
  <1>4. RemoveAt(s, w) = a \o b BY Zenon DEF RemoveAt
  <1> HIDE DEF a, b, n
  <1>5. /\ a \o b \in Seq(S) /\ Len(a \o b) = Len(a) + Len(b)
        /\ \A i \in 1 .. Len(a) + Len(b) :
              (a \o b)[i] = IF i <= Len(a) THEN a[i] ELSE b[i - Len(a)]
        BY <1>2, <1>3, ConcatProperties
  <1>6. ASSUME NEW i \in 1 .. n - 1
        PROVE  (a \o b)[i] = IF i < w THEN s[i] ELSE s[i + 1]
    <2>0. i \in 1 .. Len(a) + Len(b) BY <1>1, <1>2, <1>3, SMT
    <2>1. CASE i < w
      <3>1. i <= Len(a) /\ i \in 1 .. w - 1 BY <2>1, <1>1, <1>2, SMT
      <3> QED BY <2>0, <2>1, <3>1, <1>5, <1>2
    <2>2. CASE ~(i < w)
      <3>1. ~(i <= Len(a)) /\ i - Len(a) \in 1 .. n - w /\ (i - Len(a)) + w = i + 1
            BY <2>2, <1>1, <1>2, SMT
      <3> QED BY <2>0, <2>2, <3>1, <1>5, <1>3
    <2> QED BY <2>1, <2>2
  <1>7. Len(a) + Len(b) = n - 1 BY <1>1, <1>2, <1>3, SMT
  <1> QED BY <1>4, <1>5, <1>6, <1>7 DEF n

LEMMA InsertedAt ==
    ASSUME NEW S, NEW s \in Seq(S), NEW w \in 1 .. Len(s) + 1, NEW e \in S
    PROVE  /\ InsertAt(s, w, e) \in Seq(S) /\ Len(InsertAt(s, w, e)) = Len(s) + 1
           /\ \A i \in 1 .. Len(s) + 1 :
                 InsertAt(s, w, e)[i] = IF i < w THEN s[i] ELSE IF i = w THEN e ELSE s[i - 1]
PROOF
  <1> DEFINE n == Len(s)
             a == SubSeq(s, 1, w - 1)
             b == SubSeq(s, w, n)
             c == a \o <<e>>
  <1>1. n \in Nat /\ w \in Nat /\ 1 <= w /\ w <= n + 1 /\ s \in [1 .. n -> S] BY SMT
  <1>2. a \in Seq(S) /\ Len(a) = w - 1 /\ \A i \in 1 .. w - 1 : a[i] = s[i]
    <2>1. \A i \in 1 .. w - 1 : i \in 1 .. n BY <1>1, SMT
    <2>2. \A i \in 1 .. w - 1 : s[i] \in S BY <2>1, <1>1
    <2> QED BY <1>1, <2>2, SubSeqProperties, SMT
  <1>3. b \in Seq(S) /\ Len(b) = n - w + 1 /\ \A i \in 1 .. n - w + 1 : b[i] = s[i + w - 1]
    <2>1. \A i \in w .. n : i \in 1 .. n BY <1>1, SMT
    <2>2. \A i \in w .. n : s[i] \in S BY <2>1, <1>1
    <2> QED BY <1>1, <2>2, SubSeqProperties, SMT
  <1>4. InsertAt(s, w, e) = c \o b BY Zenon DEF InsertAt
  <1>5. c \in Seq(S) /\ Len(c) = w /\ c[w] = e /\ \A i \in 1 .. w - 1 : c[i] = s[i]
    <2>1. <<e>> \in Seq(S) /\ Len(<<e>>) = 1 /\ <<e>>[1] = e BY SMT
    <2> HIDE DEF a, n
    <2>2. /\ c \in Seq(S) /\ Len(c) = Len(a) + 1
          /\ \A i \in 1 .. Len(a) + 1 :
                c[i] = IF i <= Len(a) THEN a[i] ELSE <<e>>[i - Len(a)]
      <3> DEFINE one == <<e>>
      <3>1. one \in Seq(S) /\ Len(one) = 1 BY <2>1
      <3>2. c = a \o one OBVIOUS
      <3> HIDE DEF one, c
      <3>3. /\ a \o one \in Seq(S) /\ Len(a \o one) = Len(a) + Len(one)
            /\ \A i \in 1 .. Len(a) + Len(one) :
                (a \o one)[i] = IF i <= Len(a) THEN a[i] ELSE one[i - Len(a)]
            BY <1>2, <3>1, ConcatProperties
      <3> QED BY <3>1, <3>2, <3>3 DEF one
    <2> HIDE DEF c
    <2>3. Len(c) = w BY <2>2, <1>1, <1>2, SMT
    <2>4. w \in 1 .. Len(a) + 1 /\ ~(w <= Len(a)) /\ w - Len(a) = 1 BY <1>1, <1>2, SMT
    <2>5. c[w] = e BY <2>1, <2>2, <2>4
    <2>6. \A i \in 1 .. w - 1 : i \in 1 .. Len(a) + 1 /\ i <= Len(a) BY <1>1, <1>2, SMT
    <2> QED BY <2>2, <2>3, <2>5, <2>6, <1>2
  <1> HIDE DEF a, b, c, n
  <1>6. /\ c \o b \in Seq(S) /\ Len(c \o b) = Len(c) + Len(b)
        /\ \A i \in 1 .. Len(c) + Len(b) :
              (c \o b)[i] = IF i <= Len(c) THEN c[i] ELSE b[i - Len(c)]
        BY <1>5, <1>3, ConcatProperties
  <1>7. Len(c) + Len(b) = n + 1 BY <1>1, <1>3, <1>5, SMT
  <1>8. ASSUME NEW i \in 1 .. n + 1
        PROVE  (c \o b)[i] = IF i < w THEN s[i] ELSE IF i = w THEN e ELSE s[i - 1]
    <2>0. i \in 1 .. Len(c) + Len(b) BY <1>7
    <2>1. CASE i < w
      <3>1. i <= Len(c) /\ i \in 1 .. w - 1 BY <2>1, <1>1, <1>5, SMT
      <3> QED BY <2>0, <2>1, <3>1, <1>6, <1>5
    <2>2. CASE i = w
      <3>1. w <= Len(c) /\ ~(w < w) BY <1>1, <1>5, SMT
      <3> QED BY <2>0, <2>2, <3>1, <1>6, <1>5
    <2>3. CASE ~(i < w) /\ i # w
      <3>1. ~(i <= Len(c)) /\ i - Len(c) \in 1 .. n - w + 1 /\ (i - Len(c)) + w - 1 = i - 1
            BY <2>3, <1>1, <1>5, SMT
      <3>2. (c \o b)[i] = b[i - Len(c)] BY <2>0, <3>1, <1>6
      <3>3. b[i - Len(c)] = s[(i - Len(c)) + w - 1] BY <3>1, <1>3
      <3> QED BY <2>3, <3>1, <3>2, <3>3
    <2> QED BY <2>1, <2>2, <2>3
  <1> QED BY <1>4, <1>6, <1>7, <1>8 DEF n

\* t is s with e put in at position w.
HasInserted(t, s, w, e) ==
    /\ Len(t) = Len(s) + 1
    /\ \A i \in 1 .. Len(s) + 1 : t[i] = IF i < w THEN s[i] ELSE IF i = w THEN e ELSE s[i - 1]

LEMMA InsertAtHas ==
    ASSUME NEW S, NEW s \in Seq(S), NEW w \in 1 .. Len(s) + 1, NEW e \in S
    PROVE  HasInserted(InsertAt(s, w, e), s, w, e)
PROOF BY InsertedAt DEF HasInserted

LEMMA BetterOrders ==
    ASSUME NEW buy \in BOOLEAN, NEW a \in Int, NEW b \in Int
    PROVE  /\ Better(buy, a, b) => ~Better(buy, b, a) /\ a # b
           /\ Better(buy, a, b) \/ Better(buy, b, a) \/ a = b
           /\ \A c \in Int : Better(buy, a, b) /\ Better(buy, b, c) => Better(buy, a, c)
PROOF
  <1>1. CASE buy = TRUE BY <1>1, SMT DEF Better
  <1>2. CASE buy = FALSE BY <1>2, SMT DEF Better
  <1> QED BY <1>1, <1>2

\* The scan stops at the first level that is not better than the price: every
\* level before it is, and every level after it is worse than that level.
LEMMA PositionStops ==
    ASSUME NEW buy \in BOOLEAN, NEW levels \in Seq(Levels), Ranked(buy, levels),
           NEW price \in Int
    PROVE  LET w == PositionOf(levels, buy, price)
           IN  /\ w \in 1 .. Len(levels) + 1
               /\ \A i \in 1 .. Len(levels) :
                     /\ i < w <=> Better(buy, levels[i].price, price)
                     /\ i > w => Better(buy, price, levels[i].price)
                     /\ i = w => levels[i].price = price
                                    \/ Better(buy, price, levels[i].price)
PROOF
  <1> DEFINE n == Len(levels)
             stops == {i \in 1 .. n + 1 :
                         i \in DOMAIN levels => ~Better(buy, levels[i].price, price)}
             w == Min(stops)
  <1>1. n \in Nat /\ DOMAIN levels = 1 .. n /\ levels \in [1 .. n -> Levels] OBVIOUS
  <1>2. PositionOf(levels, buy, price) = w BY Zenon DEF PositionOf
  <1>3. w \in stops /\ \A k \in stops : w <= k
    <2>1. stops \in SUBSET Nat BY <1>1, SMT
    <2>2. n + 1 \in stops BY <1>1, SMT
    <2>3. \E x \in stops : \A y \in stops : x <= y BY <2>1, <2>2, LeastNumber
    <2> HIDE DEF stops
    <2> QED BY <2>3, Zenon DEF Min
  <1>4. w \in 1 .. n + 1 /\ (w \in 1 .. n => ~Better(buy, levels[w].price, price))
        BY <1>1, <1>3
  <1>5. \A i \in 1 .. n : i < w => Better(buy, levels[i].price, price)
    <2> SUFFICES ASSUME NEW i \in 1 .. n, i < w, ~Better(buy, levels[i].price, price)
                 PROVE  FALSE
        OBVIOUS
    <2>1. i \in 1 .. n + 1 BY <1>1, SMT
    <2>2. i \in stops BY <2>1
    <2>3. w <= i BY <2>2, <1>3
    <2> HIDE DEF w
    <2> QED BY <2>3, <1>1, <1>4, SMT
  <1> HIDE DEF w, stops
  <1>6. \A i \in 1 .. n : levels[i].price \in Int BY <1>1 DEF Levels
  <1>7. \A i, j \in 1 .. n : i < j => Better(buy, levels[i].price, levels[j].price)
        BY DEF Ranked
  <1>8. ASSUME NEW i \in 1 .. n, i >= w
        PROVE  levels[i].price = price \/ Better(buy, price, levels[i].price)
    <2>1. w \in 1 .. n BY <1>8, <1>1, <1>4, SMT
    <2>2. levels[w].price = price \/ Better(buy, price, levels[w].price)
          BY <2>1, <1>4, <1>6, BetterOrders
    <2>3. i = w \/ w < i BY <1>8, <1>1, <1>4, SMT
    <2>4. w < i => Better(buy, levels[w].price, levels[i].price) BY <2>1, <1>7
    <2> QED BY <2>1, <2>2, <2>3, <2>4, <1>6, BetterOrders
  <1>9. ASSUME NEW i \in 1 .. n, i > w PROVE Better(buy, price, levels[i].price)
    <2>1. w \in 1 .. n BY <1>9, <1>1, <1>4, SMT
    <2>2. levels[w].price = price \/ Better(buy, price, levels[w].price)
          BY <2>1, <1>4, <1>6, BetterOrders
    <2>3. Better(buy, levels[w].price, levels[i].price) BY <2>1, <1>7, <1>9
    <2> QED BY <2>1, <2>2, <2>3, <1>6, BetterOrders
  <1>10. \A i \in 1 .. n : i < w <=> Better(buy, levels[i].price, price)
    <2>1. \A i \in 1 .. n : i < w \/ i >= w BY <1>1, <1>4, SMT
    <2> QED BY <2>1, <1>5, <1>6, <1>8, BetterOrders
  <1>11. \A i \in 1 .. n : i = w => i >= w BY <1>1, <1>4, SMT
  <1> QED BY <1>2, <1>4, <1>8, <1>9, <1>10, <1>11

\* side::apply(), arm by arm.
LEMMA LevelArms ==
    ASSUME NEW buy \in BOOLEAN, NEW side \in Sides(buy), NEW price \in Int, NEW size \in Nat
    PROVE  LET r == ApplyLevel(side, buy, price, size)
               w == PositionOf(side.levels, buy, price)
               n == Len(side.levels)
               level == [price |-> price, size |-> size]
               present == w <= n /\ side.levels[w].price = price
           IN  /\ size = 0 /\ present =>
                     r = [levels |-> RemoveAt(side.levels, w), refused |-> side.refused]
               /\ size = 0 /\ ~present => r = side
               /\ size > 0 /\ present =>
                     r = [levels |-> [side.levels EXCEPT ![w] = level], refused |-> side.refused]
               /\ size > 0 /\ ~present /\ n >= Depth =>
                     r = [levels |-> side.levels, refused |-> side.refused + 1]
               /\ size > 0 /\ ~present /\ n < Depth =>
                     r = [levels |-> InsertAt(side.levels, w, level), refused |-> side.refused]
PROOF
  <1> DEFINE r == ApplyLevel(side, buy, price, size)
             w == PositionOf(side.levels, buy, price)
             n == Len(side.levels)
             level == [price |-> price, size |-> size]
             present == w <= n /\ side.levels[w].price = price
             levels == side.levels
             refused == side.refused
  <1>1. side = [levels |-> levels, refused |-> refused] BY DEF Sides
  <1>2. r = CASE size = 0 /\ present -> [side EXCEPT !.levels = RemoveAt(@, w)]
              [] size = 0 /\ ~present -> side
              [] size > 0 /\ present -> [side EXCEPT !.levels[w] = level]
              [] size > 0 /\ ~present /\ n >= Depth -> [side EXCEPT !.refused = @ + 1]
              [] OTHER -> [side EXCEPT !.levels = InsertAt(@, w, level)]
        BY DEF ApplyLevel
  <1>3. /\ [side EXCEPT !.levels = RemoveAt(@, w)]
              = [levels |-> RemoveAt(levels, w), refused |-> refused]
        /\ [side EXCEPT !.levels[w] = level]
              = [levels |-> [levels EXCEPT ![w] = level], refused |-> refused]
        /\ [side EXCEPT !.refused = @ + 1] = [levels |-> levels, refused |-> refused + 1]
        /\ [side EXCEPT !.levels = InsertAt(@, w, level)]
              = [levels |-> InsertAt(levels, w, level), refused |-> refused]
    <2> HIDE DEF levels, refused, w, level
    <2> QED BY <1>1
  <1>4. n \in Nat /\ Depth \in Nat /\ (size > 0 <=> size # 0) /\ (n < Depth <=> ~(n >= Depth))
        BY DepthAssumption DEF Sides
  <1> HIDE DEF r, w, present, level, levels, refused, n
  <1>5. size = 0 /\ present => r = [levels |-> RemoveAt(levels, w), refused |-> refused]
        BY <1>2, <1>3, <1>4
  <1>6. size = 0 /\ ~present => r = side BY <1>2, <1>3, <1>4
  <1>7. size > 0 /\ present =>
           r = [levels |-> [levels EXCEPT ![w] = level], refused |-> refused]
        BY <1>2, <1>3, <1>4
  <1>8. size > 0 /\ ~present /\ n >= Depth => r = [levels |-> levels, refused |-> refused + 1]
        BY <1>2, <1>3, <1>4
  <1>9. size > 0 /\ ~present /\ n < Depth =>
           r = [levels |-> InsertAt(levels, w, level), refused |-> refused]
        BY <1>2, <1>3, <1>4
  <1> QED BY <1>4, <1>5, <1>6, <1>7, <1>8, <1>9
          DEF r, w, present, level, levels, refused, n

\* What side::apply() leaves of a side: the levels of the other prices, and the
\* new level unless its size is zero or the side is full, which is counted.
Applied(buy, side, price, size, r) ==
    /\ r \in Sides(buy) /\ r.refused >= side.refused
    /\ \A j \in 1 .. Len(r.levels) :
          \/ size > 0 /\ r.levels[j] = [price |-> price, size |-> size]
          \/ \E i \in 1 .. Len(side.levels) :
                side.levels[i].price # price /\ r.levels[j] = side.levels[i]
    /\ \A i \in 1 .. Len(side.levels) :
          side.levels[i].price # price =>
              \E j \in 1 .. Len(r.levels) : r.levels[j] = side.levels[i]
    /\ size > 0 => \/ r.refused = side.refused + 1
                   \/ \E j \in 1 .. Len(r.levels) :
                         r.levels[j] = [price |-> price, size |-> size]

LEMMA LevelApplied ==
    ASSUME NEW buy \in BOOLEAN, NEW side \in Sides(buy), NEW price \in Int, NEW size \in Nat
    PROVE  Applied(buy, side, price, size, ApplyLevel(side, buy, price, size))
PROOF
  <1> DEFINE r == ApplyLevel(side, buy, price, size)
             L == side.levels
             k == side.refused
             w == PositionOf(L, buy, price)
             n == Len(L)
             level == [price |-> price, size |-> size]
             present == w <= n /\ L[w].price = price
  <1>1. L \in Seq(Levels) /\ Ranked(buy, L) /\ n <= Depth /\ k \in Nat BY DEF Sides
  <1>2. /\ w \in 1 .. n + 1
        /\ \A i \in 1 .. n : /\ i < w <=> Better(buy, L[i].price, price)
                             /\ i > w => Better(buy, price, L[i].price)
        BY <1>1, PositionStops
  <1>3. n \in Nat /\ L \in [1 .. n -> Levels] BY <1>1
  <1>4. \A i \in 1 .. n : L[i] \in Levels /\ L[i].price \in Int BY <1>3 DEF Levels
  <1>5. /\ size = 0 /\ present => r = [levels |-> RemoveAt(L, w), refused |-> k]
        /\ size = 0 /\ ~present => r = side
        /\ size > 0 /\ present => r = [levels |-> [L EXCEPT ![w] = level], refused |-> k]
        /\ size > 0 /\ ~present /\ n >= Depth => r = [levels |-> L, refused |-> k + 1]
        /\ size > 0 /\ ~present /\ n < Depth =>
              r = [levels |-> InsertAt(L, w, level), refused |-> k]
        BY LevelArms
  <1>6. \A i, j \in 1 .. n : i < j => Better(buy, L[i].price, L[j].price) BY <1>1 DEF Ranked
  <1>7. \A i \in 1 .. n : i # w => L[i].price # price
    <2> HIDE DEF w, L, n
    <2>1. \A i \in 1 .. n : i < w \/ i = w \/ i > w BY <1>2, <1>3, SMT
    <2> QED BY <2>1, <1>2, <1>4, BetterOrders
  <1>8. size > 0 => level \in Levels BY DEF Levels
  <1>9. level.price = price OBVIOUS
  <1>d. Depth \in Nat /\ L = side.levels /\ k = side.refused
        /\ level = [price |-> price, size |-> size] BY DepthAssumption
  <1>p. (present => w \in 1 .. n /\ L[w].price = price)
        /\ (~present => \A i \in 1 .. n : L[i].price # price)
    <2> HIDE DEF w, L, n
    <2>1. present => w \in 1 .. n BY <1>2, <1>3, SMT
    <2>2. \A i \in 1 .. n : i = w => w <= n BY <1>3, SMT
    <2> QED BY <2>1, <2>2, <1>7
  <1>s. side \in Sides(buy) OBVIOUS
  <1>a. Applied(buy, side, price, size, r) <=>
          /\ r \in Sides(buy) /\ r.refused >= k
          /\ \A j \in 1 .. Len(r.levels) :
                \/ size > 0 /\ r.levels[j] = level
                \/ \E i \in 1 .. n : L[i].price # price /\ r.levels[j] = L[i]
          /\ \A i \in 1 .. n :
                L[i].price # price => \E j \in 1 .. Len(r.levels) : r.levels[j] = L[i]
          /\ size > 0 => \/ r.refused = k + 1
                         \/ \E j \in 1 .. Len(r.levels) : r.levels[j] = level
    <2> HIDE DEF r
    <2> QED BY Zenon DEF Applied
  <1> HIDE DEF r, L, k, w, n, level, present
  <1>10. ASSUME size = 0, present PROVE Applied(buy, side, price, size, r)
    <2> DEFINE M == RemoveAt(L, w)
               at(j) == IF j < w THEN j ELSE j + 1
    <2>1. w \in 1 .. n BY <1>10, <1>p
    <2>2. /\ M \in Seq(Levels) /\ Len(M) = n - 1
          /\ \A j \in 1 .. n - 1 : M[j] = L[at(j)]
          BY <1>1, <2>1, RemovedAt DEF n
    <2>3. r.levels = M /\ r.refused = k /\ r \in [levels : Seq(Levels), refused : Nat]
          BY <1>5, <1>10, <1>1, <2>2
    <2> HIDE DEF M
    <2>4. \A j \in 1 .. n - 1 : at(j) \in 1 .. n /\ at(j) # w BY <1>3, <2>1, SMT
    <2>5. \A i, j \in 1 .. n - 1 : i < j => at(i) < at(j) BY <1>3, <2>1, SMT
    <2>6. \A i \in 1 .. n : i # w => \E j \in 1 .. n - 1 : at(j) = i
      <3> SUFFICES ASSUME NEW i \in 1 .. n, i # w PROVE \E j \in 1 .. n - 1 : at(j) = i
          OBVIOUS
      <3>1. CASE i < w
        <4>1. i \in 1 .. n - 1 /\ at(i) = i BY <3>1, <1>3, <2>1, SMT
        <4> QED BY <4>1
      <3>2. CASE ~(i < w)
        <4>1. i - 1 \in 1 .. n - 1 /\ at(i - 1) = i BY <3>2, <1>3, <2>1, SMT
        <4> QED BY <4>1
      <3> QED BY <3>1, <3>2
    <2> HIDE DEF at
    <2>7. Ranked(buy, M) BY <2>2, <2>4, <2>5, <1>6 DEF Ranked
    <2>8. n - 1 <= Depth BY <1>1, <1>3, <1>d, SMT DEF n
    <2>9. r \in Sides(buy) BY <2>2, <2>3, <2>7, <2>8 DEF Sides
    <2>10. \A j \in 1 .. n - 1 : \E i \in 1 .. n : L[i].price # price /\ M[j] = L[i]
           BY <2>2, <2>4, <1>7
    <2>11. \A i \in 1 .. n : L[i].price # price => \E j \in 1 .. n - 1 : M[j] = L[i]
      <3>1. \A i \in 1 .. n : L[i].price # price => i # w BY <1>10, <1>p
      <3> QED BY <3>1, <2>2, <2>6
    <2>12. k >= k BY <1>1, SMT
    <2> QED BY <2>2, <2>3, <2>9, <2>10, <2>11, <2>12, <1>10, <1>a
  <1>11. ASSUME size = 0, ~present PROVE Applied(buy, side, price, size, r)
    <2>1. r = side BY <1>5, <1>11
    <2>2. \A i \in 1 .. n : L[i].price # price BY <1>11, <1>p
    <2>3. k >= k BY <1>1, SMT
    <2>4. r.levels = L /\ r.refused = k /\ Len(r.levels) = n BY <2>1, <1>d DEF n
    <2> QED BY <2>1, <2>2, <2>3, <2>4, <1>11, <1>s, <1>a
  <1>12. ASSUME size > 0, present PROVE Applied(buy, side, price, size, r)
    <2> DEFINE M == [L EXCEPT ![w] = level]
    <2>1. w \in 1 .. n /\ L[w].price = price BY <1>12, <1>p
    <2>2. /\ M \in [1 .. n -> Levels] /\ M[w] = level
          /\ \A j \in 1 .. n : j # w => M[j] = L[j]
          BY <1>3, <1>8, <1>12, <2>1
    <2>3. M \in Seq(Levels) /\ Len(M) = n
      <3> HIDE DEF M
      <3> QED BY <2>2, <1>3
    <2>4. r.levels = M /\ r.refused = k /\ r \in [levels : Seq(Levels), refused : Nat]
          BY <1>5, <1>12, <1>1, <2>3
    <2> HIDE DEF M
    <2>5. \A j \in 1 .. n : M[j].price = L[j].price BY <2>1, <2>2, <1>9
    <2>6. Ranked(buy, M) BY <2>3, <2>5, <1>6 DEF Ranked
    <2>7. r \in Sides(buy) BY <2>3, <2>4, <2>6, <1>1 DEF Sides
    <2>8. \A j \in 1 .. n : M[j] = level \/ \E i \in 1 .. n : L[i].price # price /\ M[j] = L[i]
          BY <2>2, <1>7
    <2>9. \A i \in 1 .. n : L[i].price # price => \E j \in 1 .. n : M[j] = L[i]
          BY <2>1, <2>2
    <2>10. k >= k BY <1>1, SMT
    <2>11. \A j \in 1 .. Len(r.levels) :
              \/ size > 0 /\ r.levels[j] = level
              \/ \E i \in 1 .. n : L[i].price # price /\ r.levels[j] = L[i]
           BY <2>3, <2>4, <2>8, <1>12, Zenon
    <2>12. \A i \in 1 .. n :
              L[i].price # price => \E j \in 1 .. Len(r.levels) : r.levels[j] = L[i]
           BY <2>3, <2>4, <2>9, Zenon
    <2>13. \E j \in 1 .. Len(r.levels) : r.levels[j] = level BY <2>1, <2>2, <2>3, <2>4, Zenon
    <2> QED BY <2>4, <2>7, <2>10, <2>11, <2>12, <2>13, <1>a, Zenon
  <1>13. ASSUME size > 0, ~present, n >= Depth PROVE Applied(buy, side, price, size, r)
    <2>1. r = [levels |-> L, refused |-> k + 1] BY <1>5, <1>13
    <2>2. \A i \in 1 .. n : L[i].price # price BY <1>13, <1>p
    <2>3. k + 1 >= k /\ k + 1 \in Nat BY <1>1, SMT
    <2>4. r \in Sides(buy) BY <2>1, <2>3, <1>1 DEF Sides, n
    <2>5. r.levels = L /\ r.refused = k + 1 /\ Len(r.levels) = n BY <2>1 DEF n
    <2> QED BY <2>2, <2>3, <2>4, <2>5, <1>13, <1>a
  <1>14. ASSUME size > 0, ~present, n < Depth PROVE Applied(buy, side, price, size, r)
    <2> DEFINE M == InsertAt(L, w, level)
    <2>0. \A i \in 1 .. n : L[i].price # price BY <1>14, <1>p
    <2>1. level \in Levels BY <1>8, <1>14
    <2>2. /\ M \in Seq(Levels) /\ Len(M) = n + 1
          /\ \A j \in 1 .. n + 1 :
                M[j] = IF j < w THEN L[j] ELSE IF j = w THEN level ELSE L[j - 1]
      <3>1. w \in 1 .. Len(L) + 1 BY <1>2 DEF n
      <3>2. /\ M \in Seq(Levels) /\ Len(M) = Len(L) + 1
            /\ \A j \in 1 .. Len(L) + 1 :
                  M[j] = IF j < w THEN L[j] ELSE IF j = w THEN level ELSE L[j - 1]
            BY <1>1, <2>1, <3>1, InsertedAt
      <3> QED BY <3>2 DEF n
    <2>3. r.levels = M /\ r.refused = k /\ r \in [levels : Seq(Levels), refused : Nat]
          BY <1>5, <1>14, <1>1, <2>2
    <2> HIDE DEF M
    <2>4. Ranked(buy, M)
      <3> SUFFICES ASSUME NEW i \in 1 .. n + 1, NEW j \in 1 .. n + 1, i < j
                   PROVE  Better(buy, M[i].price, M[j].price)
          BY <2>2 DEF Ranked
      <3>1. CASE j < w
        <4>1. i < w /\ i \in 1 .. n /\ j \in 1 .. n BY <3>1, <1>2, <1>3, SMT
        <4> QED BY <3>1, <4>1, <2>2, <1>6
      <3>2. CASE j = w
        <4>1. i < w /\ i \in 1 .. n /\ ~(j < w) BY <3>2, <1>2, <1>3, SMT
        <4> QED BY <3>2, <4>1, <2>2, <1>2, <1>9
      <3>3. CASE ~(j < w) /\ j # w /\ i < w
        <4>1. i \in 1 .. n /\ j - 1 \in 1 .. n BY <3>3, <1>2, <1>3, SMT
        <4>2. i < j - 1 \/ i = j - 1 BY <3>3, <1>2, <1>3, SMT
        <4>3. j - 1 = w \/ j - 1 > w BY <3>3, <1>2, <1>3, SMT
        <4>4. i < j - 1 BY <3>3, <4>2, <4>3, <1>2, <1>3, SMT
        <4> QED BY <3>3, <4>1, <4>4, <2>2, <1>6
      <3>4. CASE ~(j < w) /\ j # w /\ i = w
        <4>1. j - 1 \in 1 .. n /\ j - 1 >= w BY <3>4, <1>2, <1>3, SMT
        <4>2. Better(buy, L[j - 1].price, price) \/ Better(buy, price, L[j - 1].price)
              BY <4>1, <2>0, <1>4, BetterOrders
        <4>3. ~(j - 1 < w) BY <4>1, <1>2, <1>3, SMT
        <4>4. Better(buy, price, L[j - 1].price) BY <4>1, <4>2, <4>3, <1>2
        <4>5. ~(i < w) BY <3>4, <1>2, <1>3, SMT
        <4> QED BY <3>4, <4>4, <4>5, <2>2, <1>9
      <3>5. CASE ~(j < w) /\ j # w /\ ~(i < w) /\ i # w
        <4>1. i - 1 \in 1 .. n /\ j - 1 \in 1 .. n /\ i - 1 < j - 1
              BY <3>5, <1>2, <1>3, SMT
        <4> QED BY <3>5, <4>1, <2>2, <1>6
      <3> QED BY <3>1, <3>2, <3>3, <3>4, <3>5
    <2>5. n + 1 <= Depth BY <1>14, <1>3, <1>d, SMT
    <2>6. r \in Sides(buy) BY <2>2, <2>3, <2>4, <2>5 DEF Sides
    <2>7. ASSUME NEW j \in 1 .. n + 1
          PROVE  M[j] = level \/ \E i \in 1 .. n : L[i].price # price /\ M[j] = L[i]
      <3>1. CASE j < w
        <4>1. j \in 1 .. n BY <3>1, <1>2, <1>3, SMT
        <4> QED BY <3>1, <4>1, <2>2, <2>0
      <3>2. CASE j = w
        <4>1. ~(w < w) BY <1>2, <1>3, SMT
        <4> QED BY <3>2, <4>1, <2>2
      <3>3. CASE ~(j < w) /\ j # w
        <4>1. j - 1 \in 1 .. n BY <3>3, <1>2, <1>3, SMT
        <4> QED BY <3>3, <4>1, <2>2, <2>0
      <3> QED BY <3>1, <3>2, <3>3
    <2>8. ASSUME NEW i \in 1 .. n PROVE \E j \in 1 .. n + 1 : M[j] = L[i]
      <3>1. CASE i < w
        <4>1. i \in 1 .. n + 1 BY <1>3, SMT
        <4> QED BY <3>1, <4>1, <2>2
      <3>2. CASE ~(i < w)
        <4>1. i + 1 \in 1 .. n + 1 /\ ~(i + 1 < w) /\ i + 1 # w /\ (i + 1) - 1 = i
              BY <3>2, <1>2, <1>3, SMT
        <4> QED BY <4>1, <2>2
      <3> QED BY <3>1, <3>2
    <2>9. M[w] = level
      <3>1. ~(w < w) BY <1>2, <1>3, SMT
      <3> QED BY <3>1, <2>2, <1>2
    <2>10. k >= k BY <1>1, SMT
    <2> QED BY <2>2, <2>3, <2>6, <2>7, <2>8, <2>9, <2>10, <1>2, <1>14, <1>a
  <1>15. (size = 0 \/ size > 0) /\ (n >= Depth \/ n < Depth) BY <1>3, <1>d, SMT
  <1>16. Applied(buy, side, price, size, r)
         BY <1>10, <1>11, <1>12, <1>13, <1>14, <1>15
  <1> QED BY <1>16 DEF r

-----------------------------------------------------------------------------
(* Messages and books.                                                       *)

BidSides == Sides(TRUE)
AskSides == Sides(FALSE)

Book == [bids : BidSides, asks : AskSides, trades : Nat]

NewBids(b, m) == ApplyLevel(b.bids, TRUE, m.price, m.size)
NewAsks(b, m) == ApplyLevel(b.asks, FALSE, m.price, m.size)

IsQuote(m, buy) == m.type = "quote" /\ m.buy = buy
IsBid(m) == IsQuote(m, TRUE)
IsAsk(m) == IsQuote(m, FALSE)
IsTrade(m) == m.type = "trade"

\* Every message of a feed: what the feed of the model draws from, and the level
\* updates of a snapshot.
FeedMessages ==
    [type : {"quote"}, buy : BOOLEAN, price : Int, size : Nat] \cup [type : {"trade"}]

LEMMA MessagesAreFeed == Messages \subseteq FeedMessages
PROOF BY BooksAssumption DEF Messages, FeedMessages

LEMMA MessageKinds ==
    ASSUME NEW m \in FeedMessages
    PROVE  /\ m.type \in {"quote", "trade"}
           /\ m.type = "quote" => m.price \in Int /\ m.size \in Nat /\ m.buy \in BOOLEAN
PROOF BY DEF FeedMessages

LEMMA MessageArms ==
    ASSUME NEW b \in Book, NEW m \in FeedMessages
    PROVE  /\ IsBid(m) => ApplyMessage(b, m) = [bids |-> NewBids(b, m), asks |-> b.asks,
                                                trades |-> b.trades]
           /\ IsAsk(m) => ApplyMessage(b, m) = [bids |-> b.bids, asks |-> NewAsks(b, m),
                                                trades |-> b.trades]
           /\ IsTrade(m) => ApplyMessage(b, m) = [bids |-> b.bids, asks |-> b.asks,
                                                  trades |-> b.trades + 1]
PROOF
  <1> DEFINE bids == b.bids
             asks == b.asks
             trades == b.trades
             bid == NewBids(b, m)
             ask == NewAsks(b, m)
  <1>1. b = [bids |-> bids, asks |-> asks, trades |-> trades] BY DEF Book
  <1>2. ApplyMessage(b, m) =
          CASE m.type = "quote" /\ m.buy -> [b EXCEPT !.bids = bid]
            [] m.type = "quote" /\ ~m.buy -> [b EXCEPT !.asks = ask]
            [] m.type = "trade" -> [b EXCEPT !.trades = trades + 1]
            [] OTHER -> b
        BY Zenon DEF ApplyMessage, NewBids, NewAsks
  <1> HIDE DEF bids, asks, trades, bid, ask
  <1>3. /\ [b EXCEPT !.bids = bid] = [bids |-> bid, asks |-> asks, trades |-> trades]
        /\ [b EXCEPT !.asks = ask] = [bids |-> bids, asks |-> ask, trades |-> trades]
        /\ [b EXCEPT !.trades = trades + 1]
              = [bids |-> bids, asks |-> asks, trades |-> trades + 1]
        BY <1>1
  <1>4. /\ IsBid(m) => ApplyMessage(b, m) = [b EXCEPT !.bids = bid]
        /\ IsAsk(m) => ApplyMessage(b, m) = [b EXCEPT !.asks = ask]
        /\ IsTrade(m) => ApplyMessage(b, m) = [b EXCEPT !.trades = trades + 1]
        BY <1>2 DEF IsBid, IsAsk, IsTrade, IsQuote
  <1>5. /\ IsBid(m) => ApplyMessage(b, m) = [bids |-> bid, asks |-> asks, trades |-> trades]
        /\ IsAsk(m) => ApplyMessage(b, m) = [bids |-> bids, asks |-> ask, trades |-> trades]
        /\ IsTrade(m) =>
              ApplyMessage(b, m) = [bids |-> bids, asks |-> asks, trades |-> trades + 1]
        BY <1>3, <1>4, Zenon
  <1> QED BY <1>5 DEF bids, asks, trades, bid, ask

LEMMA MessageFields ==
    ASSUME NEW b \in Book, NEW m \in FeedMessages
    PROVE  /\ IsBid(m) => /\ ApplyMessage(b, m).bids = NewBids(b, m)
                          /\ ApplyMessage(b, m).asks = b.asks
                          /\ ApplyMessage(b, m).trades = b.trades
           /\ IsAsk(m) => /\ ApplyMessage(b, m).asks = NewAsks(b, m)
                          /\ ApplyMessage(b, m).bids = b.bids
                          /\ ApplyMessage(b, m).trades = b.trades
           /\ IsTrade(m) => /\ ApplyMessage(b, m).bids = b.bids
                            /\ ApplyMessage(b, m).asks = b.asks
                            /\ ApplyMessage(b, m).trades = b.trades + 1
PROOF
  <1> DEFINE c == ApplyMessage(b, m)
  <1>1. /\ IsBid(m) => c = [bids |-> NewBids(b, m), asks |-> b.asks, trades |-> b.trades]
        /\ IsAsk(m) => c = [bids |-> b.bids, asks |-> NewAsks(b, m), trades |-> b.trades]
        /\ IsTrade(m) => c = [bids |-> b.bids, asks |-> b.asks, trades |-> b.trades + 1]
        BY MessageArms
  <1> HIDE DEF c
  <1>2. IsBid(m) => c.bids = NewBids(b, m) /\ c.asks = b.asks /\ c.trades = b.trades
        BY <1>1
  <1>3. IsAsk(m) => c.asks = NewAsks(b, m) /\ c.bids = b.bids /\ c.trades = b.trades
        BY <1>1
  <1>4. IsTrade(m) => c.bids = b.bids /\ c.asks = b.asks /\ c.trades = b.trades + 1
        BY <1>1
  <1> QED BY <1>2, <1>3, <1>4 DEF c

LEMMA MessageSides ==
    ASSUME NEW m \in FeedMessages
    PROVE  /\ IsBid(m) \/ IsAsk(m) \/ IsTrade(m)
           /\ IsBid(m) => ~IsAsk(m) /\ m.price \in Int /\ m.size \in Nat
           /\ IsAsk(m) => ~IsBid(m) /\ m.price \in Int /\ m.size \in Nat
           /\ IsTrade(m) => ~IsBid(m) /\ ~IsAsk(m)
PROOF BY MessageKinds DEF IsQuote, IsBid, IsAsk, IsTrade

LEMMA SidesStay ==
    ASSUME NEW b \in Book, NEW m \in FeedMessages
    PROVE  /\ IsBid(m) => NewBids(b, m) \in BidSides
           /\ IsAsk(m) => NewAsks(b, m) \in AskSides
PROOF
  <1>1. b.bids \in Sides(TRUE) /\ b.asks \in Sides(FALSE)
        BY DEF Book, BidSides, AskSides
  <1>2. IsBid(m) => Applied(TRUE, b.bids, m.price, m.size,
                            ApplyLevel(b.bids, TRUE, m.price, m.size))
        BY <1>1, MessageSides, LevelApplied
  <1>3. IsAsk(m) => Applied(FALSE, b.asks, m.price, m.size,
                            ApplyLevel(b.asks, FALSE, m.price, m.size))
        BY <1>1, MessageSides, LevelApplied
  <1> QED BY <1>2, <1>3, Zenon DEF Applied, NewBids, NewAsks, BidSides, AskSides

LEMMA BookStays ==
    ASSUME NEW b \in Book, NEW m \in FeedMessages
    PROVE  ApplyMessage(b, m) \in Book
PROOF
  <1>1. b.bids \in BidSides /\ b.asks \in AskSides /\ b.trades \in Nat BY DEF Book
  <1>2. CASE IsBid(m)
    <2>1. NewBids(b, m) \in BidSides BY <1>2, SidesStay
    <2> QED BY <1>1, <1>2, <2>1, MessageArms DEF Book
  <1>3. CASE IsAsk(m)
    <2>1. NewAsks(b, m) \in AskSides BY <1>3, SidesStay
    <2> QED BY <1>1, <1>3, <2>1, MessageArms DEF Book
  <1>4. CASE IsTrade(m)
    <2>1. b.trades + 1 \in Nat BY <1>1, SMT
    <2> QED BY <1>1, <1>4, <2>1, MessageArms DEF Book
  <1> QED BY <1>2, <1>3, <1>4, MessageSides

LEMMA EmptyIsABook == EmptyBook \in Book
PROOF
  <1>1. <<>> \in Seq(Levels) /\ Len(<<>>) = 0 /\ 1 .. 0 = {} BY SMT
  <1>2. EmptySide \in [levels : Seq(Levels), refused : Nat] BY <1>1 DEF EmptySide
  <1>3. EmptySide.levels = <<>> BY DEF EmptySide
  <1>4. 0 <= Depth BY DepthAssumption, SMT
  <1>5. EmptySide \in BidSides /\ EmptySide \in AskSides
        BY <1>1, <1>2, <1>3, <1>4 DEF Sides, Ranked, BidSides, AskSides
  <1> QED BY <1>5 DEF Book, EmptyBook

-----------------------------------------------------------------------------
(* The book shows the last sizes of the feed, or has counted what it lost.   *)

SizeIn(h, buy, price) ==
    LET quotes == {i \in DOMAIN h : /\ h[i].type = "quote"
                                    /\ h[i].buy = buy /\ h[i].price = price}
    IN  IF quotes = {} THEN 0 ELSE h[Max(quotes)].size

Shown(side) == {side.levels[i].price : i \in DOMAIN side.levels}

Missing(side, buy, h) ==
    {price \in BidPrices \cup AskPrices : SizeIn(h, buy, price) > 0} \ Shown(side)

SideIsLast(side, buy, h) ==
    /\ side \in Sides(buy)
    /\ \A i \in 1 .. Len(side.levels) :
          side.levels[i].size = SizeIn(h, buy, side.levels[i].price)
    /\ IsFiniteSet(Missing(side, buy, h))
    /\ Cardinality(Missing(side, buy, h)) <= side.refused

VenueInv ==
    /\ history \in Seq(FeedMessages) /\ venue \in Book
    /\ SideIsLast(venue.bids, TRUE, history) /\ SideIsLast(venue.asks, FALSE, history)

LEMMA HistoryGrows ==
    ASSUME NEW h \in Seq(FeedMessages), NEW m \in FeedMessages
    PROVE  /\ Append(h, m) \in Seq(FeedMessages) /\ Len(Append(h, m)) = Len(h) + 1
           /\ Append(h, m)[Len(h) + 1] = m
           /\ \A i \in 1 .. Len(h) : Append(h, m)[i] = h[i]
           /\ DOMAIN Append(h, m) = 1 .. Len(h) + 1 /\ DOMAIN h = 1 .. Len(h)
           /\ Len(h) \in Nat
PROOF BY SMT

LEMMA SizeGrows ==
    ASSUME NEW h \in Seq(FeedMessages), NEW m \in FeedMessages, NEW buy, NEW price
    PROVE  SizeIn(Append(h, m), buy, price) =
              IF IsQuote(m, buy) /\ m.price = price THEN m.size ELSE SizeIn(h, buy, price)
PROOF
  <1> DEFINE n == Len(h)
             g == Append(h, m)
             Of(f, i) == f[i].type = "quote" /\ f[i].buy = buy /\ f[i].price = price
             was == {i \in DOMAIN h : Of(h, i)}
             now == {i \in DOMAIN g : Of(g, i)}
  <1>1. /\ n \in Nat /\ DOMAIN h = 1 .. n /\ DOMAIN g = 1 .. n + 1 /\ g[n + 1] = m
        /\ \A i \in 1 .. n : g[i] = h[i]
        BY HistoryGrows
  <1>2. SizeIn(h, buy, price) = IF was = {} THEN 0 ELSE h[Max(was)].size
        BY Zenon DEF SizeIn
  <1>3. SizeIn(g, buy, price) = IF now = {} THEN 0 ELSE g[Max(now)].size
        BY Zenon DEF SizeIn
  <1>q. IsQuote(m, buy) /\ m.price = price <=> Of(g, n + 1) BY <1>1 DEF IsQuote
  <1> HIDE DEF g, n
  <1>4. n + 1 \in 1 .. n + 1 /\ \A i \in 1 .. n + 1 : i \in 1 .. n \/ i = n + 1
        BY <1>1, SMT
  <1>0. \A i \in 1 .. n : i \in 1 .. n + 1 BY <1>1, SMT
  <1>5. CASE Of(g, n + 1)
    <2>1. n + 1 \in now BY <1>1, <1>4, <1>5
    <2>2. now \in SUBSET (1 .. n + 1) /\ n + 1 \in Nat BY <1>1
    <2> HIDE DEF now
    <2>3. Max(now) \in now /\ \A k \in now : k <= Max(now) BY <2>1, <2>2, GreatestNumber
    <2>a. Max(now) \in 1 .. n + 1 /\ n + 1 <= Max(now) BY <2>1, <2>2, <2>3
    <2>4. Max(now) = n + 1 BY <2>a, <1>1, SMT
    <2>5. SizeIn(g, buy, price) = m.size BY <2>1, <2>4, <1>1, <1>3
    <2> QED BY <2>5, <1>5, <1>q DEF g
  <1>6. CASE ~Of(g, n + 1)
    <2>1. now = was BY <1>0, <1>1, <1>4, <1>6
    <2>2. was # {} => Max(was) \in 1 .. n
      <3>1. was \in SUBSET (1 .. n) BY <1>1
      <3>2. was # {} => Max(was) \in was BY <3>1, <1>1, GreatestNumber
      <3> HIDE DEF was
      <3> QED BY <3>1, <3>2
    <2> HIDE DEF now, was
    <2>3. SizeIn(g, buy, price) = SizeIn(h, buy, price)
          BY <2>1, <2>2, <1>1, <1>2, <1>3
    <2> QED BY <2>3, <1>6, <1>q DEF g
  <1> QED BY <1>5, <1>6

\* A quote of the side: the others keep their levels, and its own price shows the
\* new size, is gone, or is counted as refused.
LEMMA QuoteKeepsLast ==
    ASSUME NEW buy \in BOOLEAN, NEW side, NEW h \in Seq(FeedMessages), SideIsLast(side, buy, h),
           NEW m \in FeedMessages, IsQuote(m, buy)
    PROVE  SideIsLast(ApplyLevel(side, buy, m.price, m.size), buy, Append(h, m))
PROOF
  <1> DEFINE r == ApplyLevel(side, buy, m.price, m.size)
             g == Append(h, m)
             price == m.price
             size == m.size
             level == [price |-> price, size |-> size]
             M == r.levels
             L == side.levels
  <1>1. side \in Sides(buy) /\ price \in Int /\ size \in Nat
        BY MessageKinds DEF SideIsLast, IsQuote
  <1>2. Applied(buy, side, price, size, r) BY <1>1, LevelApplied
  <1>3. /\ r \in Sides(buy) /\ r.refused >= side.refused
        /\ \A j \in 1 .. Len(M) :
              \/ size > 0 /\ M[j] = level
              \/ \E i \in 1 .. Len(L) : L[i].price # price /\ M[j] = L[i]
        /\ \A i \in 1 .. Len(L) :
              L[i].price # price => \E j \in 1 .. Len(M) : M[j] = L[i]
        /\ size > 0 => \/ r.refused = side.refused + 1
                       \/ \E j \in 1 .. Len(M) : M[j] = level
        BY <1>2 DEF Applied
  <1>4. \A p : SizeIn(g, buy, p) = IF p = price THEN size ELSE SizeIn(h, buy, p)
        BY SizeGrows
  <1>5. /\ L \in Seq(Levels) /\ side.refused \in Nat /\ M \in Seq(Levels) /\ r.refused \in Nat
        /\ DOMAIN L = 1 .. Len(L) /\ DOMAIN M = 1 .. Len(M)
        BY <1>1, <1>3 DEF Sides
  <1>6. /\ \A i \in 1 .. Len(L) : L[i].size = SizeIn(h, buy, L[i].price)
        /\ IsFiniteSet(Missing(side, buy, h))
        /\ Cardinality(Missing(side, buy, h)) <= side.refused
        BY DEF SideIsLast
  <1>7. level.price = price /\ level.size = size OBVIOUS
  <1>8. Shown(r) = {M[j].price : j \in 1 .. Len(M)} /\ Shown(side) = {L[i].price : i \in 1 .. Len(L)}
        BY <1>5 DEF Shown
  <1>m. Missing(r, buy, g) =
          {p \in BidPrices \cup AskPrices : SizeIn(g, buy, p) > 0} \ Shown(r)
        BY DEF Missing
  <1> HIDE DEF r, g, price, size, level, M, L
  <1>9. \A j \in 1 .. Len(M) : M[j].size = SizeIn(g, buy, M[j].price)
    <2> TAKE j \in 1 .. Len(M)
    <2>1. CASE M[j] = level BY <2>1, <1>4, <1>7
    <2>2. CASE \E i \in 1 .. Len(L) : L[i].price # price /\ M[j] = L[i]
          BY <2>2, <1>4, <1>6
    <2> QED BY <2>1, <2>2, <1>3
  <1> DEFINE before == Missing(side, buy, h)
             after == Missing(r, buy, g)
  <1>10. \A p \in after : p = price \/ p \in before
    <2> SUFFICES ASSUME NEW p \in after, p # price PROVE p \in before OBVIOUS
    <2>1. p \in BidPrices \cup AskPrices /\ SizeIn(h, buy, p) > 0 /\ p \notin Shown(r)
          BY <1>4, <1>m
    <2>2. p \notin Shown(side)
      <3> SUFFICES ASSUME NEW i \in 1 .. Len(L), L[i].price = p PROVE FALSE BY <1>8
      <3>1. PICK j \in 1 .. Len(M) : M[j] = L[i] BY <1>3
      <3> QED BY <3>1, <2>1, <1>8
    <2> QED BY <2>1, <2>2 DEF Missing
  <1>11. CASE size > 0 /\ ~ \E j \in 1 .. Len(M) : M[j] = level
    <2>1. r.refused = side.refused + 1 BY <1>11, <1>3
    <2>2. /\ IsFiniteSet(before \cup {price})
          /\ Cardinality(before \cup {price}) =
                IF price \in before THEN Cardinality(before) ELSE Cardinality(before) + 1
          BY <1>6, FS_AddElement
    <2>3. after \in SUBSET (before \cup {price}) BY <1>10
    <2> HIDE DEF before, after
    <2>4. IsFiniteSet(after) /\ Cardinality(after) <= Cardinality(before \cup {price})
          BY <2>2, <2>3, FS_Subset
    <2>5. Cardinality(before) \in Nat /\ Cardinality(after) \in Nat
          BY <2>4, <1>6, FS_CardinalityType DEF before
    <2>6. Cardinality(after) <= r.refused
      <3>1. Cardinality(before) <= side.refused BY <1>6 DEF before
      <3> QED BY <2>1, <2>2, <2>4, <2>5, <3>1, <1>5, SMT
    <2>7. SideIsLast(r, buy, g) BY <2>4, <2>6, <1>3, <1>9 DEF SideIsLast, after, M
    <2> QED BY <2>7 DEF r, g, price, size
  <1>12. CASE ~(size > 0) \/ \E j \in 1 .. Len(M) : M[j] = level
    <2>1. price \notin after
      <3>1. CASE ~(size > 0) BY <3>1, <1>4, <1>m
      <3>2. CASE \E j \in 1 .. Len(M) : M[j] = level BY <3>2, <1>7, <1>8, <1>m
      <3> QED BY <3>1, <3>2, <1>12
    <2>2. after \in SUBSET before BY <2>1, <1>10
    <2> HIDE DEF before, after
    <2>3. IsFiniteSet(after) /\ Cardinality(after) <= Cardinality(before)
          BY <2>2, <1>6, FS_Subset DEF before
    <2>4. Cardinality(before) \in Nat /\ Cardinality(after) \in Nat
          BY <2>3, <1>6, FS_CardinalityType DEF before
    <2>5. Cardinality(after) <= r.refused
      <3>1. Cardinality(before) <= side.refused BY <1>6 DEF before
      <3>2. r.refused >= side.refused BY <1>3
      <3> QED BY <2>3, <2>4, <3>1, <3>2, <1>5, SMT
    <2>6. SideIsLast(r, buy, g) BY <2>3, <2>5, <1>3, <1>9 DEF SideIsLast, after, M
    <2> QED BY <2>6 DEF r, g, price, size
  <1> QED BY <1>11, <1>12

\* Any other message leaves the side as it was.
LEMMA OthersKeepLast ==
    ASSUME NEW buy \in BOOLEAN, NEW side, NEW h \in Seq(FeedMessages), SideIsLast(side, buy, h),
           NEW m \in FeedMessages, ~IsQuote(m, buy)
    PROVE  SideIsLast(side, buy, Append(h, m))
PROOF
  <1>1. \A p : SizeIn(Append(h, m), buy, p) = SizeIn(h, buy, p) BY SizeGrows
  <1>2. Missing(side, buy, Append(h, m)) = Missing(side, buy, h) BY <1>1 DEF Missing
  <1> QED BY <1>1, <1>2 DEF SideIsLast

LEMMA VenueStep == VenueInv /\ [Next]_vars => VenueInv'
PROOF
  <1> SUFFICES ASSUME VenueInv, [Next]_vars PROVE VenueInv' OBVIOUS
  <1>1. CASE UNCHANGED <<history, venue>> BY <1>1 DEF VenueInv
  <1>2. CASE Publish
    <2>1. PICK m \in FeedMessages : history' = Append(history, m)
                                    /\ venue' = ApplyMessage(venue, m)
          BY <1>2, MessagesAreFeed DEF Publish
    <2>2. history \in Seq(FeedMessages) /\ venue \in Book BY DEF VenueInv
    <2>3. history' \in Seq(FeedMessages) /\ venue' \in Book
          BY <2>1, <2>2, HistoryGrows, BookStays
    <2>4. SideIsLast(venue.bids, TRUE, history) /\ SideIsLast(venue.asks, FALSE, history)
          BY DEF VenueInv
    <2>5. CASE IsBid(m)
      <3>1. venue'.bids = NewBids(venue, m) /\ venue'.asks = venue.asks
            BY <2>1, <2>2, <2>5, MessageFields
      <3>2. SideIsLast(NewBids(venue, m), TRUE, Append(history, m))
            BY <2>1, <2>2, <2>4, <2>5, QuoteKeepsLast DEF NewBids, IsBid
      <3>3. SideIsLast(venue.asks, FALSE, Append(history, m))
            BY <2>1, <2>2, <2>4, <2>5, MessageSides, OthersKeepLast DEF IsAsk
      <3> QED BY <2>1, <2>3, <3>1, <3>2, <3>3 DEF VenueInv
    <2>6. CASE IsAsk(m)
      <3>1. venue'.asks = NewAsks(venue, m) /\ venue'.bids = venue.bids
            BY <2>1, <2>2, <2>6, MessageFields
      <3>2. SideIsLast(NewAsks(venue, m), FALSE, Append(history, m))
            BY <2>1, <2>2, <2>4, <2>6, QuoteKeepsLast DEF NewAsks, IsAsk
      <3>3. SideIsLast(venue.bids, TRUE, Append(history, m))
            BY <2>1, <2>2, <2>4, <2>6, MessageSides, OthersKeepLast DEF IsBid
      <3> QED BY <2>1, <2>3, <3>1, <3>2, <3>3 DEF VenueInv
    <2>7. CASE IsTrade(m)
      <3>1. venue'.bids = venue.bids /\ venue'.asks = venue.asks
            BY <2>1, <2>2, <2>7, MessageFields
      <3>2. SideIsLast(venue.bids, TRUE, Append(history, m))
            BY <2>1, <2>2, <2>4, <2>7, MessageSides, OthersKeepLast DEF IsBid
      <3>3. SideIsLast(venue.asks, FALSE, Append(history, m))
            BY <2>1, <2>2, <2>4, <2>7, MessageSides, OthersKeepLast DEF IsAsk
      <3> QED BY <2>1, <2>3, <3>1, <3>2, <3>3 DEF VenueInv
    <2> QED BY <2>5, <2>6, <2>7, <2>1, MessageSides
  <1>3. CASE AskSnapshot BY <1>1, <1>3 DEF AskSnapshot
  <1>4. CASE ReadNext BY <1>1, <1>4 DEF ReadNext
  <1>5. CASE ConnectionCut BY <1>1, <1>5 DEF ConnectionCut
  <1>6. CASE FollowFeed BY <1>1, <1>6 DEF FollowFeed
  <1>7. CASE AddOrder BY <1>1, <1>7 DEF AddOrder, Apply, deep
  <1>8. CASE OrderExecutedOrCanceled BY <1>1, <1>8 DEF OrderExecutedOrCanceled, Apply, deep
  <1>9. CASE OrderDelete BY <1>1, <1>9 DEF OrderDelete, Apply, deep
  <1>10. CASE OrderReplace BY <1>1, <1>10 DEF OrderReplace, Apply, deep
  <1>11. CASE UNCHANGED vars BY <1>1, <1>11 DEF vars, deep
  <1> QED BY <1>2, <1>3, <1>4, <1>5, <1>6, <1>7, <1>8, <1>9, <1>10, <1>11 DEF Next

LEMMA EmptySideIsLast ==
    ASSUME NEW buy \in BOOLEAN
    PROVE  SideIsLast(EmptySide, buy, <<>>)
PROOF
  <1>0. DOMAIN <<>> = {} BY SMT
  <1>1. \A p : SizeIn(<<>>, buy, p) = 0 BY <1>0 DEF SizeIn
  <1>2. Missing(EmptySide, buy, <<>>) = {} BY <1>1 DEF Missing
  <1>3. EmptySide \in Sides(buy)
    <2>1. EmptySide \in Sides(TRUE) /\ EmptySide \in Sides(FALSE)
          BY EmptyIsABook DEF Book, EmptyBook, BidSides, AskSides
    <2> QED BY <2>1
  <1>4. EmptySide.levels = <<>> /\ EmptySide.refused = 0 BY DEF EmptySide
  <1>5. 1 .. Len(<<>>) = {} BY SMT
  <1>6. IsFiniteSet({}) /\ Cardinality({}) <= 0 BY FS_EmptySet, SMT
  <1> QED BY <1>2, <1>3, <1>4, <1>5, <1>6 DEF SideIsLast

LEMMA VenueStarts == Init => VenueInv
PROOF
  <1> SUFFICES ASSUME Init PROVE VenueInv OBVIOUS
  <1>1. history = <<>> /\ venue = EmptyBook BY DEF Init
  <1>2. <<>> \in Seq(FeedMessages) OBVIOUS
  <1>3. EmptyBook.bids = EmptySide /\ EmptyBook.asks = EmptySide BY DEF EmptyBook
  <1> QED BY <1>1, <1>2, <1>3, EmptyIsABook, EmptySideIsLast DEF VenueInv

LEMMA VenueInvIsLastWrites == VenueInv => BookIsLastWrites
PROOF
  <1> SUFFICES ASSUME VenueInv, NEW buy \in BOOLEAN
               PROVE  LET side == IF buy THEN venue.bids ELSE venue.asks
                          shown == {side.levels[i].price : i \in DOMAIN side.levels}
                          expected == {price \in BidPrices \cup AskPrices :
                                          LastSize(buy, price) > 0}
                      IN  /\ \A i, j \in DOMAIN side.levels :
                               i < j => Better(buy, side.levels[i].price, side.levels[j].price)
                          /\ \A i \in DOMAIN side.levels :
                               side.levels[i].size = LastSize(buy, side.levels[i].price)
                          /\ Cardinality(expected \ shown) <= side.refused
      BY Zenon DEF BookIsLastWrites
  <1> DEFINE side == IF buy THEN venue.bids ELSE venue.asks
  <1>1. SideIsLast(side, buy, history)
    <2>1. CASE buy = TRUE BY <2>1 DEF VenueInv
    <2>2. CASE buy = FALSE BY <2>2 DEF VenueInv
    <2> QED BY <2>1, <2>2
  <1> HIDE DEF side
  <1>2. \A p : LastSize(buy, p) = SizeIn(history, buy, p) BY Zenon DEF LastSize, SizeIn
  <1>3. side \in Sides(buy) BY <1>1 DEF SideIsLast
  <1>4. DOMAIN side.levels = 1 .. Len(side.levels) /\ Ranked(buy, side.levels)
        BY <1>3 DEF Sides
  <1>5. Missing(side, buy, history) =
          {price \in BidPrices \cup AskPrices : LastSize(buy, price) > 0}
             \ {side.levels[i].price : i \in DOMAIN side.levels}
        BY <1>2 DEF Missing, Shown
  <1>6. /\ \A i, j \in DOMAIN side.levels :
              i < j => Better(buy, side.levels[i].price, side.levels[j].price)
        /\ \A i \in DOMAIN side.levels :
              side.levels[i].size = LastSize(buy, side.levels[i].price)
        /\ Cardinality(Missing(side, buy, history)) <= side.refused
        BY <1>1, <1>2, <1>4 DEF SideIsLast, Ranked
  <1> QED BY <1>5, <1>6 DEF side

\* Each side of the price-level book shows, best price first, the last sizes the
\* feed gave, and has counted as refused at least the levels it should show and
\* does not, for every depth of the book and every feed.
THEOREM BooksBookIsLastWrites == Spec => []BookIsLastWrites
PROOF
  <1>1. Init => VenueInv BY VenueStarts
  <1>2. VenueInv /\ [Next]_vars => VenueInv' BY VenueStep
  <1>3. VenueInv => BookIsLastWrites BY VenueInvIsLastWrites
  <1> QED BY <1>1, <1>2, <1>3, PTL DEF Spec

-----------------------------------------------------------------------------
(* The book of a client that was there from the start.                       *)

BookAt(h, k) == FoldLeft(ApplyMessage, EmptyBook, SubSeq(h, 1, k))

BookStep(book, seq) ==
    book = [s \in SUBSET DOMAIN seq |->
               IF s = {} THEN EmptyBook ELSE ApplyMessage(book[s \ {Max(s)}], seq[Max(s)])]

LEMMA BookInSteps ==
    ASSUME NEW seq \in Seq(FeedMessages)
    PROVE  \E book : /\ FoldLeft(ApplyMessage, EmptyBook, seq) = book[1 .. Len(seq)]
                     /\ book[1 .. 0] = EmptyBook
                     /\ \A k \in 1 .. Len(seq) :
                           book[1 .. k] = ApplyMessage(book[1 .. k - 1], seq[k])
PROOF
  <1> DEFINE n == Len(seq)
             f == [p \in Book \X FeedMessages |-> ApplyMessage(p[1], p[2])]
             book == CHOOSE iter : BookStep(iter, seq)
  <1>1. n \in Nat /\ DOMAIN seq = 1 .. n /\ seq \in [1 .. n -> FeedMessages] OBVIOUS
  <1>2. \A b \in Book, m \in FeedMessages : ApplyMessage(b, m) \in Book BY BookStays
  <1>3. f \in [Book \X FeedMessages -> Book]
        /\ \A b \in Book, m \in FeedMessages : f[<<b, m>>] = ApplyMessage(b, m)
    <2>1. \A p \in Book \X FeedMessages : ApplyMessage(p[1], p[2]) \in Book BY <1>2
    <2> QED BY <2>1
  <1>e. EmptyBook \in Book BY EmptyIsABook
  <1> HIDE DEF f, n
  <1>4. PICK h : FoldsInto(h, Book, f, EmptyBook, seq, n) BY <1>1, <1>3, <1>e, FoldExists
  <1>5. \A s \in SUBSET (1 .. n) : s # {} => Max(s) \in s /\ s \ {Max(s)} \in SUBSET (1 .. n)
        BY <1>1, GreatestNumber
  <1>6. BookStep(h, seq)
    <2>1. ASSUME NEW s \in SUBSET (1 .. n)
          PROVE  h[s] = IF s = {} THEN EmptyBook
                        ELSE ApplyMessage(h[s \ {Max(s)}], seq[Max(s)])
      <3>1. h \in [SUBSET (1 .. n) -> Book]
            /\ h[s] = IF s = {} THEN EmptyBook ELSE f[<<h[s \ {Max(s)}], seq[Max(s)]>>]
            BY <1>4 DEF FoldsInto
      <3>2. CASE s # {}
        <4>1. h[s \ {Max(s)}] \in Book /\ seq[Max(s)] \in FeedMessages
              BY <3>1, <3>2, <1>1, <1>5
        <4> QED BY <4>1, <3>1, <3>2, <1>3
      <3> QED BY <3>1, <3>2
    <2>2. h = [s \in SUBSET (1 .. n) |-> h[s]] BY <1>4 DEF FoldsInto
    <2> QED BY <2>1, <2>2, <1>1 DEF BookStep
  <1>7. BookStep(book, seq) BY <1>6, Zenon
  <1>8. FoldLeft(ApplyMessage, EmptyBook, seq) = book[1 .. n]
        BY <1>1, Zenon DEF BookStep, FoldLeft, MapThenFoldSet
  <1> HIDE DEF book
  <1>9. \A s \in SUBSET (1 .. n) :
           book[s] = IF s = {} THEN EmptyBook
                     ELSE ApplyMessage(book[s \ {Max(s)}], seq[Max(s)])
    <2>1. book = [s \in SUBSET (1 .. n) |->
                     IF s = {} THEN EmptyBook
                     ELSE ApplyMessage(book[s \ {Max(s)}], seq[Max(s)])]
          BY <1>1, <1>7, Zenon DEF BookStep
    <2> QED BY <2>1
  <1>10. book[1 .. 0] = EmptyBook
    <2>1. 1 .. 0 = {} /\ 1 .. 0 \in SUBSET (1 .. n) BY SMT
    <2> QED BY <2>1, <1>9
  <1>11. \A k \in 1 .. n : book[1 .. k] = ApplyMessage(book[1 .. k - 1], seq[k])
    <2> TAKE k \in 1 .. n
    <2>1. /\ 1 .. k \in SUBSET (1 .. n) /\ 1 .. k # {} /\ Max(1 .. k) = k
          /\ (1 .. k) \ {k} = 1 .. k - 1
          BY <1>1, FirstIndices
    <2> QED BY <2>1, <1>9
  <1> QED BY <1>8, <1>10, <1>11 DEF n

\* One more message is applied to the book of the messages before it.
LEMMA BookGrows ==
    ASSUME NEW seq \in Seq(FeedMessages), NEW m \in FeedMessages
    PROVE  /\ FoldLeft(ApplyMessage, EmptyBook, Append(seq, m)) =
                 ApplyMessage(FoldLeft(ApplyMessage, EmptyBook, seq), m)
           /\ FoldLeft(ApplyMessage, EmptyBook, seq) \in Book
PROOF
  <1> DEFINE n == Len(seq)
             more == Append(seq, m)
  <1>1. /\ n \in Nat /\ more \in Seq(FeedMessages) /\ Len(more) = n + 1 /\ more[n + 1] = m
        /\ (\A i \in 1 .. n : more[i] = seq[i]) /\ \A i \in 1 .. n : seq[i] \in FeedMessages
        BY HistoryGrows
  <1>2. PICK f : /\ FoldLeft(ApplyMessage, EmptyBook, seq) = f[1 .. n]
                 /\ f[1 .. 0] = EmptyBook
                 /\ \A k \in 1 .. n : f[1 .. k] = ApplyMessage(f[1 .. k - 1], seq[k])
        BY BookInSteps
  <1>l. Len(more) = n + 1 /\ more \in Seq(FeedMessages) BY <1>1
  <1> HIDE DEF more, n
  <1>m. \E g : /\ FoldLeft(ApplyMessage, EmptyBook, more) = g[1 .. Len(more)]
               /\ g[1 .. 0] = EmptyBook
               /\ \A k \in 1 .. Len(more) : g[1 .. k] = ApplyMessage(g[1 .. k - 1], more[k])
        BY <1>l, BookInSteps
  <1>3. PICK g : /\ FoldLeft(ApplyMessage, EmptyBook, more) = g[1 .. n + 1]
                 /\ g[1 .. 0] = EmptyBook
                 /\ \A k \in 1 .. n + 1 : g[1 .. k] = ApplyMessage(g[1 .. k - 1], more[k])
        BY <1>l, <1>m, Zenon
  <1> DEFINE Same(k) == f[1 .. k] = g[1 .. k] /\ f[1 .. k] \in Book
             S == {k \in Nat : k <= n => Same(k)}
  <1>4. 0 \in S BY <1>2, <1>3, EmptyIsABook
  <1>5. \A k \in S : k + 1 \in S
    <2> SUFFICES ASSUME NEW k \in Nat, k <= n => Same(k), k + 1 <= n PROVE Same(k + 1)
        OBVIOUS
    <2>1. k <= n /\ k + 1 \in 1 .. n /\ k + 1 \in 1 .. n + 1 /\ (k + 1) - 1 = k
          BY <1>1, SMT
    <2>2. f[1 .. k + 1] = ApplyMessage(f[1 .. k], seq[k + 1]) BY <2>1, <1>2
    <2>3. g[1 .. k + 1] = ApplyMessage(g[1 .. k], more[k + 1]) BY <2>1, <1>3
    <2>4. more[k + 1] = seq[k + 1] /\ seq[k + 1] \in FeedMessages BY <2>1, <1>1
    <2> QED BY <2>1, <2>2, <2>3, <2>4, BookStays
  <1>6. S = Nat
    <2>1. S \in SUBSET Nat OBVIOUS
    <2> HIDE DEF S
    <2> QED BY <2>1, <1>4, <1>5, NumbersByInduction
  <1>7. n \in S BY <1>1, <1>6
  <1>8. Same(n) BY <1>1, <1>7, SMT
  <1>9. n + 1 \in 1 .. n + 1 /\ (n + 1) - 1 = n BY <1>1, SMT
  <1>10. g[1 .. n + 1] = ApplyMessage(g[1 .. n], m) BY <1>1, <1>3, <1>9
  <1> QED BY <1>2, <1>3, <1>8, <1>10 DEF n, more

LEMMA PrefixGrows ==
    ASSUME NEW h \in Seq(FeedMessages), NEW k \in 0 .. Len(h)
    PROVE  /\ SubSeq(h, 1, k) \in Seq(FeedMessages) /\ Len(SubSeq(h, 1, k)) = k
           /\ \A i \in 1 .. k : SubSeq(h, 1, k)[i] = h[i]
           /\ k < Len(h) => /\ h[k + 1] \in FeedMessages
                            /\ SubSeq(h, 1, k + 1) = Append(SubSeq(h, 1, k), h[k + 1])
           /\ \A m \in FeedMessages : SubSeq(Append(h, m), 1, k) = SubSeq(h, 1, k)
PROOF
  <1> DEFINE n == Len(h)
  <1>1. n \in Nat /\ k \in Nat /\ k <= n /\ \A i \in 1 .. n : h[i] \in FeedMessages BY SMT
  <1>2. ASSUME NEW g \in Seq(FeedMessages), NEW j \in Nat, j <= Len(g)
        PROVE  /\ SubSeq(g, 1, j) \in Seq(FeedMessages) /\ Len(SubSeq(g, 1, j)) = j
               /\ SubSeq(g, 1, j) = [i \in 1 .. j |-> g[i]]
    <2>1. Len(g) \in Nat /\ \A i \in 1 .. Len(g) : g[i] \in FeedMessages OBVIOUS
    <2>2. \A i \in 1 .. j : i \in 1 .. Len(g) BY <1>2, <2>1, SMT
    <2>3. \A i \in 1 .. j : g[i] \in FeedMessages BY <2>1, <2>2
    <2>4. 1 \in Int /\ j \in Int /\ 1 <= j + 1 /\ j - 1 + 1 = j BY <1>2, SMT
    <2> DEFINE cut == SubSeq(g, 1, j)
    <2>5. /\ cut \in Seq(FeedMessages)
          /\ Len(cut) = (IF 1 <= j THEN j - 1 + 1 ELSE 0)
          /\ \A i \in 1 .. j - 1 + 1 : cut[i] = g[1 + i - 1]
          BY <2>3, <2>4, SubSeqProperties
    <2> HIDE DEF cut
    <2>6. Len(cut) = j BY <2>5, <2>4, <1>2, SMT
    <2>7. \A i \in 1 .. j : 1 + i - 1 = i BY SMT
    <2>8. cut = [i \in 1 .. j |-> cut[i]] BY <2>5, <2>6
    <2>9. \A i \in 1 .. j : cut[i] = g[i] BY <2>4, <2>5, <2>7
    <2> QED BY <2>5, <2>6, <2>8, <2>9 DEF cut
  <1>3. /\ SubSeq(h, 1, k) \in Seq(FeedMessages) /\ Len(SubSeq(h, 1, k)) = k
        /\ SubSeq(h, 1, k) = [i \in 1 .. k |-> h[i]]
        BY <1>1, <1>2
  <1>4. ASSUME k < n
        PROVE  /\ h[k + 1] \in FeedMessages
               /\ SubSeq(h, 1, k + 1) = Append(SubSeq(h, 1, k), h[k + 1])
    <2>1. k + 1 \in Nat /\ k + 1 <= n /\ k + 1 \in 1 .. n BY <1>1, <1>4, SMT
    <2>2. h[k + 1] \in FeedMessages BY <1>1, <2>1
    <2>3. SubSeq(h, 1, k + 1) = [i \in 1 .. k + 1 |-> h[i]] BY <1>2, <2>1
    <2> DEFINE p == SubSeq(h, 1, k)
               q == Append(p, h[k + 1])
    <2>4. p \in Seq(FeedMessages) /\ Len(p) = k /\ \A i \in 1 .. k : p[i] = h[i] BY <1>3
    <2> HIDE DEF p
    <2>5. /\ q \in Seq(FeedMessages) /\ DOMAIN q = 1 .. k + 1 /\ q[k + 1] = h[k + 1]
          /\ \A i \in 1 .. k : q[i] = p[i]
          BY <2>2, <2>4, HistoryGrows
    <2> HIDE DEF q
    <2>6. \A i \in 1 .. k + 1 : i = k + 1 \/ i \in 1 .. k BY <1>1, SMT
    <2>7. \A i \in 1 .. k + 1 : q[i] = h[i] BY <2>4, <2>5, <2>6
    <2>8. q = [i \in 1 .. k + 1 |-> q[i]] BY <2>5
    <2>9. q = [i \in 1 .. k + 1 |-> h[i]] BY <2>7, <2>8
    <2> QED BY <2>2, <2>3, <2>9 DEF p, q
  <1>5. ASSUME NEW m \in FeedMessages PROVE SubSeq(Append(h, m), 1, k) = SubSeq(h, 1, k)
    <2> DEFINE g == Append(h, m)
    <2>1. g \in Seq(FeedMessages) /\ Len(g) = n + 1 /\ \A i \in 1 .. n : g[i] = h[i]
          BY HistoryGrows
    <2> HIDE DEF g
    <2>2. k <= Len(g) BY <2>1, <1>1, SMT
    <2>3. SubSeq(g, 1, k) = [i \in 1 .. k |-> g[i]] BY <1>1, <1>2, <2>1, <2>2
    <2>4. \A i \in 1 .. k : i \in 1 .. n BY <1>1, SMT
    <2>5. \A i \in 1 .. k : g[i] = h[i] BY <2>1, <2>4
    <2> QED BY <2>3, <2>5, <1>3 DEF g
  <1> QED BY <1>3, <1>4, <1>5

LEMMA BooksInOrder ==
    ASSUME NEW h \in Seq(FeedMessages), NEW k \in 0 .. Len(h)
    PROVE  /\ BookAt(h, k) \in Book
           /\ k = 0 => BookAt(h, k) = EmptyBook
           /\ k < Len(h) => /\ h[k + 1] \in FeedMessages
                            /\ BookAt(h, k + 1) = ApplyMessage(BookAt(h, k), h[k + 1])
           /\ \A m \in FeedMessages : BookAt(Append(h, m), k) = BookAt(h, k)
PROOF
  <1>1. \E m \in FeedMessages : TRUE
    <2>1. [type |-> "trade"] \in FeedMessages BY DEF FeedMessages
    <2> QED BY <2>1
  <1>2. BookAt(h, k) \in Book BY <1>1, PrefixGrows, BookGrows DEF BookAt
  <1>3. k = 0 => BookAt(h, k) = EmptyBook
    <2> SUFFICES ASSUME k = 0 PROVE BookAt(h, k) = EmptyBook OBVIOUS
    <2> DEFINE p == SubSeq(h, 1, k)
    <2>1. p \in Seq(FeedMessages) /\ Len(p) = 0 BY PrefixGrows
    <2> HIDE DEF p
    <2>2. \E book : FoldLeft(ApplyMessage, EmptyBook, p) = book[1 .. Len(p)]
                    /\ book[1 .. 0] = EmptyBook
          BY <2>1, BookInSteps
    <2>3. FoldLeft(ApplyMessage, EmptyBook, p) = EmptyBook BY <2>1, <2>2
    <2> QED BY <2>3 DEF BookAt, p
  <1>4. ASSUME k < Len(h)
        PROVE  h[k + 1] \in FeedMessages
               /\ BookAt(h, k + 1) = ApplyMessage(BookAt(h, k), h[k + 1])
    <2>1. /\ h[k + 1] \in FeedMessages /\ SubSeq(h, 1, k) \in Seq(FeedMessages)
          /\ SubSeq(h, 1, k + 1) = Append(SubSeq(h, 1, k), h[k + 1])
          BY <1>4, PrefixGrows
    <2> QED BY <2>1, BookGrows DEF BookAt
  <1>5. \A m \in FeedMessages : BookAt(Append(h, m), k) = BookAt(h, k)
        BY PrefixGrows DEF BookAt
  <1> QED BY <1>2, <1>3, <1>4, <1>5

-----------------------------------------------------------------------------
(* Reading a snapshot rebuilds the book it was taken of.                     *)

\* The first i levels of a side, in their order, and nothing refused.
Begins(side, levels, i) ==
    /\ Len(side.levels) = i
    /\ \A j \in 1 .. i : side.levels[j] = levels[j]

\* The next level of a ranked side goes behind the ones already there.
LEMMA NextLevelFits ==
    ASSUME NEW buy \in BOOLEAN, NEW whole \in Sides(buy), NEW side \in Sides(buy),
           NEW i \in Nat, i < Len(whole.levels), Begins(side, whole.levels, i)
    PROVE  LET level == whole.levels[i + 1]
           IN  /\ level.price \in Int /\ level.size \in Nat
               /\ Begins(ApplyLevel(side, buy, level.price, level.size), whole.levels, i + 1)
PROOF
  <1> DEFINE L == whole.levels
             M == side.levels
             level == L[i + 1]
             price == level.price
             size == level.size
             w == PositionOf(M, buy, price)
             r == ApplyLevel(side, buy, price, size)
  <1>1. /\ L \in Seq(Levels) /\ Len(L) \in Nat /\ Len(L) <= Depth /\ Ranked(buy, L)
        /\ M \in Seq(Levels) /\ Ranked(buy, M) /\ side.refused \in Nat
        BY DEF Sides
  <1>2. i + 1 \in 1 .. Len(L) /\ \A j \in 1 .. i : j \in 1 .. Len(L) /\ j < i + 1
        BY <1>1, SMT
  <1>3. level \in Levels /\ price \in Int /\ size \in Nat /\ size > 0
        /\ level = [price |-> price, size |-> size]
    <2>1. level \in Levels BY <1>1, <1>2
    <2> HIDE DEF level
    <2> QED BY <2>1 DEF Levels
  <1>4. Len(M) = i /\ \A j \in 1 .. i : M[j] = L[j] BY DEF Begins
  <1>5. \A j \in 1 .. i : Better(buy, M[j].price, price)
    <2>1. \A j \in 1 .. i : Better(buy, L[j].price, L[i + 1].price)
          BY <1>1, <1>2 DEF Ranked
    <2> QED BY <2>1, <1>4
  <1>6. w = i + 1
    <2>1. w \in 1 .. Len(M) + 1 /\ \A j \in 1 .. Len(M) : j < w <=> Better(buy, M[j].price, price)
          BY <1>1, <1>3, PositionStops
    <2> HIDE DEF w, M, price
    <2>2. w \in 1 .. i + 1 /\ \A j \in 1 .. i : j < w BY <2>1, <1>4, <1>5
    <2>3. w \in 1 .. i => FALSE BY <2>2, SMT
    <2> QED BY <2>2, <2>3, SMT
  <1>7. r = [levels |-> InsertAt(M, w, level), refused |-> side.refused]
    <2>1. /\ size > 0 /\ ~(w <= Len(M) /\ M[w].price = price) /\ Len(M) < Depth =>
                r = [levels |-> InsertAt(M, w, [price |-> price, size |-> size]),
                     refused |-> side.refused]
          BY <1>3, LevelArms
    <2>2. ~(w <= Len(M)) /\ Len(M) < Depth
      <3>1. Len(M) = i /\ Len(L) \in Nat /\ Len(L) <= Depth BY <1>1, <1>4
      <3>2. Depth \in Nat /\ i < Len(L) BY DepthAssumption
      <3> HIDE DEF w, M, L
      <3> QED BY <3>1, <3>2, <1>6, SMT
    <2> QED BY <2>1, <2>2, <1>3
  <1> DEFINE N == InsertAt(M, i + 1, level)
  <1>8. /\ Len(N) = i + 1
        /\ \A j \in 1 .. i + 1 : N[j] = IF j < i + 1 THEN M[j] ELSE IF j = i + 1 THEN level
                                        ELSE M[j - 1]
    <2>1. i + 1 \in 1 .. Len(M) + 1 BY <1>4, SMT
    <2>2. /\ Len(N) = Len(M) + 1
          /\ \A j \in 1 .. Len(M) + 1 :
                N[j] = IF j < i + 1 THEN M[j] ELSE IF j = i + 1 THEN level ELSE M[j - 1]
      <3>1. M \in Seq(Levels) /\ level \in Levels BY <1>1, <1>3
      <3> HIDE DEF L, M, level, price, size, w, r
      <3>2. HasInserted(N, M, i + 1, level) BY <3>1, <2>1, InsertAtHas, Zenon
      <3> HIDE DEF N
      <3> QED BY <3>2 DEF HasInserted
    <2> HIDE DEF N, M, level
    <2> QED BY <2>2, <1>4
  <1>9. r.levels = N BY <1>6, <1>7
  <1> HIDE DEF N, r
  <1>10. \A j \in 1 .. i + 1 : N[j] = L[j]
    <2> TAKE j \in 1 .. i + 1
    <2>1. CASE j = i + 1
      <3>1. ~(i + 1 < i + 1) BY SMT
      <3> QED BY <2>1, <3>1, <1>8
    <2>2. CASE j # i + 1
      <3>1. j < i + 1 /\ j \in 1 .. i BY <2>2, SMT
      <3> QED BY <3>1, <1>4, <1>8
    <2> QED BY <2>1, <2>2
  <1>11. Begins(r, L, i + 1) BY <1>8, <1>9, <1>10 DEF Begins
  <1> QED BY <1>3, <1>11 DEF r

LevelFrame(level, buy) ==
    Frame("sequenced_data", [type |-> "quote", buy |-> buy, price |-> level.price,
                             size |-> level.size])

LoginFrame == Frame("login_accepted", 1)
BeginFrame == Frame("sequenced_data", [type |-> "begin_snapshot"])
EndFrame(next) == Frame("sequenced_data", [type |-> "end_snapshot", next |-> next])
LastFrame == Frame("end_of_session", 0)

\* How many frames the session of a book has.
FramesOf(b) == Len(b.bids.levels) + Len(b.asks.levels) + 4

LEMMA SidesOfABook ==
    ASSUME NEW b \in Book
    PROVE  /\ b.bids \in Sides(TRUE) /\ b.asks \in Sides(FALSE)
           /\ b.bids.levels \in Seq(Levels) /\ b.asks.levels \in Seq(Levels)
           /\ Len(b.bids.levels) \in Nat /\ Len(b.asks.levels) \in Nat
           /\ b.trades \in Nat /\ FramesOf(b) \in Nat
PROOF
  <1>1. b.bids \in Sides(TRUE) /\ b.asks \in Sides(FALSE) /\ b.trades \in Nat
        BY DEF Book, BidSides, AskSides
  <1>2. b.bids.levels \in Seq(Levels) /\ b.asks.levels \in Seq(Levels) BY <1>1 DEF Sides
  <1> DEFINE p == Len(b.bids.levels)
             q == Len(b.asks.levels)
  <1>3. p \in Nat /\ q \in Nat BY <1>2
  <1>4. FramesOf(b) = p + q + 4 BY DEF FramesOf
  <1> HIDE DEF p, q
  <1>5. FramesOf(b) \in Nat BY <1>3, <1>4, SMT
  <1> QED BY <1>1, <1>2, <1>3, <1>5 DEF p, q

LEMMA FunctionIsASequence ==
    ASSUME NEW S, NEW n \in Nat, NEW f \in [1 .. n -> S]
    PROVE  f \in Seq(S) /\ Len(f) = n /\ DOMAIN f = 1 .. n
PROOF OBVIOUS

LEMMA Concatenated ==
    ASSUME NEW S, NEW a \in Seq(S), NEW b \in Seq(S)
    PROVE  /\ a \o b \in Seq(S)
           /\ \A m, n : Len(a) = m /\ Len(b) = n =>
                 /\ Len(a \o b) = m + n
                 /\ \A i \in 1 .. m + n : (a \o b)[i] = IF i <= m THEN a[i] ELSE b[i - m]
PROOF
  <1>1. /\ a \o b \in Seq(S) /\ Len(a \o b) = Len(a) + Len(b)
        /\ \A i \in 1 .. Len(a) + Len(b) :
              (a \o b)[i] = IF i <= Len(a) THEN a[i] ELSE b[i - Len(a)]
        BY ConcatProperties
  <1> QED BY <1>1

SessionFrames(b, next) == {Serve(b, next)[i] : i \in 1 .. FramesOf(b)}

\* serve(): what each frame of the session is.
LEMMA FramesInOrder ==
    ASSUME NEW b \in Book, NEW next
    PROVE  LET F == Serve(b, next)
               p == Len(b.bids.levels)
               q == Len(b.asks.levels)
           IN  /\ F \in Seq(SessionFrames(b, next)) /\ Len(F) = FramesOf(b)
               /\ F[1] = LoginFrame /\ F[2] = BeginFrame
               /\ \A i \in 1 .. p : F[i + 2] = LevelFrame(b.bids.levels[i], TRUE)
               /\ \A i \in 1 .. q : F[i + 2 + p] = LevelFrame(b.asks.levels[i], FALSE)
               /\ F[p + q + 3] = EndFrame(next) /\ F[p + q + 4] = LastFrame
PROOF
  <1> DEFINE F == Serve(b, next)
             L == b.bids.levels
             M == b.asks.levels
             p == Len(L)
             q == Len(M)
             bids == LevelFrames(L, TRUE)
             asks == LevelFrames(M, FALSE)
             front == <<LoginFrame, BeginFrame>>
             back == <<EndFrame(next), LastFrame>>
             S == {LoginFrame, BeginFrame, EndFrame(next), LastFrame}
                     \cup {LevelFrame(L[i], TRUE) : i \in 1 .. p}
                     \cup {LevelFrame(M[i], FALSE) : i \in 1 .. q}
  <1>1. L \in Seq(Levels) /\ M \in Seq(Levels) /\ p \in Nat /\ q \in Nat
        /\ DOMAIN L = 1 .. p /\ DOMAIN M = 1 .. q
    <2>1. L \in Seq(Levels) /\ M \in Seq(Levels) BY SidesOfABook
    <2> HIDE DEF L, M
    <2> QED BY <2>1
  <1>2. F = ((front \o bids) \o asks) \o back
        BY Zenon DEF Serve, LoginFrame, BeginFrame, EndFrame, LastFrame
  <1>3. bids \in Seq(S) /\ Len(bids) = p /\ \A i \in 1 .. p : bids[i] = LevelFrame(L[i], TRUE)
    <2>1. bids = [i \in 1 .. p |-> LevelFrame(L[i], TRUE)]
          BY <1>1, Zenon DEF LevelFrames, LevelFrame
    <2>2. \A i \in 1 .. p : LevelFrame(L[i], TRUE) \in S OBVIOUS
    <2> HIDE DEF S, bids, p
    <2>3. bids \in [1 .. p -> S] BY <2>1, <2>2
    <2>4. \A i \in 1 .. p : bids[i] = LevelFrame(L[i], TRUE) BY <2>1
    <2> QED BY <2>3, <2>4, <1>1, FunctionIsASequence
  <1>4. asks \in Seq(S) /\ Len(asks) = q /\ \A i \in 1 .. q : asks[i] = LevelFrame(M[i], FALSE)
    <2>1. asks = [i \in 1 .. q |-> LevelFrame(M[i], FALSE)]
          BY <1>1, Zenon DEF LevelFrames, LevelFrame
    <2>2. \A i \in 1 .. q : LevelFrame(M[i], FALSE) \in S OBVIOUS
    <2> HIDE DEF S, asks, q
    <2>3. asks \in [1 .. q -> S] BY <2>1, <2>2
    <2>4. \A i \in 1 .. q : asks[i] = LevelFrame(M[i], FALSE) BY <2>1
    <2> QED BY <2>3, <2>4, <1>1, FunctionIsASequence
  <1>5. /\ front \in Seq(S) /\ Len(front) = 2 /\ front[1] = LoginFrame /\ front[2] = BeginFrame
        /\ back \in Seq(S) /\ Len(back) = 2 /\ back[1] = EndFrame(next) /\ back[2] = LastFrame
    <2>1. LoginFrame \in S /\ BeginFrame \in S /\ EndFrame(next) \in S /\ LastFrame \in S
          OBVIOUS
    <2> HIDE DEF S
    <2> QED BY <2>1, SMT
  <1>a. FramesOf(b) = p + q + 4 BY DEF FramesOf
  <1> HIDE DEF F, bids, asks, front, back, S, p, q
  <1>6. /\ front \o bids \in Seq(S) /\ Len(front \o bids) = 2 + p
        /\ \A i \in 1 .. 2 + p :
              (front \o bids)[i] = IF i <= 2 THEN front[i] ELSE bids[i - 2]
    <2>1. front \in Seq(S) /\ Len(front) = 2 BY <1>5
    <2>2. bids \in Seq(S) /\ Len(bids) = p BY <1>3
    <2>9. /\ front \o bids \in Seq(S)
          /\ Len(front \o bids) = Len(front) + Len(bids)
          /\ \A i \in 1 .. Len(front) + Len(bids) :
                (front \o bids)[i] = IF i <= Len(front) THEN front[i] ELSE bids[i - Len(front)]
          BY <2>1, <2>2, ConcatProperties
    <2> QED BY <2>1, <2>2, <2>9
  <1> DEFINE one == front \o bids
             two == one \o asks
  <1>7. two = one \o asks /\ one = front \o bids OBVIOUS
  <1> HIDE DEF one
  <1>8. /\ two \in Seq(S) /\ Len(two) = (2 + p) + q
        /\ \A i \in 1 .. (2 + p) + q :
              two[i] = IF i <= 2 + p THEN one[i] ELSE asks[i - (2 + p)]
    <2>1. one \in Seq(S) /\ Len(one) = 2 + p BY <1>6, <1>7
    <2>2. asks \in Seq(S) /\ Len(asks) = q BY <1>4
    <2>9. /\ one \o asks \in Seq(S)
          /\ \A m, n : Len(one) = m /\ Len(asks) = n =>
                /\ Len(one \o asks) = m + n
                /\ \A i \in 1 .. m + n :
                      (one \o asks)[i] = IF i <= m THEN one[i] ELSE asks[i - m]
          BY <2>1, <2>2, Concatenated
    <2> QED BY <2>1, <2>2, <1>7, <2>9
  <1> HIDE DEF two
  <1>9. /\ F \in Seq(S) /\ Len(F) = ((2 + p) + q) + 2
        /\ \A i \in 1 .. ((2 + p) + q) + 2 :
              F[i] = IF i <= (2 + p) + q THEN two[i] ELSE back[i - ((2 + p) + q)]
    <2>1. two \in Seq(S) /\ Len(two) = (2 + p) + q BY <1>8
    <2>2. back \in Seq(S) /\ Len(back) = 2 BY <1>5
    <2>3. F = two \o back BY <1>2, <1>7
    <2>9. /\ two \o back \in Seq(S)
          /\ Len(two \o back) = Len(two) + Len(back)
          /\ \A i \in 1 .. Len(two) + Len(back) :
                (two \o back)[i] = IF i <= Len(two) THEN two[i] ELSE back[i - Len(two)]
          BY <2>1, <2>2, ConcatProperties
    <2> QED BY <2>1, <2>2, <2>3, <2>9
  <1>10. Len(F) = FramesOf(b) BY <1>1, <1>9, <1>a, SMT
  <1>11. F \in Seq(SessionFrames(b, next))
    <2> DEFINE T == {F[i] : i \in 1 .. FramesOf(b)}
    <2>1. F = [i \in 1 .. FramesOf(b) |-> F[i]] BY <1>9, <1>10
    <2>2. \A i \in 1 .. FramesOf(b) : F[i] \in T OBVIOUS
    <2>3. FramesOf(b) \in Nat BY SidesOfABook
    <2> HIDE DEF T
    <2>4. F \in [1 .. FramesOf(b) -> T] BY <2>1, <2>2
    <2>5. F \in Seq(T) BY <2>3, <2>4
    <2>6. SessionFrames(b, next) = T BY DEF SessionFrames, F, T
    <2> QED BY <2>5, <2>6
  <1>12. F[1] = LoginFrame /\ F[2] = BeginFrame
    <2>1. /\ 1 \in 1 .. ((2 + p) + q) + 2 /\ 1 <= (2 + p) + q /\ 1 \in 1 .. (2 + p) + q
          /\ 1 <= 2 + p /\ 1 \in 1 .. 2 + p /\ 1 <= 2
          /\ 2 \in 1 .. ((2 + p) + q) + 2 /\ 2 <= (2 + p) + q /\ 2 \in 1 .. (2 + p) + q
          /\ 2 <= 2 + p /\ 2 \in 1 .. 2 + p /\ 2 <= 2
          BY <1>1, SMT
    <2>2. F[1] = two[1] /\ F[2] = two[2] BY <2>1, <1>9
    <2>3. two[1] = one[1] /\ two[2] = one[2] BY <2>1, <1>8
    <2>4. one[1] = front[1] /\ one[2] = front[2] BY <2>1, <1>6, <1>7
    <2> QED BY <2>2, <2>3, <2>4, <1>5
  <1>13. ASSUME NEW i \in 1 .. p PROVE F[i + 2] = LevelFrame(L[i], TRUE)
    <2>1. /\ i + 2 \in 1 .. ((2 + p) + q) + 2 /\ i + 2 <= (2 + p) + q
          /\ i + 2 \in 1 .. (2 + p) + q /\ i + 2 <= 2 + p /\ i + 2 \in 1 .. 2 + p
          /\ ~(i + 2 <= 2) /\ (i + 2) - 2 = i
          BY <1>1, SMT
    <2>2. F[i + 2] = bids[(i + 2) - 2] BY <2>1, <1>6, <1>7, <1>8, <1>9
    <2> QED BY <2>1, <2>2, <1>3
  <1>14. ASSUME NEW i \in 1 .. q PROVE F[i + 2 + p] = LevelFrame(M[i], FALSE)
    <2>1. /\ i + 2 + p \in 1 .. ((2 + p) + q) + 2 /\ i + 2 + p <= (2 + p) + q
          /\ i + 2 + p \in 1 .. (2 + p) + q /\ ~(i + 2 + p <= 2 + p)
          /\ (i + 2 + p) - (2 + p) = i
          BY <1>1, SMT
    <2>2. F[i + 2 + p] = asks[(i + 2 + p) - (2 + p)] BY <2>1, <1>8, <1>9
    <2> QED BY <2>1, <2>2, <1>4
  <1>15. F[p + q + 3] = EndFrame(next) /\ F[p + q + 4] = LastFrame
    <2>1. /\ p + q + 3 \in 1 .. ((2 + p) + q) + 2 /\ ~(p + q + 3 <= (2 + p) + q)
          /\ (p + q + 3) - ((2 + p) + q) = 1
          /\ p + q + 4 \in 1 .. ((2 + p) + q) + 2 /\ ~(p + q + 4 <= (2 + p) + q)
          /\ (p + q + 4) - ((2 + p) + q) = 2
          BY <1>1, SMT
    <2>2. /\ F[p + q + 3] = back[(p + q + 3) - ((2 + p) + q)]
          /\ F[p + q + 4] = back[(p + q + 4) - ((2 + p) + q)]
          BY <2>1, <1>9
    <2> QED BY <2>1, <2>2, <1>5
  <1> QED BY <1>10, <1>11, <1>12, <1>13, <1>14, <1>15 DEF F, p, q

\* The reader of a session is a record of four fields.
Readers == [number : Nat, book : Book, resume : Nat, broken : BOOLEAN]

\* What run_glimpse_session makes of a frame that carries no quote.
LEMMA ReadArms ==
    ASSUME NEW rd \in Readers
    PROVE  /\ ReadFrame(rd, LoginFrame) =
                 [number |-> 1, book |-> rd.book, resume |-> rd.resume, broken |-> rd.broken]
           /\ ReadFrame(rd, LastFrame) = rd
           /\ rd.number > 0 =>
                 /\ ReadFrame(rd, BeginFrame) =
                       [number |-> rd.number + 1, book |-> rd.book, resume |-> rd.resume,
                        broken |-> rd.broken]
                 /\ \A next : ReadFrame(rd, EndFrame(next)) =
                       [number |-> rd.number + 1, book |-> rd.book, resume |-> next,
                        broken |-> rd.broken]
                 /\ \A m \in FeedMessages : ReadFrame(rd, Frame("sequenced_data", m)) =
                       [number |-> rd.number + 1, book |-> ApplyMessage(rd.book, m),
                        resume |-> rd.resume, broken |-> rd.broken]
PROOF
  <1> DEFINE number == rd.number
             book == rd.book
             resume == rd.resume
             broken == rd.broken
             more == [number |-> number + 1, book |-> book, resume |-> resume,
                      broken |-> broken]
  <1>1. /\ rd = [number |-> number, book |-> book, resume |-> resume, broken |-> broken]
        /\ number \in Nat
        BY DEF Readers
  <1> DEFINE numbered(type) == [rd EXCEPT !.number =
                                   IF AdvancesSequence(type) THEN number + 1 ELSE number]
  <1>2. ASSUME NEW type, NEW body
        PROVE
           /\ type = "login_accepted" =>
                 ReadFrame(rd, Frame(type, body)) = [rd EXCEPT !.number = body]
           /\ type = "end_of_session" => ReadFrame(rd, Frame(type, body)) = rd
           /\ (type = "sequenced_data" /\ number > 0) =>
                 ReadFrame(rd, Frame(type, body)) =
                    IF body.type = "end_snapshot" THEN [numbered(type) EXCEPT !.resume = body.next]
                    ELSE [numbered(type) EXCEPT !.book = ApplyMessage(@, body)]
    <2> DEFINE frame == Frame(type, body)
               read == ReadFrame(rd, frame)
               logged == [rd EXCEPT !.number = body]
               failed == [rd EXCEPT !.broken = TRUE]
               ended == [numbered(type) EXCEPT !.resume = body.next]
               applied == [numbered(type) EXCEPT !.book = ApplyMessage(@, body)]
               final == body.type = "end_snapshot"
    <2>1. frame.type = type /\ frame.body = body BY DEF Frame
    <2> HIDE DEF frame
    <2>2. read =
          CASE frame.type = "login_accepted" -> [rd EXCEPT !.number = frame.body]
            [] frame.type = "end_of_session" -> rd
            [] frame.type = "sequenced_data" /\ number = 0 -> [rd EXCEPT !.broken = TRUE]
            [] frame.type = "sequenced_data" /\ number > 0
               /\ frame.body.type = "end_snapshot" ->
                  [numbered(frame.type) EXCEPT !.resume = frame.body.next]
            [] OTHER -> [numbered(frame.type) EXCEPT !.book = ApplyMessage(@, frame.body)]
          BY Zenon DEF ReadFrame
    <2>3. number > 0 => number # 0 BY <1>1, SMT
    <2> HIDE DEF numbered, number, read
    <2>4. read = CASE type = "login_accepted" -> logged
                   [] type = "end_of_session" -> rd
                   [] type = "sequenced_data" /\ number = 0 -> failed
                   [] type = "sequenced_data" /\ number > 0 /\ final -> ended
                   [] OTHER -> applied
          BY <2>1, <2>2, Zenon
    <2> HIDE DEF logged, failed, ended, applied, final
    <2>5. type = "login_accepted" => read = logged BY ONLY <2>4
    <2>6. type = "end_of_session" => read = rd BY ONLY <2>4
    <2>7. (type = "sequenced_data" /\ number > 0) => read = IF final THEN ended ELSE applied
          BY ONLY <2>3, <2>4
    <2> QED BY <2>5, <2>6, <2>7, Zenon DEF read, frame, logged, ended, applied, final
  <1>3. numbered("sequenced_data") = more
    <2>1. AdvancesSequence("sequenced_data") BY DEF AdvancesSequence
    <2> HIDE DEF number, book, resume, broken
    <2> QED BY <1>1, <2>1
  <1> HIDE DEF numbered, number, book, resume, broken
  <1>4. /\ \A x : [rd EXCEPT !.number = x] =
              [number |-> x, book |-> book, resume |-> resume, broken |-> broken]
        /\ \A x : [more EXCEPT !.resume = x] =
              [number |-> number + 1, book |-> book, resume |-> x, broken |-> broken]
        BY <1>1
  <1>5. \A m : [more EXCEPT !.book = ApplyMessage(@, m)] =
              [number |-> number + 1, book |-> ApplyMessage(book, m), resume |-> resume,
               broken |-> broken]
        OBVIOUS
  <1> HIDE DEF more
  <1>6. ReadFrame(rd, LoginFrame) =
           [number |-> 1, book |-> book, resume |-> resume, broken |-> broken]
    <2>1. ReadFrame(rd, Frame("login_accepted", 1)) = [rd EXCEPT !.number = 1] BY <1>2, Zenon
    <2> QED BY <2>1, <1>4, Zenon DEF LoginFrame
  <1>7. ReadFrame(rd, LastFrame) = rd BY <1>2, Zenon DEF LastFrame
  <1>8. ASSUME number > 0, NEW body
        PROVE  ReadFrame(rd, Frame("sequenced_data", body)) =
                  IF body.type = "end_snapshot" THEN [more EXCEPT !.resume = body.next]
                  ELSE [more EXCEPT !.book = ApplyMessage(@, body)]
        BY <1>2, <1>3, <1>8, Zenon
  <1>9. ASSUME number > 0, NEW next
        PROVE  ReadFrame(rd, EndFrame(next)) =
                  [number |-> number + 1, book |-> book, resume |-> next, broken |-> broken]
    <2> DEFINE body == [type |-> "end_snapshot", next |-> next]
    <2>1. body.type = "end_snapshot" /\ body.next = next OBVIOUS
    <2>2. EndFrame(next) = Frame("sequenced_data", body) BY DEF EndFrame
    <2> HIDE DEF body
    <2>3. ReadFrame(rd, EndFrame(next)) = [more EXCEPT !.resume = next]
          BY <1>8, <1>9, <2>1, <2>2
    <2> QED BY <2>3, <1>4, Zenon
  <1>10. ASSUME number > 0
         PROVE  ReadFrame(rd, BeginFrame) =
                   [number |-> number + 1, book |-> book, resume |-> resume, broken |-> broken]
    <2> DEFINE body == [type |-> "begin_snapshot"]
    <2>1. body.type = "begin_snapshot" OBVIOUS
    <2>2. BeginFrame = Frame("sequenced_data", body) BY DEF BeginFrame
    <2> HIDE DEF body
    <2>3. ApplyMessage(book, body) = book BY <2>1 DEF ApplyMessage
    <2>4. ReadFrame(rd, BeginFrame) = [more EXCEPT !.book = ApplyMessage(@, body)]
          BY <1>8, <1>10, <2>1, <2>2
    <2> QED BY <2>3, <2>4, <1>5
  <1>11. ASSUME number > 0, NEW m \in FeedMessages
         PROVE  ReadFrame(rd, Frame("sequenced_data", m)) =
                   [number |-> number + 1, book |-> ApplyMessage(book, m), resume |-> resume,
                    broken |-> broken]
    <2>1. m.type # "end_snapshot" BY MessageKinds
    <2>2. ReadFrame(rd, Frame("sequenced_data", m)) = [more EXCEPT !.book = ApplyMessage(@, m)]
          BY <1>8, <1>11, <2>1
    <2> QED BY <2>2, <1>5, Zenon
  <1> QED BY <1>6, <1>7, <1>9, <1>10, <1>11 DEF number, book, resume, broken

\* How many of n levels are there after x of their frames.
Got(x, n) == IF x <= 0 THEN 0 ELSE IF x <= n THEN x ELSE n

\* The reader after k frames of the snapshot of a book, taken before message next.
ReaderAt(rd, k, b, next) ==
    /\ rd \in Readers /\ rd.broken = FALSE /\ rd.book.trades = 0
    /\ rd.number = (IF k = FramesOf(b) THEN k - 1 ELSE k)
    /\ rd.resume = (IF k + 1 >= FramesOf(b) THEN next ELSE 0)
    /\ Begins(rd.book.bids, b.bids.levels, Got(k - 2, Len(b.bids.levels)))
    /\ Begins(rd.book.asks, b.asks.levels,
              Got(k - 2 - Len(b.bids.levels), Len(b.asks.levels)))

LEMMA ReaderStarts ==
    ASSUME NEW b \in Book, NEW next \in Nat
    PROVE  ReaderAt(NewReader, 0, b, next)
PROOF
  <1> DEFINE p == Len(b.bids.levels)
             q == Len(b.asks.levels)
  <1>1. p \in Nat /\ q \in Nat BY SidesOfABook
  <1>2. FramesOf(b) = p + q + 4 BY DEF FramesOf
  <1>3. NewReader \in Readers BY EmptyIsABook DEF NewReader, Readers
  <1>4. /\ NewReader.broken = FALSE /\ NewReader.number = 0 /\ NewReader.resume = 0
        /\ NewReader.book = EmptyBook
        BY DEF NewReader
  <1>5. /\ EmptyBook.trades = 0 /\ EmptyBook.bids.levels = <<>> /\ EmptyBook.asks.levels = <<>>
        BY DEF EmptyBook, EmptySide
  <1> HIDE DEF p, q
  <1>6. Got(0 - 2, p) = 0 /\ Got(0 - 2 - p, q) = 0 BY <1>1, SMT DEF Got
  <1>7. 0 # FramesOf(b) /\ ~(0 + 1 >= FramesOf(b)) BY <1>1, <1>2, SMT
  <1>8. Len(<<>>) = 0 /\ 1 .. 0 = {} BY SMT
  <1>9. /\ Begins(NewReader.book.bids, b.bids.levels, 0)
        /\ Begins(NewReader.book.asks, b.asks.levels, 0)
        BY <1>4, <1>5, <1>8 DEF Begins
  <1> QED BY <1>3, <1>4, <1>5, <1>6, <1>7, <1>9 DEF ReaderAt, p, q

LEMMA LevelMessage ==
    ASSUME NEW buy \in BOOLEAN, NEW level, level.price \in Int, level.size \in Nat
    PROVE  \E m \in FeedMessages :
              /\ LevelFrame(level, buy) = Frame("sequenced_data", m)
              /\ m.type = "quote" /\ m.buy = buy /\ m.price = level.price /\ m.size = level.size
PROOF
  <1> DEFINE m == [type |-> "quote", buy |-> buy, price |-> level.price, size |-> level.size]
  <1>1. m \in FeedMessages BY DEF FeedMessages
  <1>2. /\ m.type = "quote" /\ m.buy = buy /\ m.price = level.price /\ m.size = level.size
        OBVIOUS
  <1>3. LevelFrame(level, buy) = Frame("sequenced_data", m) BY Zenon DEF LevelFrame
  <1> HIDE DEF m
  <1> QED BY <1>1, <1>2, <1>3

\* Each frame brings the reader one level, or the position, nearer to the book.
LEMMA ReadsOn ==
    ASSUME NEW b \in Book, NEW next \in Nat, NEW k \in Nat, k < FramesOf(b),
           NEW rd, ReaderAt(rd, k, b, next)
    PROVE  ReaderAt(ReadFrame(rd, Serve(b, next)[k + 1]), k + 1, b, next)
PROOF
  <1> DEFINE L == b.bids.levels
             M == b.asks.levels
             p == Len(L)
             q == Len(M)
             n == FramesOf(b)
             F == Serve(b, next)
             book == rd.book
             new == ReadFrame(rd, F[k + 1])
  <1>1. p \in Nat /\ q \in Nat /\ n = p + q + 4 /\ k < n BY SidesOfABook DEF FramesOf
  <1>2. /\ rd \in Readers /\ rd.broken = FALSE /\ book.trades = 0
        /\ rd.number = (IF k = n THEN k - 1 ELSE k)
        /\ rd.resume = (IF k + 1 >= n THEN next ELSE 0)
        /\ Begins(book.bids, L, Got(k - 2, p)) /\ Begins(book.asks, M, Got(k - 2 - p, q))
        BY DEF ReaderAt
  <1>3. /\ F[1] = LoginFrame /\ F[2] = BeginFrame
        /\ \A i \in 1 .. p : F[i + 2] = LevelFrame(L[i], TRUE)
        /\ \A i \in 1 .. q : F[i + 2 + p] = LevelFrame(M[i], FALSE)
        /\ F[p + q + 3] = EndFrame(next) /\ F[p + q + 4] = LastFrame
        BY FramesInOrder
  <1>4. /\ book \in Book /\ rd.number \in Nat /\ rd.resume \in Nat
        /\ rd = [number |-> rd.number, book |-> book, resume |-> rd.resume,
                 broken |-> rd.broken]
        BY <1>2 DEF Readers
  <1>5. ASSUME NEW r \in Readers, r.broken = FALSE, r.book.trades = 0,
               r.number = (IF k + 1 = n THEN (k + 1) - 1 ELSE k + 1),
               r.resume = (IF (k + 1) + 1 >= n THEN next ELSE 0),
               Begins(r.book.bids, L, Got((k + 1) - 2, p)),
               Begins(r.book.asks, M, Got((k + 1) - 2 - p, q))
        PROVE  ReaderAt(r, k + 1, b, next)
        BY <1>5 DEF ReaderAt
  <1>6. /\ b.bids \in Sides(TRUE) /\ b.asks \in Sides(FALSE)
        /\ book.bids \in Sides(TRUE) /\ book.asks \in Sides(FALSE)
        BY <1>4, SidesOfABook
  <1>g. \A x, m \in Int : /\ x <= 0 => Got(x, m) = 0
                          /\ 0 <= x /\ x <= m => Got(x, m) = x
                          /\ 0 <= m /\ m <= x => Got(x, m) = m
        BY SMT DEF Got
  <1>f. /\ new = ReadFrame(rd, F[k + 1]) /\ p = Len(b.bids.levels) /\ q = Len(b.asks.levels)
        OBVIOUS
  <1> HIDE DEF L, M, p, q, n, F, book, new
  <1>n. rd.number = k /\ (k > 0 => rd.number > 0)
    <2>1. k # n BY <1>1, SMT
    <2>2. rd.number = (IF k = n THEN k - 1 ELSE k) BY <1>2
    <2>3. rd.number = k BY <2>1, <2>2, Zenon
    <2> QED BY <2>3, <1>1, Zenon
  <1>7. CASE k = 0
    <2>1. /\ k + 1 = 1 /\ k + 1 # n /\ ~((k + 1) + 1 >= n) /\ ~(k + 1 >= n)
          /\ k - 2 <= 0 /\ (k + 1) - 2 <= 0 /\ k - 2 - p <= 0 /\ (k + 1) - 2 - p <= 0
          /\ k - 2 \in Int /\ (k + 1) - 2 \in Int /\ k - 2 - p \in Int /\ (k + 1) - 2 - p \in Int
          BY <1>1, <1>7, SMT
    <2>2. new = [number |-> 1, book |-> book, resume |-> rd.resume, broken |-> rd.broken]
      <3>1. ReadFrame(rd, LoginFrame) =
               [number |-> 1, book |-> rd.book, resume |-> rd.resume, broken |-> rd.broken]
            BY <1>2, ReadArms
      <3>2. new = ReadFrame(rd, LoginFrame) BY <2>1, <1>3, <1>f
      <3> QED BY <3>1, <3>2 DEF book
    <2>3. new \in Readers /\ new.broken = FALSE /\ new.book = book /\ new.number = k + 1
          /\ new.resume = 0
          BY <2>1, <2>2, <1>2, <1>4 DEF Readers
    <2>4. /\ Got(k - 2, p) = Got((k + 1) - 2, p) /\ Got(k - 2 - p, q) = Got((k + 1) - 2 - p, q)
          BY <2>1, <1>1, <1>g
    <2>5. ReaderAt(new, k + 1, b, next) BY <2>1, <2>3, <2>4, <1>2, <1>5
    <2> QED BY <2>5 DEF new, F
  <1>8. CASE k = 1
    <2>1. /\ k + 1 = 2 /\ k + 1 # n /\ ~((k + 1) + 1 >= n) /\ ~(k + 1 >= n) /\ k > 0
          /\ k - 2 <= 0 /\ (k + 1) - 2 <= 0 /\ k - 2 - p <= 0 /\ (k + 1) - 2 - p <= 0
          /\ k - 2 \in Int /\ (k + 1) - 2 \in Int /\ k - 2 - p \in Int /\ (k + 1) - 2 - p \in Int
          BY <1>1, <1>8, SMT
    <2>2. new = [number |-> rd.number + 1, book |-> book, resume |-> rd.resume,
                 broken |-> rd.broken]
      <3>1. rd \in Readers /\ rd.number > 0 BY <2>1, <1>2, <1>n
      <3>2. ReadFrame(rd, BeginFrame) =
               [number |-> rd.number + 1, book |-> rd.book, resume |-> rd.resume,
                broken |-> rd.broken]
            BY <3>1, ReadArms
      <3>3. new = ReadFrame(rd, BeginFrame) BY <2>1, <1>3, <1>f
      <3> QED BY <3>2, <3>3 DEF book
    <2>3. new \in Readers /\ new.broken = FALSE /\ new.book = book /\ new.number = k + 1
          /\ new.resume = 0
          BY <2>1, <2>2, <1>2, <1>4, <1>n DEF Readers
    <2>4. /\ Got(k - 2, p) = Got((k + 1) - 2, p) /\ Got(k - 2 - p, q) = Got((k + 1) - 2 - p, q)
          BY <2>1, <1>1, <1>g
    <2>5. ReaderAt(new, k + 1, b, next) BY <2>1, <2>3, <2>4, <1>2, <1>5
    <2> QED BY <2>5 DEF new, F
  <1>9. CASE 2 <= k /\ k < p + 2
    <2> DEFINE i == k - 2
               level == L[i + 1]
    <2>1. /\ i \in Nat /\ i < p /\ i + 1 \in 1 .. p /\ (i + 1) + 2 = k + 1 /\ (k + 1) - 2 = i + 1
          /\ k + 1 # n /\ ~((k + 1) + 1 >= n) /\ ~(k + 1 >= n) /\ k > 0
          /\ k - 2 - p <= 0 /\ (k + 1) - 2 - p <= 0
          /\ k - 2 - p \in Int /\ (k + 1) - 2 - p \in Int
          /\ 0 <= i /\ i <= p /\ 0 <= i + 1 /\ i + 1 <= p /\ i \in Int /\ i + 1 \in Int
          BY <1>1, <1>9, SMT
    <2>2. /\ Got(k - 2, p) = i /\ Got((k + 1) - 2, p) = i + 1
          /\ Got(k - 2 - p, q) = Got((k + 1) - 2 - p, q)
          BY <2>1, <1>1, <1>g
    <2> HIDE DEF i
    <2>3. /\ level.price \in Int /\ level.size \in Nat
          /\ Begins(ApplyLevel(book.bids, TRUE, level.price, level.size), L, i + 1)
      <3>1. i < Len(b.bids.levels) /\ Begins(book.bids, b.bids.levels, i)
            BY <2>1, <2>2, <1>2, <1>f DEF L
      <3>2. /\ b.bids.levels[i + 1].price \in Int /\ b.bids.levels[i + 1].size \in Nat
            /\ Begins(ApplyLevel(book.bids, TRUE, b.bids.levels[i + 1].price,
                                 b.bids.levels[i + 1].size), b.bids.levels, i + 1)
            BY <2>1, <3>1, <1>6, NextLevelFits
      <3> QED BY <3>2 DEF L
    <2> HIDE DEF level
    <2>4. PICK m \in FeedMessages :
             /\ LevelFrame(level, TRUE) = Frame("sequenced_data", m)
             /\ m.type = "quote" /\ m.buy = TRUE /\ m.price = level.price /\ m.size = level.size
          BY <2>3, LevelMessage
    <2>5. F[k + 1] = Frame("sequenced_data", m) BY <2>1, <2>4, <1>3 DEF level
    <2>6. new = [number |-> rd.number + 1, book |-> ApplyMessage(book, m),
                 resume |-> rd.resume, broken |-> rd.broken]
      <3>1. rd \in Readers /\ rd.number > 0 BY <2>1, <1>2, <1>n
      <3>2. ReadFrame(rd, Frame("sequenced_data", m)) =
               [number |-> rd.number + 1, book |-> ApplyMessage(rd.book, m),
                resume |-> rd.resume, broken |-> rd.broken]
            BY <3>1, ReadArms
      <3>3. new = ReadFrame(rd, Frame("sequenced_data", m)) BY <2>5, <1>f
      <3> QED BY <3>2, <3>3 DEF book
    <2>7. ApplyMessage(book, m) \in Book BY <1>4, BookStays
    <2>8. /\ ApplyMessage(book, m).bids = ApplyLevel(book.bids, TRUE, level.price, level.size)
          /\ ApplyMessage(book, m).asks = book.asks
          /\ ApplyMessage(book, m).trades = book.trades
      <3>1. IsBid(m) BY <2>4 DEF IsBid, IsQuote
      <3>2. NewBids(book, m) = ApplyLevel(book.bids, TRUE, level.price, level.size)
            BY <2>4 DEF NewBids
      <3> QED BY <3>1, <3>2, <1>4, MessageFields
    <2> DEFINE after == ApplyMessage(book, m)
    <2> HIDE DEF after
    <2>9. new \in Readers /\ new.broken = FALSE /\ new.book = after /\ new.number = k + 1
          /\ new.resume = 0
          BY <2>1, <2>6, <2>7, <1>2, <1>4, <1>n DEF Readers, after
    <2>10. /\ Begins(after.bids, L, Got((k + 1) - 2, p))
           /\ Begins(after.asks, M, Got((k + 1) - 2 - p, q)) /\ after.trades = 0
          BY <2>2, <2>3, <2>8, <1>2 DEF after
    <2>11. ReaderAt(new, k + 1, b, next) BY <2>1, <2>9, <2>10, <1>5
    <2> QED BY <2>11 DEF new, F
  <1>10. CASE p + 2 <= k /\ k < p + q + 2
    <2> DEFINE i == k - 2 - p
               level == M[i + 1]
    <2>1. /\ i \in Nat /\ i < q /\ i + 1 \in 1 .. q /\ (i + 1) + 2 + p = k + 1
          /\ (k + 1) - 2 - p = i + 1
          /\ k + 1 # n /\ ~((k + 1) + 1 >= n) /\ ~(k + 1 >= n) /\ k > 0
          /\ p <= k - 2 /\ p <= (k + 1) - 2 /\ 0 <= p
          /\ k - 2 \in Int /\ (k + 1) - 2 \in Int
          /\ 0 <= i /\ i <= q /\ 0 <= i + 1 /\ i + 1 <= q /\ i \in Int /\ i + 1 \in Int
          BY <1>1, <1>10, SMT
    <2>2. /\ Got(k - 2 - p, q) = i /\ Got((k + 1) - 2 - p, q) = i + 1
          /\ Got(k - 2, p) = Got((k + 1) - 2, p)
          BY <2>1, <1>1, <1>g
    <2> HIDE DEF i
    <2>3. /\ level.price \in Int /\ level.size \in Nat
          /\ Begins(ApplyLevel(book.asks, FALSE, level.price, level.size), M, i + 1)
      <3>1. i < Len(b.asks.levels) /\ Begins(book.asks, b.asks.levels, i)
            BY <2>1, <2>2, <1>2, <1>f DEF M
      <3>2. /\ b.asks.levels[i + 1].price \in Int /\ b.asks.levels[i + 1].size \in Nat
            /\ Begins(ApplyLevel(book.asks, FALSE, b.asks.levels[i + 1].price,
                                 b.asks.levels[i + 1].size), b.asks.levels, i + 1)
            BY <2>1, <3>1, <1>6, NextLevelFits
      <3> QED BY <3>2 DEF M
    <2> HIDE DEF level
    <2>4. PICK m \in FeedMessages :
             /\ LevelFrame(level, FALSE) = Frame("sequenced_data", m)
             /\ m.type = "quote" /\ m.buy = FALSE /\ m.price = level.price
             /\ m.size = level.size
          BY <2>3, LevelMessage
    <2>5. F[k + 1] = Frame("sequenced_data", m) BY <2>1, <2>4, <1>3 DEF level
    <2>6. new = [number |-> rd.number + 1, book |-> ApplyMessage(book, m),
                 resume |-> rd.resume, broken |-> rd.broken]
      <3>1. rd \in Readers /\ rd.number > 0 BY <2>1, <1>2, <1>n
      <3>2. ReadFrame(rd, Frame("sequenced_data", m)) =
               [number |-> rd.number + 1, book |-> ApplyMessage(rd.book, m),
                resume |-> rd.resume, broken |-> rd.broken]
            BY <3>1, ReadArms
      <3>3. new = ReadFrame(rd, Frame("sequenced_data", m)) BY <2>5, <1>f
      <3> QED BY <3>2, <3>3 DEF book
    <2>7. ApplyMessage(book, m) \in Book BY <1>4, BookStays
    <2>8. /\ ApplyMessage(book, m).asks = ApplyLevel(book.asks, FALSE, level.price, level.size)
          /\ ApplyMessage(book, m).bids = book.bids
          /\ ApplyMessage(book, m).trades = book.trades
      <3>1. IsAsk(m) BY <2>4 DEF IsAsk, IsQuote
      <3>2. NewAsks(book, m) = ApplyLevel(book.asks, FALSE, level.price, level.size)
            BY <2>4 DEF NewAsks
      <3> QED BY <3>1, <3>2, <1>4, MessageFields
    <2> DEFINE after == ApplyMessage(book, m)
    <2> HIDE DEF after
    <2>9. new \in Readers /\ new.broken = FALSE /\ new.book = after /\ new.number = k + 1
          /\ new.resume = 0
          BY <2>1, <2>6, <2>7, <1>2, <1>4, <1>n DEF Readers, after
    <2>10. /\ Begins(after.bids, L, Got((k + 1) - 2, p))
           /\ Begins(after.asks, M, Got((k + 1) - 2 - p, q)) /\ after.trades = 0
          BY <2>2, <2>3, <2>8, <1>2 DEF after
    <2>11. ReaderAt(new, k + 1, b, next) BY <2>1, <2>9, <2>10, <1>5
    <2> QED BY <2>11 DEF new, F
  <1>11. CASE k = p + q + 2
    <2>1. /\ k + 1 = p + q + 3 /\ k + 1 # n /\ (k + 1) + 1 >= n /\ k > 0
          /\ p <= k - 2 /\ p <= (k + 1) - 2 /\ 0 <= p /\ 0 <= q
          /\ q <= k - 2 - p /\ q <= (k + 1) - 2 - p
          /\ k - 2 \in Int /\ (k + 1) - 2 \in Int /\ k - 2 - p \in Int /\ (k + 1) - 2 - p \in Int
          BY <1>1, <1>11, SMT
    <2>2. new = [number |-> rd.number + 1, book |-> book, resume |-> next,
                 broken |-> rd.broken]
      <3>1. rd \in Readers /\ rd.number > 0 BY <2>1, <1>2, <1>n
      <3>2. ReadFrame(rd, EndFrame(next)) =
               [number |-> rd.number + 1, book |-> rd.book, resume |-> next,
                broken |-> rd.broken]
            BY <3>1, ReadArms
      <3>3. new = ReadFrame(rd, EndFrame(next)) BY <2>1, <1>3, <1>f
      <3> QED BY <3>2, <3>3 DEF book
    <2>3. new \in Readers /\ new.broken = FALSE /\ new.book = book /\ new.number = k + 1
          /\ new.resume = next
          BY <2>1, <2>2, <1>2, <1>4, <1>n DEF Readers
    <2>4. /\ Got(k - 2, p) = Got((k + 1) - 2, p) /\ Got(k - 2 - p, q) = Got((k + 1) - 2 - p, q)
          BY <2>1, <1>1, <1>g
    <2>5. ReaderAt(new, k + 1, b, next) BY <2>1, <2>3, <2>4, <1>2, <1>5
    <2> QED BY <2>5 DEF new, F
  <1>12. CASE k = p + q + 3
    <2>1. /\ k + 1 = p + q + 4 /\ k + 1 = n /\ (k + 1) + 1 >= n /\ k + 1 >= n /\ (k + 1) - 1 = k
          /\ p <= k - 2 /\ p <= (k + 1) - 2 /\ 0 <= p /\ 0 <= q
          /\ q <= k - 2 - p /\ q <= (k + 1) - 2 - p
          /\ k - 2 \in Int /\ (k + 1) - 2 \in Int /\ k - 2 - p \in Int /\ (k + 1) - 2 - p \in Int
          BY <1>1, <1>12, SMT
    <2>2. new = rd BY <2>1, <1>2, <1>3, <1>f, ReadArms
    <2>3. /\ Got(k - 2, p) = Got((k + 1) - 2, p) /\ Got(k - 2 - p, q) = Got((k + 1) - 2 - p, q)
          BY <2>1, <1>1, <1>g
    <2>4. rd.resume = next /\ rd.number = k BY <2>1, <1>2, <1>n
    <2>5. ReaderAt(rd, k + 1, b, next) BY <2>1, <2>3, <2>4, <1>2, <1>5 DEF book
    <2> QED BY <2>2, <2>5 DEF new, F
  <1>13. \/ k = 0 \/ k = 1 \/ (2 <= k /\ k < p + 2) \/ (p + 2 <= k /\ k < p + q + 2)
         \/ k = p + q + 2 \/ k = p + q + 3
         BY <1>1, SMT
  <1> QED BY <1>7, <1>8, <1>9, <1>10, <1>11, <1>12, <1>13

-----------------------------------------------------------------------------
(* Following the feed from the position the snapshot gave.                   *)

\* What side::apply() leaves of the levels; the counter has no say in it.
LevelsAfter(levels, buy, price, size) ==
    LET w == PositionOf(levels, buy, price)
        level == [price |-> price, size |-> size]
        present == w <= Len(levels) /\ levels[w].price = price
    IN  CASE size = 0 /\ present -> RemoveAt(levels, w)
          [] size = 0 /\ ~present -> levels
          [] size > 0 /\ present -> [levels EXCEPT ![w] = level]
          [] size > 0 /\ ~present /\ Len(levels) >= Depth -> levels
          [] OTHER -> InsertAt(levels, w, level)

LEMMA LevelsAlone ==
    ASSUME NEW buy \in BOOLEAN, NEW side \in Sides(buy), NEW price \in Int, NEW size \in Nat
    PROVE  ApplyLevel(side, buy, price, size).levels
              = LevelsAfter(side.levels, buy, price, size)
PROOF
  <1> DEFINE r == ApplyLevel(side, buy, price, size)
             w == PositionOf(side.levels, buy, price)
             n == Len(side.levels)
             level == [price |-> price, size |-> size]
             present == w <= n /\ side.levels[w].price = price
             levels == side.levels
             refused == side.refused
  <1>1. /\ size = 0 /\ present => r = [levels |-> RemoveAt(levels, w), refused |-> refused]
        /\ size = 0 /\ ~present => r = side
        /\ size > 0 /\ present =>
              r = [levels |-> [levels EXCEPT ![w] = level], refused |-> refused]
        /\ size > 0 /\ ~present /\ n >= Depth => r = [levels |-> levels, refused |-> refused + 1]
        /\ size > 0 /\ ~present /\ n < Depth =>
              r = [levels |-> InsertAt(levels, w, level), refused |-> refused]
        BY LevelArms
  <1>2. LevelsAfter(levels, buy, price, size) =
          CASE size = 0 /\ present -> RemoveAt(levels, w)
            [] size = 0 /\ ~present -> levels
            [] size > 0 /\ present -> [levels EXCEPT ![w] = level]
            [] size > 0 /\ ~present /\ n >= Depth -> levels
            [] OTHER -> InsertAt(levels, w, level)
        BY Zenon DEF LevelsAfter
  <1>3. n \in Nat /\ Depth \in Nat BY DepthAssumption DEF Sides
  <1> DEFINE erased == RemoveAt(levels, w)
             changed == [levels EXCEPT ![w] = level]
             placed == InsertAt(levels, w, level)
  <1>f. side.levels = levels OBVIOUS
  <1> HIDE DEF r, w, present, level, levels, refused, n, erased, changed, placed
  <1>4. /\ (size > 0 <=> size # 0) /\ (n < Depth <=> ~(n >= Depth)) BY <1>3, SMT
  <1>5. /\ size = 0 /\ present => r.levels = erased
        /\ size = 0 /\ ~present => r.levels = levels
        /\ size > 0 /\ present => r.levels = changed
        /\ size > 0 /\ ~present /\ n >= Depth => r.levels = levels
        /\ size > 0 /\ ~present /\ n < Depth => r.levels = placed
        BY <1>1, <1>f DEF erased, changed, placed
  <1>6. LevelsAfter(levels, buy, price, size) =
          CASE size = 0 /\ present -> erased
            [] size = 0 /\ ~present -> levels
            [] size > 0 /\ present -> changed
            [] size > 0 /\ ~present /\ n >= Depth -> levels
            [] OTHER -> placed
        BY <1>2, Zenon DEF erased, changed, placed
  <1>7. r.levels = LevelsAfter(levels, buy, price, size) BY <1>4, <1>5, <1>6
  <1> QED BY <1>7 DEF r, levels

\* Two books of the same levels stay the same, and a trade is counted once.
LEMMA BooksStaySame ==
    ASSUME NEW a \in Book, NEW b \in Book, SameBook(a, b), NEW m \in FeedMessages
    PROVE  /\ SameBook(ApplyMessage(a, m), ApplyMessage(b, m))
           /\ ApplyMessage(a, m).trades = a.trades + (IF m.type = "trade" THEN 1 ELSE 0)
PROOF
  <1> DEFINE c == ApplyMessage(a, m)
             d == ApplyMessage(b, m)
  <1>1. a.bids.levels = b.bids.levels /\ a.asks.levels = b.asks.levels BY DEF SameBook
  <1>2. /\ a.bids \in Sides(TRUE) /\ b.bids \in Sides(TRUE)
        /\ a.asks \in Sides(FALSE) /\ b.asks \in Sides(FALSE) /\ a.trades \in Nat
        BY DEF Book, BidSides, AskSides
  <1>3. CASE IsBid(m)
    <2>1. m.price \in Int /\ m.size \in Nat /\ ~IsAsk(m) /\ m.type # "trade"
          BY <1>3, MessageSides DEF IsBid, IsQuote
    <2>2. NewBids(a, m).levels = NewBids(b, m).levels
      <3>1. ApplyLevel(a.bids, TRUE, m.price, m.size).levels
               = LevelsAfter(a.bids.levels, TRUE, m.price, m.size)
            BY <1>2, <2>1, LevelsAlone
      <3>2. ApplyLevel(b.bids, TRUE, m.price, m.size).levels
               = LevelsAfter(b.bids.levels, TRUE, m.price, m.size)
            BY <1>2, <2>1, LevelsAlone
      <3> QED BY <3>1, <3>2, <1>1, Zenon DEF NewBids
    <2>3. /\ c.bids = NewBids(a, m) /\ c.asks = a.asks /\ c.trades = a.trades
          /\ d.bids = NewBids(b, m) /\ d.asks = b.asks
          BY <1>3, MessageFields
    <2> HIDE DEF c, d
    <2>4. SameBook(c, d) BY <1>1, <2>2, <2>3 DEF SameBook
    <2>5. c.trades = a.trades + 0 BY <1>2, <2>3, SMT
    <2> QED BY <2>1, <2>4, <2>5 DEF c, d
  <1>4. CASE IsAsk(m)
    <2>1. m.price \in Int /\ m.size \in Nat /\ ~IsBid(m) /\ m.type # "trade"
          BY <1>4, MessageSides DEF IsAsk, IsQuote
    <2>2. NewAsks(a, m).levels = NewAsks(b, m).levels
      <3>1. ApplyLevel(a.asks, FALSE, m.price, m.size).levels
               = LevelsAfter(a.asks.levels, FALSE, m.price, m.size)
            BY <1>2, <2>1, LevelsAlone
      <3>2. ApplyLevel(b.asks, FALSE, m.price, m.size).levels
               = LevelsAfter(b.asks.levels, FALSE, m.price, m.size)
            BY <1>2, <2>1, LevelsAlone
      <3> QED BY <3>1, <3>2, <1>1, Zenon DEF NewAsks
    <2>3. /\ c.asks = NewAsks(a, m) /\ c.bids = a.bids /\ c.trades = a.trades
          /\ d.asks = NewAsks(b, m) /\ d.bids = b.bids
          BY <1>4, MessageFields
    <2> HIDE DEF c, d
    <2>4. SameBook(c, d) BY <1>1, <2>2, <2>3 DEF SameBook
    <2>5. c.trades = a.trades + 0 BY <1>2, <2>3, SMT
    <2> QED BY <2>1, <2>4, <2>5 DEF c, d
  <1>5. CASE IsTrade(m)
    <2>1. /\ c.bids = a.bids /\ c.asks = a.asks /\ c.trades = a.trades + 1
          /\ d.bids = b.bids /\ d.asks = b.asks
          BY <1>5, MessageFields
    <2>2. m.type = "trade" BY <1>5 DEF IsTrade
    <2> HIDE DEF c, d
    <2>3. SameBook(c, d) BY <1>1, <2>1 DEF SameBook
    <2> QED BY <2>1, <2>2, <2>3 DEF c, d
  <1> QED BY <1>3, <1>4, <1>5, MessageSides

\* The trades among the messages of a stretch of the feed.
TradesIn(h, from, to) == {i \in from .. to : h[i].type = "trade"}

LEMMA TradesCounted ==
    ASSUME NEW h, NEW from \in Nat, NEW to \in Nat, from <= to + 1
    PROVE  /\ Cardinality(TradesIn(h, from, to)) \in Nat
           /\ Cardinality(TradesIn(h, from, to + 1)) =
                 Cardinality(TradesIn(h, from, to))
                    + (IF h[to + 1].type = "trade" THEN 1 ELSE 0)
PROOF
  <1> DEFINE T == TradesIn(h, from, to)
             U == TradesIn(h, from, to + 1)
  <1>1. IsFiniteSet(T) /\ Cardinality(T) \in Nat
    <2>1. IsFiniteSet(from .. to) BY FS_Interval, SMT
    <2>2. T \in SUBSET (from .. to) BY DEF TradesIn
    <2>3. IsFiniteSet(T) BY <2>1, <2>2, FS_Subset
    <2> QED BY <2>3, FS_CardinalityType
  <1>2. from .. to + 1 = (from .. to) \cup {to + 1} BY SMT
  <1>3. to + 1 \notin from .. to BY SMT
  <1>4. CASE h[to + 1].type = "trade"
    <2>1. U = T \cup {to + 1} BY <1>2, <1>4 DEF TradesIn
    <2>2. to + 1 \notin T BY <1>3 DEF TradesIn
    <2> HIDE DEF T, U
    <2>3. Cardinality(U) = Cardinality(T) + 1 BY <1>1, <2>1, <2>2, FS_AddElement
    <2> QED BY <1>1, <1>4, <2>3 DEF T, U
  <1>5. CASE h[to + 1].type # "trade"
    <2>1. U = T BY <1>2, <1>5 DEF TradesIn
    <2> HIDE DEF T, U
    <2>2. Cardinality(U) = Cardinality(T) + 0 BY <1>1, <2>1, SMT
    <2> QED BY <1>1, <1>5, <2>2 DEF T, U
  <1> QED BY <1>4, <1>5

\* A reader that has followed the feed as far as the message before pos.
Follows(rd, h, next, pos) ==
    /\ rd \in Readers /\ rd.resume = next
    /\ pos \in next .. Len(h) + 1
    /\ SameBook(rd.book, BookAt(h, pos - 1))
    /\ rd.book.trades = Cardinality(TradesIn(h, next, pos - 1))

LEMMA FollowsOn ==
    ASSUME NEW h \in Seq(FeedMessages), NEW next \in Nat \ {0}, NEW rd, NEW pos,
           Follows(rd, h, next, pos), pos <= Len(h)
    PROVE  Follows([rd EXCEPT !.book = ApplyMessage(@, h[pos])], h, next, pos + 1)
PROOF
  <1> DEFINE n == Len(h)
             book == rd.book
             then == BookAt(h, pos - 1)
             m == h[pos]
             after == ApplyMessage(book, m)
             new == [rd EXCEPT !.book = ApplyMessage(@, m)]
             before == Cardinality(TradesIn(h, next, pos - 1))
  <1>1. /\ rd \in Readers /\ rd.resume = next /\ pos \in next .. n + 1
        /\ SameBook(book, then) /\ book.trades = before
        BY DEF Follows
  <1>2. n \in Nat OBVIOUS
  <1> HIDE DEF n
  <1>3. /\ pos \in Nat /\ pos - 1 \in Nat /\ (pos - 1) + 1 = pos /\ pos - 1 \in 0 .. n
        /\ pos - 1 < n /\ next \in Nat /\ next <= (pos - 1) + 1
        /\ pos + 1 \in next .. n + 1 /\ (pos + 1) - 1 = pos
        BY <1>1, <1>2, SMT DEF n
  <1>4. then \in Book /\ m \in FeedMessages /\ BookAt(h, pos) = ApplyMessage(then, m)
    <2>1. /\ BookAt(h, pos - 1) \in Book
          /\ h[(pos - 1) + 1] \in FeedMessages
          /\ BookAt(h, (pos - 1) + 1) = ApplyMessage(BookAt(h, pos - 1), h[(pos - 1) + 1])
          BY <1>3, BooksInOrder DEF n
    <2> QED BY <2>1, <1>3
  <1>5. /\ book \in Book
        /\ rd = [number |-> rd.number, book |-> book, resume |-> rd.resume,
                 broken |-> rd.broken]
        /\ rd.number \in Nat /\ rd.resume \in Nat /\ rd.broken \in BOOLEAN
        BY <1>1 DEF Readers
  <1> HIDE DEF book, then, m
  <1>6. /\ SameBook(after, BookAt(h, pos))
        /\ after.trades = book.trades + (IF m.type = "trade" THEN 1 ELSE 0)
        BY <1>1, <1>4, <1>5, BooksStaySame
  <1>7. Cardinality(TradesIn(h, next, pos))
           = before + (IF m.type = "trade" THEN 1 ELSE 0)
    <2>1. Cardinality(TradesIn(h, next, (pos - 1) + 1))
             = before + (IF h[(pos - 1) + 1].type = "trade" THEN 1 ELSE 0)
          BY <1>3, TradesCounted
    <2> QED BY <2>1, <1>3 DEF m
  <1>8. after \in Book BY <1>4, <1>5, BookStays
  <1>9. new = [number |-> rd.number, book |-> after, resume |-> rd.resume,
               broken |-> rd.broken]
    <2>1. new = [rd EXCEPT !.book = after] BY Zenon DEF book
    <2> HIDE DEF new, after
    <2> QED BY <2>1, <1>5
  <1> HIDE DEF new, after, before
  <1>10. new \in Readers /\ new.resume = next /\ new.book = after
         BY <1>1, <1>5, <1>8, <1>9 DEF Readers
  <1>11. SameBook(new.book, BookAt(h, (pos + 1) - 1)) BY <1>3, <1>6, <1>10
  <1>12. new.book.trades = Cardinality(TradesIn(h, next, (pos + 1) - 1))
         BY <1>1, <1>3, <1>6, <1>7, <1>10
  <1>13. Follows(new, h, next, pos + 1)
         BY <1>3, <1>10, <1>11, <1>12 DEF Follows, n
  <1> QED BY <1>13 DEF new, m

\* A longer feed changes nothing of what was followed.
LEMMA FollowsStill ==
    ASSUME NEW h \in Seq(FeedMessages), NEW next \in Nat \ {0}, NEW rd, NEW pos,
           Follows(rd, h, next, pos), NEW m \in FeedMessages
    PROVE  Follows(rd, Append(h, m), next, pos)
PROOF
  <1> DEFINE n == Len(h)
             g == Append(h, m)
  <1>1. /\ n \in Nat /\ Len(g) = n + 1 /\ \A i \in 1 .. n : g[i] = h[i] BY HistoryGrows
  <1>2. /\ rd \in Readers /\ rd.resume = next /\ pos \in next .. n + 1
        /\ SameBook(rd.book, BookAt(h, pos - 1))
        /\ rd.book.trades = Cardinality(TradesIn(h, next, pos - 1))
        BY DEF Follows
  <1>f. n = Len(h) OBVIOUS
  <1>g. \A k \in 0 .. n : BookAt(g, k) = BookAt(h, k) BY BooksInOrder
  <1> HIDE DEF n, g
  <1>3. /\ pos - 1 \in 0 .. n /\ pos \in next .. (n + 1) + 1
        /\ \A i \in next .. pos - 1 : i \in 1 .. n
        BY <1>1, <1>2, SMT
  <1>4. BookAt(g, pos - 1) = BookAt(h, pos - 1) BY <1>3, <1>g
  <1>5. TradesIn(g, next, pos - 1) = TradesIn(h, next, pos - 1)
    <2>1. \A i \in next .. pos - 1 : g[i] = h[i] BY <1>1, <1>3
    <2> QED BY <2>1 DEF TradesIn
  <1>6. Follows(rd, g, next, pos) BY <1>1, <1>2, <1>3, <1>4, <1>5 DEF Follows
  <1> QED BY <1>6 DEF g

\* The frames of a snapshot still to be read after the first k.
RestAt(ss, k, b, next) ==
    /\ ss \in Seq(SessionFrames(b, next))
    /\ Len(ss) = FramesOf(b) - k
    /\ \A i \in 1 .. Len(ss) : ss[i] = Serve(b, next)[k + i]

\* A reader in the middle of a snapshot, whose connection may have been cut.
Reads(rd, ss, b, next) ==
    \E k \in 0 .. FramesOf(b) :
        ReaderAt(rd, k, b, next) /\ (ss = <<>> \/ RestAt(ss, k, b, next))

LEMMA ReadsFromTheStart ==
    ASSUME NEW b \in Book, NEW next \in Nat
    PROVE  Reads(NewReader, Serve(b, next), b, next)
PROOF
  <1> DEFINE F == Serve(b, next)
             n == FramesOf(b)
  <1>1. Len(F) = n /\ F \in Seq(SessionFrames(b, next)) BY FramesInOrder
  <1>2. n \in Nat BY SidesOfABook
  <1>3. ReaderAt(NewReader, 0, b, next) BY ReaderStarts
  <1>f. F = Serve(b, next) /\ n = FramesOf(b) OBVIOUS
  <1> HIDE DEF F, n
  <1>4. /\ 0 \in 0 .. n /\ n = n - 0 /\ \A i \in 1 .. n : 0 + i = i BY <1>2, SMT
  <1>5. RestAt(F, 0, b, next) BY <1>1, <1>4, <1>f DEF RestAt
  <1> QED BY <1>3, <1>4, <1>5, <1>f DEF Reads

LEMMA ReadsTheNext ==
    ASSUME NEW b \in Book, NEW next \in Nat, NEW rd, NEW ss,
           Reads(rd, ss, b, next), ss # <<>>
    PROVE  Reads(ReadFrame(rd, Head(ss)), Tail(ss), b, next)
PROOF
  <1> DEFINE F == Serve(b, next)
             n == FramesOf(b)
             T == SessionFrames(b, next)
  <1>1. PICK k \in 0 .. n : ReaderAt(rd, k, b, next) /\ RestAt(ss, k, b, next)
        BY DEF Reads
  <1>2. n \in Nat BY SidesOfABook
  <1>3. ss \in Seq(T) /\ Len(ss) = n - k /\ \A i \in 1 .. Len(ss) : ss[i] = F[k + i]
        BY <1>1 DEF RestAt
  <1>f. F = Serve(b, next) /\ n = FramesOf(b) /\ T = SessionFrames(b, next) OBVIOUS
  <1> HIDE DEF F, n, T
  <1>4. /\ Head(ss) = ss[1] /\ Tail(ss) \in Seq(T) /\ Len(Tail(ss)) = Len(ss) - 1
        /\ Len(ss) \in Nat /\ Len(ss) # 0
        /\ \A i \in 1 .. Len(ss) - 1 : Tail(ss)[i] = ss[i + 1]
        BY <1>3, HeadTailProperties, EmptySeq
  <1>5. /\ k \in Nat /\ k < n /\ k + 1 \in 0 .. n /\ 1 \in 1 .. Len(ss)
        /\ Len(ss) - 1 = n - (k + 1)
        /\ \A i \in 1 .. Len(ss) - 1 : i + 1 \in 1 .. Len(ss) /\ k + (i + 1) = (k + 1) + i
        BY <1>2, <1>3, <1>4, SMT
  <1>6. Head(ss) = F[k + 1] BY <1>3, <1>4, <1>5
  <1>7. ReaderAt(ReadFrame(rd, F[k + 1]), k + 1, b, next) BY <1>1, <1>5, <1>f, ReadsOn
  <1>8. RestAt(Tail(ss), k + 1, b, next)
    <2>1. \A i \in 1 .. Len(Tail(ss)) : Tail(ss)[i] = F[(k + 1) + i]
          BY <1>3, <1>4, <1>5
    <2>2. Len(Tail(ss)) = n - (k + 1) BY <1>4, <1>5
    <2> QED BY <2>1, <2>2, <1>4, <1>f DEF RestAt
  <1> QED BY <1>5, <1>6, <1>7, <1>8, <1>f DEF Reads

\* Only a reader that saw End Of Snapshot knows a position, and it has the book.
LEMMA ReadsTheBook ==
    ASSUME NEW h \in Seq(FeedMessages), NEW next \in 1 .. Len(h) + 1, NEW rd, NEW ss,
           Reads(rd, ss, BookAt(h, next - 1), next), rd.resume # 0
    PROVE  Follows(rd, h, next, next)
PROOF
  <1> DEFINE b == BookAt(h, next - 1)
             n == FramesOf(b)
             L == b.bids.levels
             M == b.asks.levels
             p == Len(L)
             q == Len(M)
             X == rd.book.bids.levels
             Y == rd.book.asks.levels
  <1>1. next - 1 \in 0 .. Len(h) /\ next \in Nat /\ next \in next .. Len(h) + 1 BY SMT
  <1>2. b \in Book BY <1>1, BooksInOrder
  <1>3. PICK k \in 0 .. n : ReaderAt(rd, k, b, next) BY DEF Reads
  <1>4. /\ rd \in Readers /\ rd.book.trades = 0
        /\ rd.resume = (IF k + 1 >= n THEN next ELSE 0)
        /\ Len(X) = Got(k - 2, p) /\ \A j \in 1 .. Got(k - 2, p) : X[j] = L[j]
        /\ Len(Y) = Got(k - 2 - p, q) /\ \A j \in 1 .. Got(k - 2 - p, q) : Y[j] = M[j]
        BY <1>3 DEF ReaderAt, Begins
  <1>5. p \in Nat /\ q \in Nat /\ n = p + q + 4 BY <1>2, SidesOfABook DEF FramesOf
  <1>6. /\ L \in Seq(Levels) /\ M \in Seq(Levels) /\ X \in Seq(Levels) /\ Y \in Seq(Levels)
    <2>1. rd.book \in Book BY <1>4 DEF Readers
    <2> QED BY <2>1, <1>2, SidesOfABook
  <1>f. b = BookAt(h, next - 1) OBVIOUS
  <1>g. (X = L /\ Y = M) => SameBook(rd.book, b) BY DEF SameBook
  <1> HIDE DEF b, n, L, M, X, Y
  <1>7. k + 1 >= n /\ rd.resume = next
    <2>1. rd.resume = (IF k + 1 >= n THEN next ELSE 0) BY <1>4
    <2> QED BY <2>1
  <1>8. Got(k - 2, p) = p /\ Got(k - 2 - p, q) = q
    <2> HIDE DEF p, q
    <2> QED BY <1>5, <1>7, SMT DEF Got
  <1>9. X = L
    <2>1. Len(X) = Len(L) /\ \A j \in 1 .. Len(L) : X[j] = L[j] BY <1>4, <1>8
    <2> QED BY <2>1, <1>6, SeqEqual
  <1>10. Y = M
    <2>1. Len(Y) = Len(M) /\ \A j \in 1 .. Len(M) : Y[j] = M[j] BY <1>4, <1>8
    <2> QED BY <2>1, <1>6, SeqEqual
  <1>11. Cardinality(TradesIn(h, next, next - 1)) = 0
    <2>1. next .. next - 1 = {} BY <1>1, SMT
    <2>2. TradesIn(h, next, next - 1) = {} BY <2>1 DEF TradesIn
    <2> QED BY <2>2, FS_EmptySet
  <1> QED BY <1>1, <1>4, <1>7, <1>9, <1>10, <1>11, <1>f, <1>g DEF Follows

SnapshotInv ==
    /\ history \in Seq(FeedMessages) /\ venue = BookAt(history, Len(history))
    /\ captured \in 0 .. Len(history) + 1
    /\ captured = 0 => session = <<>> /\ reader = NewReader /\ position = 0
    /\ captured # 0 /\ position = 0 =>
          Reads(reader, session, BookAt(history, captured - 1), captured)
    /\ captured # 0 /\ position # 0 =>
          session = <<>> /\ Follows(reader, history, captured, position)

LEMMA SnapshotStarts == Init => SnapshotInv
PROOF
  <1> SUFFICES ASSUME Init PROVE SnapshotInv OBVIOUS
  <1>1. /\ history = <<>> /\ venue = EmptyBook /\ session = <<>> /\ captured = 0
        /\ reader = NewReader /\ position = 0
        BY DEF Init
  <1>2. <<>> \in Seq(FeedMessages) /\ Len(<<>>) = 0 /\ 0 \in 0 .. 0 /\ 0 \in 0 .. 0 + 1 BY SMT
  <1>3. BookAt(<<>>, 0) = EmptyBook BY <1>2, BooksInOrder
  <1> QED BY <1>1, <1>2, <1>3 DEF SnapshotInv

LEMMA SnapshotStep == SnapshotInv /\ [Next]_vars => SnapshotInv'
PROOF
  <1> SUFFICES ASSUME SnapshotInv, [Next]_vars PROVE SnapshotInv' OBVIOUS
  <1>1. CASE UNCHANGED <<history, venue, session, captured, reader, position>>
        BY <1>1 DEF SnapshotInv
  <1> DEFINE n == Len(history)
             b == BookAt(history, captured - 1)
  <1>i. /\ history \in Seq(FeedMessages) /\ venue = BookAt(history, n) /\ captured \in 0 .. n + 1
        /\ captured = 0 => session = <<>> /\ reader = NewReader /\ position = 0
        /\ captured # 0 /\ position = 0 => Reads(reader, session, b, captured)
        /\ captured # 0 /\ position # 0 =>
              session = <<>> /\ Follows(reader, history, captured, position)
        BY DEF SnapshotInv
  <1>n. n \in Nat /\ n \in 0 .. n BY <1>i
  <1>c. captured # 0 => /\ captured - 1 \in 0 .. n /\ captured \in Nat \ {0}
                        /\ captured \in 1 .. n + 1 /\ captured \in Nat
    <2> HIDE DEF n
    <2> QED BY <1>i, <1>n, SMT
  <1>b. captured # 0 => b \in Book BY <1>i, <1>c, BooksInOrder
  <1>2. CASE Publish
    <2>1. PICK m \in FeedMessages : history' = Append(history, m)
                                    /\ venue' = ApplyMessage(venue, m)
          BY <1>2, MessagesAreFeed DEF Publish
    <2>2. UNCHANGED <<session, captured, reader, position>> BY <1>2 DEF Publish
    <2>3. history' \in Seq(FeedMessages) /\ Len(history') = n + 1
          /\ history'[n + 1] = m /\ n < n + 1
      <3>1. history' \in Seq(FeedMessages) /\ Len(history') = n + 1 /\ history'[n + 1] = m
            BY <1>i, <2>1, HistoryGrows
      <3> HIDE DEF n
      <3> QED BY <3>1, <1>n, SMT
    <2>4. \A k \in 0 .. n : BookAt(history', k) = BookAt(history, k)
          BY <1>i, <2>1, BooksInOrder
    <2>5. venue' = BookAt(history', n + 1)
      <3>1. n \in 0 .. n + 1 BY <1>n, SMT
      <3>2. BookAt(history', n + 1) = ApplyMessage(BookAt(history', n), history'[n + 1])
            BY <2>3, <3>1, BooksInOrder
      <3> QED BY <3>2, <2>1, <2>3, <2>4, <1>i, <1>n
    <2>6. captured' \in 0 .. Len(history') + 1
      <3> HIDE DEF n
      <3> QED BY <1>i, <1>n, <2>2, <2>3, SMT
    <2>7. captured # 0 => BookAt(history', captured - 1) = b BY <1>c, <2>4
    <2>8. captured # 0 /\ position # 0 => Follows(reader, history', captured, position)
          BY <1>i, <1>c, <2>1, FollowsStill
    <2> HIDE DEF n, b
    <2> QED BY <1>i, <2>2, <2>3, <2>5, <2>6, <2>7, <2>8 DEF SnapshotInv
  <1>3. CASE AskSnapshot
    <2>1. /\ captured = 0 /\ captured' = n + 1 /\ session' = Serve(venue, n + 1)
          /\ history' = history /\ venue' = venue /\ reader' = reader /\ position' = position
          BY <1>3 DEF AskSnapshot
    <2>2. venue \in Book BY <1>i, <1>n, BooksInOrder
    <2>3. n + 1 \in Nat /\ n + 1 # 0 /\ (n + 1) - 1 = n /\ n + 1 \in 0 .. n + 1 BY <1>n, SMT
    <2>4. Reads(NewReader, Serve(venue, n + 1), venue, n + 1)
          BY <2>2, <2>3, ReadsFromTheStart
    <2>f. n = Len(history) OBVIOUS
    <2> HIDE DEF n
    <2>5. /\ reader' = NewReader /\ position' = 0 /\ captured' # 0
          /\ BookAt(history', captured' - 1) = venue
          BY <1>i, <2>1, <2>3
    <2>6. Reads(reader', session', BookAt(history', captured' - 1), captured')
          BY <2>1, <2>4, <2>5
    <2> QED BY <1>i, <2>1, <2>3, <2>5, <2>6, <2>f DEF SnapshotInv
  <1>4. CASE ReadNext
    <2>1. /\ session # <<>> /\ reader' = ReadFrame(reader, Head(session))
          /\ session' = Tail(session)
          /\ UNCHANGED <<history, venue, captured, position>>
          BY <1>4 DEF ReadNext
    <2>2. captured # 0 /\ position = 0 BY <1>i, <2>1
    <2>3. Reads(reader', session', b, captured)
          BY <1>i, <1>b, <1>c, <2>1, <2>2, ReadsTheNext
    <2> QED BY <1>i, <2>1, <2>2, <2>3 DEF SnapshotInv
  <1>5. CASE ConnectionCut
    <2>1. /\ session # <<>> /\ session' = <<>>
          /\ UNCHANGED <<history, venue, captured, reader, position>>
          BY <1>5 DEF ConnectionCut
    <2>2. captured # 0 /\ position = 0 BY <1>i, <2>1
    <2>3. Reads(reader', session', b, captured) BY <1>i, <2>1, <2>2 DEF Reads
    <2> QED BY <1>i, <2>1, <2>2, <2>3 DEF SnapshotInv
  <1>6. CASE FollowFeed
    <2> DEFINE next == IF position = 0 THEN reader.resume ELSE position
    <2>1. /\ captured # 0 /\ session = <<>> /\ reader.resume # 0 /\ next <= n
          /\ reader' = [reader EXCEPT !.book = ApplyMessage(@, history[next])]
          /\ position' = next + 1
          /\ UNCHANGED <<history, venue, session, captured>>
          BY <1>6 DEF FollowFeed
    <2>2. Follows(reader, history, captured, next)
      <3>1. CASE position = 0
        <4>1. Follows(reader, history, captured, captured)
              BY <1>i, <1>c, <2>1, <3>1, ReadsTheBook
        <4>2. next = captured BY <3>1, <4>1 DEF Follows
        <4> QED BY <4>1, <4>2
      <3>2. CASE position # 0 BY <1>i, <2>1, <3>2
      <3> QED BY <3>1, <3>2
    <2>3. next \in Nat
      <3>1. next \in captured .. n + 1 BY <2>2 DEF Follows
      <3> HIDE DEF next, n
      <3> QED BY <3>1, <1>c, <2>1, SMT
    <2> HIDE DEF next
    <2>4. Follows(reader', history, captured, next + 1)
          BY <1>i, <1>c, <2>1, <2>2, FollowsOn
    <2>5. next + 1 # 0 BY <2>3, SMT
    <2> QED BY <1>i, <2>1, <2>4, <2>5 DEF SnapshotInv
  <1>7. CASE AddOrder BY <1>1, <1>7 DEF AddOrder, Apply, deep
  <1>8. CASE OrderExecutedOrCanceled BY <1>1, <1>8 DEF OrderExecutedOrCanceled, Apply, deep
  <1>9. CASE OrderDelete BY <1>1, <1>9 DEF OrderDelete, Apply, deep
  <1>10. CASE OrderReplace BY <1>1, <1>10 DEF OrderReplace, Apply, deep
  <1>11. CASE UNCHANGED vars BY <1>1, <1>11 DEF vars, deep
  <1> QED BY <1>2, <1>3, <1>4, <1>5, <1>6, <1>7, <1>8, <1>9, <1>10, <1>11 DEF Next

LEMMA SnapshotInvIsTheBook == SnapshotInv => SnapshotPlusFeedIsTheBook
PROOF
  <1> SUFFICES ASSUME SnapshotInv, captured # 0, session = <<>>, reader.resume # 0
               PROVE  LET upTo == (IF position = 0 THEN captured ELSE position) - 1
                          always == FoldLeft(ApplyMessage, EmptyBook, SubSeq(history, 1, upTo))
                          since == {i \in captured .. upTo : history[i].type = "trade"}
                      IN  /\ SameBook(reader.book, always)
                          /\ reader.book.trades = Cardinality(since)
      BY Zenon DEF SnapshotPlusFeedIsTheBook
  <1> DEFINE next == IF position = 0 THEN captured ELSE position
  <1>1. Follows(reader, history, captured, next)
    <2>1. CASE position = 0
      <3>1. /\ Reads(reader, session, BookAt(history, captured - 1), captured)
            /\ history \in Seq(FeedMessages) /\ captured \in 0 .. Len(history) + 1
            BY <2>1 DEF SnapshotInv
      <3>2. captured \in 1 .. Len(history) + 1 BY <3>1
      <3>3. Follows(reader, history, captured, captured) BY <3>1, <3>2, ReadsTheBook
      <3> QED BY <2>1, <3>3
    <2>2. CASE position # 0 BY <2>2 DEF SnapshotInv
    <2> QED BY <2>1, <2>2
  <1>2. /\ SameBook(reader.book, BookAt(history, next - 1))
        /\ reader.book.trades = Cardinality(TradesIn(history, captured, next - 1))
        BY <1>1 DEF Follows
  <1> QED BY <1>2, Zenon DEF BookAt, TradesIn

\* A client that reads a snapshot and follows the feed from the position it was
\* given has the book of a client that was there from the start and has counted
\* each later trade once, for every depth of the book, every feed and every moment
\* of the request, however the reading, the feed and a cut connection interleave.
THEOREM BooksSnapshotPlusFeed == Spec => []SnapshotPlusFeedIsTheBook
PROOF
  <1>1. Init => SnapshotInv BY SnapshotStarts
  <1>2. SnapshotInv /\ [Next]_vars => SnapshotInv' BY SnapshotStep
  <1>3. SnapshotInv => SnapshotPlusFeedIsTheBook BY SnapshotInvIsTheBook
  <1> QED BY <1>1, <1>2, <1>3, PTL DEF Spec

=============================================================================
