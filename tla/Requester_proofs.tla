-------------------------- MODULE Requester_proofs --------------------------
(* Lemmas about the operators of RequesterOps and proofs about Requester,    *)
(* for every policy that validates, any holes, any arrivals and any pace of  *)
(* the polls.  The operators fold over the chunks of a hole and over the     *)
(* entries of the array, so the lemmas about them are inductions, stated     *)
(* with sets of numbers.                                                     *)
EXTENDS Requester, SequenceTheorems, WellFoundedInduction, TLAPS

-----------------------------------------------------------------------------
(* Natural numbers: least elements, and induction over a set of them.        *)

LEMMA LeastNumber ==
    ASSUME NEW T \in SUBSET Nat, T # {}
    PROVE  \E n \in T : \A k \in T : n <= k
PROOF
  <1>1. \E x \in T : \A y \in T : ~ (<<y, x>> \in OpToRel(<, Nat))
        BY NatLessThanWellFounded, WFMin
  <1>2. PICK n \in T : \A y \in T : ~ (<<y, n>> \in OpToRel(<, Nat)) BY <1>1
  <1>3. ASSUME NEW k \in T PROVE n <= k
    <2>1. k < n => <<k, n>> \in OpToRel(<, Nat) BY Zenon DEF OpToRel
    <2>2. ~ (k < n) BY <1>2, <2>1, Zenon
    <2> QED BY <2>2, SMT
  <1> QED BY <1>3

LEMMA NumbersByInduction ==
    ASSUME NEW S \in SUBSET Nat, 0 \in S, \A n \in S : n + 1 \in S
    PROVE  S = Nat
PROOF
  <1> SUFFICES ASSUME S # Nat PROVE FALSE OBVIOUS
  <1>1. PICK n \in Nat \ S : \A k \in Nat \ S : n <= k BY LeastNumber
  <1>2. n # 0 /\ n - 1 \in Nat /\ n - 1 \in S BY <1>1, SMT
  <1> QED BY <1>1, <1>2, SMT

LEMMA GreatestNumber ==
    ASSUME NEW m \in Nat, NEW T \in SUBSET (1 .. m), T # {}
    PROVE  Max(T) \in T /\ \A k \in T : k <= Max(T)
PROOF
  <1> DEFINE Above == {u \in Nat : \A k \in T : k <= u}
  <1>1. Above # {} /\ Above \in SUBSET Nat BY SMT
  <1>2. PICK u \in Above : \A v \in Above : u <= v BY <1>1, LeastNumber
  <1>3. u \in T
    <2> SUFFICES ASSUME u \notin T PROVE FALSE OBVIOUS
    <2>0. PICK t \in T : TRUE OBVIOUS
    <2>1. u # 0 BY <2>0, <1>2, SMT
    <2>2. u - 1 \in Nat /\ \A k \in T : k <= u - 1 BY <1>2, <2>1, SMT
    <2>3. u - 1 \in Above BY <2>2
    <2> QED BY <1>2, <2>3, SMT
  <1>4. \E x \in T : \A y \in T : x >= y BY <1>2, <1>3, SMT
  <1>5. Max(T) \in T /\ \A y \in T : Max(T) >= y BY <1>4, Zenon DEF Max
  <1> QED BY <1>5, SMT

-----------------------------------------------------------------------------
(* The policy.                                                               *)

\* f is timeout_for up to an attempt.
Waits(f, attempt) ==
    f = [n \in 1 .. attempt |->
            IF n = 1 THEN FirstTimeout
            ELSE IF f[n - 1] >= MaxTimeout THEN MaxTimeout
            ELSE Lesser(MaxTimeout, (f[n - 1] \div BackoffDenominator) * BackoffNumerator)]

LEMMA BackedOff ==
    ASSUME NEW w \in Nat
    PROVE  Lesser(MaxTimeout, (w \div BackoffDenominator) * BackoffNumerator) \in Nat
PROOF
  <1>1. w \div BackoffDenominator \in Nat BY PolicyValid, SMT
  <1>2. \A q \in Nat : q * BackoffNumerator \in Nat BY PolicyValid, SMT
  <1>3. (w \div BackoffDenominator) * BackoffNumerator \in Nat BY <1>1, <1>2
  <1> QED BY <1>3, PolicyValid, SMT DEF Lesser

LEMMA WaitsAreTimes ==
    ASSUME NEW a \in Nat, NEW f, Waits(f, a)
    PROVE  \A n \in 1 .. a : f[n] \in Nat
PROOF
  <1> DEFINE S == {n \in Nat : n \in 1 .. a => f[n] \in Nat}
  <1>1. 0 \in S BY SMT
  <1>2. ASSUME NEW n \in S PROVE n + 1 \in S
    <2> SUFFICES ASSUME n + 1 \in 1 .. a PROVE f[n + 1] \in Nat BY SMT
    <2> DEFINE m == n + 1
    <2>0. m \in 1 .. a /\ m = n + 1 OBVIOUS
    <2> HIDE DEF m
    <2>1. f[m] = IF m = 1 THEN FirstTimeout
                 ELSE IF f[m - 1] >= MaxTimeout THEN MaxTimeout
                 ELSE Lesser(MaxTimeout, (f[m - 1] \div BackoffDenominator)
                                            * BackoffNumerator)
          BY <2>0, Zenon DEF Waits
    <2>2. CASE n = 0 BY <2>0, <2>1, <2>2, PolicyValid
    <2>3. CASE n # 0
      <3>1. m # 1 /\ m - 1 = n /\ n \in 1 .. a BY <2>0, <2>3, SMT
      <3>2. f[n] \in Nat BY <3>1
      <3> QED BY <2>0, <2>1, <3>1, <3>2, BackedOff, PolicyValid
    <2> QED BY <2>2, <2>3
  <1>3. S = Nat
    <2> HIDE DEF S
    <2>1. S \in SUBSET Nat BY DEF S
    <2> QED BY <1>1, <1>2, <2>1, NumbersByInduction
  <1> QED BY <1>3, SMT

\* One attempt more: the next timeout is a function of the one before.
LEMMA WaitsGrow ==
    ASSUME NEW a \in Nat, NEW f, Waits(f, a), f \in [1 .. a -> Nat]
    PROVE  \E g \in [1 .. a + 1 -> Nat] : Waits(g, a + 1)
PROOF
  <1> DEFINE w == IF a = 0 THEN FirstTimeout
                  ELSE IF f[a] >= MaxTimeout THEN MaxTimeout
                  ELSE Lesser(MaxTimeout, (f[a] \div BackoffDenominator) * BackoffNumerator)
             g == [n \in 1 .. a + 1 |-> IF n = a + 1 THEN w ELSE f[n]]
             next(h, n) == IF n = 1 THEN FirstTimeout
                           ELSE IF h[n - 1] >= MaxTimeout THEN MaxTimeout
                           ELSE Lesser(MaxTimeout, (h[n - 1] \div BackoffDenominator)
                                                       * BackoffNumerator)
  <1>1. w \in Nat
    <2>1. CASE a = 0 BY <2>1, PolicyValid
    <2>2. CASE a # 0
      <3>1. f[a] \in Nat BY <2>2, SMT
      <3> QED BY <2>2, <3>1, BackedOff, PolicyValid
    <2> QED BY <2>1, <2>2
  <1>2. g \in [1 .. a + 1 -> Nat] BY <1>1, SMT
  <1>3. ASSUME NEW n \in 1 .. a + 1 PROVE g[n] = next(g, n)
    <2>1. CASE n = a + 1
      <3>1. g[n] = w BY <2>1
      <3>2. CASE a = 0 BY <2>1, <3>1, <3>2
      <3>3. CASE a # 0
        <4>1. n # 1 /\ n - 1 \in 1 .. a /\ n - 1 = a /\ n - 1 \in 1 .. a + 1 /\ n - 1 # a + 1
              BY <2>1, <3>3, SMT
        <4>2. g[n - 1] = f[a] BY <4>1
        <4> HIDE DEF g
        <4> QED BY <3>1, <3>3, <4>1, <4>2
      <3> QED BY <3>2, <3>3
    <2>2. CASE n # a + 1
      <3>1. n \in 1 .. a BY <2>2, SMT
      <3>2. g[n] = f[n] BY <2>2
      <3>3. f[n] = next(f, n) BY <3>1, Zenon DEF Waits
      <3>4. CASE n = 1 BY <3>2, <3>3, <3>4
      <3>5. CASE n # 1
        <4>1. n - 1 \in 1 .. a + 1 /\ n - 1 # a + 1 BY <3>1, <3>5, SMT
        <4>2. g[n - 1] = f[n - 1] BY <4>1
        <4> HIDE DEF g
        <4> QED BY <3>2, <3>3, <3>5, <4>2
      <3> QED BY <3>4, <3>5
    <2> QED BY <2>1, <2>2
  <1>4. Waits(g, a + 1)
    <2> HIDE DEF next
    <2>1. g = [n \in 1 .. a + 1 |-> next(g, n)] BY <1>2, <1>3
    <2> QED BY <2>1, Zenon DEF Waits, next
  <1> QED BY <1>2, <1>4

LEMMA TimeoutIsTime ==
    ASSUME NEW attempt \in Nat \ {0}
    PROVE  TimeoutFor(attempt) \in Nat
PROOF
  <1> DEFINE S == {a \in Nat : \E f \in [1 .. a -> Nat] : Waits(f, a)}
  <1>1. 0 \in S
    <2> DEFINE none == [n \in 1 .. 0 |-> 0]
    <2>1. none \in [1 .. 0 -> Nat] OBVIOUS
    <2>2. Waits(none, 0) BY SMT DEF Waits
    <2> QED BY <2>1, <2>2
  <1>2. ASSUME NEW a \in S PROVE a + 1 \in S
    <2>1. PICK f \in [1 .. a -> Nat] : Waits(f, a) OBVIOUS
    <2>2. a \in Nat /\ a + 1 \in Nat BY SMT
    <2> HIDE DEF S
    <2>3. \E g \in [1 .. a + 1 -> Nat] : Waits(g, a + 1) BY <2>1, <2>2, WaitsGrow
    <2> USE DEF S
    <2> QED BY <2>2, <2>3
  <1>3. S = Nat
    <2> HIDE DEF S
    <2>1. S \in SUBSET Nat BY DEF S
    <2> QED BY <1>1, <1>2, <2>1, NumbersByInduction
  <1>4. PICK f \in [1 .. attempt -> Nat] : Waits(f, attempt) BY <1>3
  <1> DEFINE wait == CHOOSE g : Waits(g, attempt)
  <1>5. Waits(wait, attempt) BY <1>4, Zenon
  <1>6. TimeoutFor(attempt) = wait[attempt] BY Zenon DEF TimeoutFor, Waits
  <1>7. wait[attempt] \in Nat
    <2> HIDE DEF wait
    <2>1. attempt \in 1 .. attempt BY SMT
    <2> QED BY <1>5, <2>1, WaitsAreTimes
  <1> QED BY <1>6, <1>7

-----------------------------------------------------------------------------
(* The chunks of a hole.                                                     *)

LEMMA RequestLimit == MaxMessagesPerRequest \in Nat /\ MaxMessagesPerRequest > 0
PROOF BY PolicyValid, SMT

Holed == {r \in [first : Nat, end : Nat] : r.first < r.end}
Askable == {r \in Holed : r.end - r.first <= MaxMessagesPerRequest}

\* Where the k-th chunk ends and the next one starts.
Edge(hole, k) == Lesser(hole.first + k * MaxMessagesPerRequest, hole.end)
Pieces(hole) == (Count(hole) + MaxMessagesPerRequest - 1) \div MaxMessagesPerRequest

LEMMA RoundedUp ==
    ASSUME NEW c \in Nat, NEW m \in Nat \ {0}, NEW q, q = (c + m - 1) \div m
    PROVE  q \in Nat /\ c <= q * m /\ q * m < c + m
PROOF
  <1>1. q \in Int /\ m * q <= c + m - 1 /\ c + m - 1 < m * q + m BY SMT
  <1> QED BY <1>1, SMT

LEMMA EdgesOfAHole ==
    ASSUME NEW hole \in Holed
    PROVE  /\ Pieces(hole) \in Nat
           /\ Edge(hole, 0) = hole.first /\ Edge(hole, Pieces(hole)) = hole.end
           /\ DOMAIN Chunks(hole) = 1 .. Pieces(hole)
           /\ \A i \in 1 .. Pieces(hole) :
                  /\ Chunks(hole)[i] = SequenceRange(Edge(hole, i - 1), Edge(hole, i))
                  /\ Chunks(hole)[i] \in Askable
PROOF
  <1> DEFINE m == MaxMessagesPerRequest
             c == hole.end - hole.first
             q == Pieces(hole)
  <1>1. m \in Nat /\ m > 0 BY RequestLimit
  <1>2. c \in Nat /\ c > 0 /\ Count(hole) = c /\ hole.first \in Nat /\ hole.end \in Nat
        BY SMT DEF Holed, Count, Empty
  <1>3. q \in Nat /\ c <= q * m /\ q * m < c + m
    <2>1. q = (c + m - 1) \div m BY <1>2 DEF Pieces
    <2> HIDE DEF q, c, m
    <2>2. m \in Nat \ {0} BY <1>1, SMT
    <2> QED BY <1>2, <2>1, <2>2, RoundedUp
  <1>4. hole.end = hole.first + c BY <1>2, SMT
  <1> HIDE DEF m, c, q
  <1>5. Edge(hole, 0) = hole.first BY <1>1, <1>2, <1>4, SMT DEF Edge, Lesser, m
  <1>6. Edge(hole, q) = hole.end
    <2>1. Edge(hole, q) = Lesser(hole.first + q * m, hole.first + c) BY <1>4 DEF Edge, m
    <2>2. q * m \in Nat BY <1>1, <1>3, SMT
    <2> QED BY <2>1, <2>2, <1>2, <1>3, <1>4, SMT DEF Lesser
  <1>7. ASSUME NEW i \in 1 .. q
        PROVE  /\ (i - 1) * m \in Nat /\ (i - 1) * m < c /\ i * m = (i - 1) * m + m
    <2>1. i - 1 \in Nat /\ i <= q /\ i \in Nat BY <1>3, SMT
    <2>2. (i - 1) * m \in Nat /\ i * m = (i - 1) * m + m BY <2>1, <1>1, SMT
    <2>3. i * m <= q * m BY <2>1, <1>1, <1>3, SMT
    <2> QED BY <2>2, <2>3, <1>1, <1>2, <1>3, SMT
  <1>8. /\ DOMAIN Chunks(hole) = 1 .. q
        /\ \A i \in 1 .. q : Chunks(hole)[i] =
               SequenceRange(hole.first + (i - 1) * m,
                             Lesser(hole.first + (i - 1) * m + m, hole.end))
        BY DEF Chunks, Pieces, m, q
  <1>9. ASSUME NEW i \in 1 .. q
        PROVE  /\ Chunks(hole)[i] = SequenceRange(Edge(hole, i - 1), Edge(hole, i))
               /\ Chunks(hole)[i] \in Askable
    <2> DEFINE s == (i - 1) * m
    <2>1. s \in Nat /\ s < c /\ i * m = s + m BY <1>7
    <2>2. Edge(hole, i - 1) = Lesser(hole.first + s, hole.end)
          /\ Edge(hole, i) = Lesser(hole.first + i * m, hole.end) BY DEF Edge, m
    <2>3. Chunks(hole)[i] = SequenceRange(hole.first + s, Lesser(hole.first + s + m, hole.end))
          BY <1>8
    <2> HIDE DEF s
    <2>4. Edge(hole, i - 1) = hole.first + s BY <2>1, <2>2, <1>2, <1>4, SMT DEF Lesser
    <2>5. Edge(hole, i) = Lesser(hole.first + s + m, hole.end)
          BY <2>1, <2>2, <1>1, <1>2, SMT
    <2>6. SequenceRange(hole.first + s, Lesser(hole.first + s + m, hole.end)) \in Askable
          BY <2>1, <1>1, <1>2, <1>4, SMT DEF SequenceRange, Lesser, Askable, Holed, m
    <2> QED BY <2>3, <2>4, <2>5, <2>6
  <1> QED BY <1>3, <1>5, <1>6, <1>8, <1>9 DEF q

-----------------------------------------------------------------------------
(* Admitting a chunk.                                                        *)

Entries == [range : Askable, age : Nat, wait : Nat, attempts : Nat]

\* No message is in two entries.
Apart(es) ==
    \A i, j \in DOMAIN es : i # j => ~Overlaps(es[i].range, es[j].range)

EndBy(es, n) == \A i \in DOMAIN es : es[i].range.end <= n

\* Every entry of d is one of es, or starts its attempts again with messages
\* that are new or were in an entry of es of its age.
Grown(es, new, d) ==
    \A j \in DOMAIN d :
        \/ \E i \in DOMAIN es : d[j] = es[i]
        \/ /\ d[j].attempts = 0 /\ d[j].wait = SettleDelay
           /\ \A n \in Numbers(d[j].range) \ new :
                  \E i \in DOMAIN es : n \in Numbers(es[i].range) /\ d[j].age = es[i].age

LEMMA GrownInTwo ==
    ASSUME NEW es, NEW d, NEW f, NEW S, NEW T, Grown(es, S, d), Grown(d, T, f)
    PROVE  Grown(es, S \cup T, f)
PROOF
  <1> SUFFICES ASSUME NEW j \in DOMAIN f
               PROVE  \/ \E i \in DOMAIN es : f[j] = es[i]
                      \/ /\ f[j].attempts = 0 /\ f[j].wait = SettleDelay
                         /\ \A n \in Numbers(f[j].range) \ (S \cup T) :
                                \E i \in DOMAIN es : /\ n \in Numbers(es[i].range)
                                                     /\ f[j].age = es[i].age
      BY DEF Grown
  <1>1. CASE \E k \in DOMAIN d : f[j] = d[k]
    <2>1. PICK k \in DOMAIN d : f[j] = d[k] BY <1>1
    <2>2. \/ \E i \in DOMAIN es : d[k] = es[i]
          \/ /\ d[k].attempts = 0 /\ d[k].wait = SettleDelay
             /\ \A n \in Numbers(d[k].range) \ S :
                    \E i \in DOMAIN es : n \in Numbers(es[i].range) /\ d[k].age = es[i].age
          BY Zenon DEF Grown
    <2> QED BY <2>1, <2>2
  <1>2. CASE ~ \E k \in DOMAIN d : f[j] = d[k]
    <2>1. /\ f[j].attempts = 0 /\ f[j].wait = SettleDelay
          /\ \A n \in Numbers(f[j].range) \ T :
                 \E k \in DOMAIN d : n \in Numbers(d[k].range) /\ f[j].age = d[k].age
          BY <1>2, Zenon DEF Grown
    <2>2. ASSUME NEW n \in Numbers(f[j].range) \ (S \cup T)
          PROVE  \E i \in DOMAIN es : n \in Numbers(es[i].range) /\ f[j].age = es[i].age
      <3>1. PICK k \in DOMAIN d : n \in Numbers(d[k].range) /\ f[j].age = d[k].age BY <2>1
      <3>2. n \notin S OBVIOUS
      <3>3. CASE \E i \in DOMAIN es : d[k] = es[i] BY <3>1, <3>3
      <3>4. CASE ~ \E i \in DOMAIN es : d[k] = es[i]
        <4>1. \A l \in Numbers(d[k].range) \ S :
                  \E i \in DOMAIN es : l \in Numbers(es[i].range) /\ d[k].age = es[i].age
              BY <3>4, Zenon DEF Grown
        <4> QED BY <3>1, <3>2, <4>1
      <3> QED BY <3>3, <3>4
    <2> QED BY <2>1, <2>2
  <1> QED BY <1>1, <1>2

LEMMA Askables ==
    ASSUME NEW r \in Askable
    PROVE  /\ r.first \in Nat /\ r.end \in Nat /\ r.first < r.end
           /\ r.end - r.first <= MaxMessagesPerRequest /\ ~Empty(r)
           /\ Count(r) = r.end - r.first /\ r = SequenceRange(r.first, r.end)
PROOF BY RequestLimit, SMT DEF Askable, Holed, Empty, Count, SequenceRange

\* What joining makes of two ranges, the second after the first.
LEMMA Joined ==
    ASSUME NEW r \in Askable, NEW chunk \in Askable, r.end <= chunk.first,
           Touches(r, chunk), Count(Merge(r, chunk)) <= MaxMessagesPerRequest
    PROVE  /\ Merge(r, chunk) \in Askable
           /\ Merge(r, chunk).end = chunk.end /\ Merge(r, chunk).first = r.first
           /\ r.end = chunk.first
           /\ Numbers(Merge(r, chunk)) = Numbers(r) \cup Numbers(chunk)
PROOF
  <1>1. /\ r.first \in Nat /\ r.end \in Nat /\ r.first < r.end /\ ~Empty(r)
        /\ chunk.first \in Nat /\ chunk.end \in Nat /\ chunk.first < chunk.end /\ ~Empty(chunk)
        BY Askables
  <1>2. r.end = chunk.first BY <1>1, SMT DEF Touches, Overlaps, AdjacentTo
  <1>3. Merge(r, chunk) = SequenceRange(r.first, chunk.end)
        BY <1>1, <1>2, SMT DEF Merge, Lesser, Greater
  <1>4. Count(SequenceRange(r.first, chunk.end)) = chunk.end - r.first
        BY <1>1, <1>2, SMT DEF Count, Empty, SequenceRange
  <1>5. SequenceRange(r.first, chunk.end) \in Askable
        BY <1>1, <1>2, <1>3, <1>4, SMT DEF Askable, Holed, SequenceRange
  <1>6. Numbers(SequenceRange(r.first, chunk.end)) = Numbers(r) \cup Numbers(chunk)
        BY <1>1, <1>2, SMT DEF Numbers, SequenceRange
  <1> QED BY <1>2, <1>3, <1>5, <1>6 DEF SequenceRange

\* What admitting a chunk does to entries that end before it.
Admitted(es, chunk, r) ==
    /\ r \in [entries : Seq(Entries), error : {"ok", "capacity_exceeded"}]
    /\ Apart(r.entries) /\ EndBy(r.entries, chunk.end)
    /\ Asked(es) \subseteq Asked(r.entries)
    /\ Asked(r.entries) \subseteq Asked(es) \cup Numbers(chunk)
    /\ r.error = "ok" => Numbers(chunk) \subseteq Asked(r.entries)
    /\ Grown(es, Numbers(chunk), r.entries)

LEMMA AdmitJoins ==
    ASSUME NEW es \in Seq(Entries), Apart(es), NEW chunk \in Askable,
           EndBy(es, chunk.first), NEW i \in DOMAIN es, Joins(es[i], chunk),
           NEW e, e = Extended(es[i], chunk)
    PROVE  Admitted(es, chunk, [entries |-> [es EXCEPT ![i] = e], error |-> "ok"])
PROOF
  <1> DEFINE d == [es EXCEPT ![i] = e]
  <1>1. i \in 1 .. Len(es) /\ DOMAIN es = 1 .. Len(es) /\ Len(es) \in Nat
        /\ \A j \in 1 .. Len(es) : es[j] \in Entries
        BY LenProperties, ElementOfSeq
  <1>2. es[i].range \in Askable /\ es[i].range.end <= chunk.first
        BY <1>1 DEF Entries, EndBy
  <1>3. /\ Merge(es[i].range, chunk) \in Askable
        /\ Merge(es[i].range, chunk).end = chunk.end
        /\ Merge(es[i].range, chunk).first = es[i].range.first
        /\ es[i].range.end = chunk.first
        /\ Numbers(Merge(es[i].range, chunk)) = Numbers(es[i].range) \cup Numbers(chunk)
        BY <1>2, Joined DEF Joins
  <1>4. /\ e \in Entries /\ e.range = Merge(es[i].range, chunk)
        /\ e.attempts = 0 /\ e.wait = SettleDelay /\ e.age = es[i].age
        BY <1>1, <1>3, PolicyValid DEF Entries, Extended
  <1>5. /\ d \in Seq(Entries) /\ DOMAIN d = 1 .. Len(es)
        /\ \A j \in 1 .. Len(es) : d[j] = IF j = i THEN e ELSE es[j]
        BY <1>1, <1>4, ExceptSeq, LenProperties
  <1> HIDE DEF d
  <1>6. ASSUME NEW j \in 1 .. Len(es), j # i
        PROVE  ~Overlaps(e.range, es[j].range) /\ ~Overlaps(es[j].range, e.range)
    <2>1. ~Overlaps(es[i].range, es[j].range) BY <1>1, <1>6 DEF Apart
    <2>2. es[j].range \in Askable /\ es[j].range.end <= chunk.first
          BY <1>1 DEF Entries, EndBy
    <2>3. /\ es[i].range.first \in Nat /\ es[i].range.end \in Nat
          /\ es[i].range.first < es[i].range.end /\ ~Empty(es[i].range)
          /\ es[j].range.first \in Nat /\ es[j].range.end \in Nat
          /\ es[j].range.first < es[j].range.end /\ ~Empty(es[j].range)
          /\ chunk.first \in Nat /\ chunk.end \in Nat
          BY <1>2, <2>2, Askables
    <2>4. e.range.first = es[i].range.first /\ e.range.end = chunk.end BY <1>3, <1>4
    <2>5. es[j].range.end <= es[i].range.first
          BY <2>1, <2>2, <2>3, <1>3, SMT DEF Overlaps
    <2> QED BY <2>3, <2>4, <2>5, SMT DEF Overlaps
  <1>7. Apart(d)
    <2> SUFFICES ASSUME NEW j \in 1 .. Len(es), NEW k \in 1 .. Len(es), j # k
                 PROVE  ~Overlaps(d[j].range, d[k].range)
        BY <1>5 DEF Apart
    <2>1. CASE j = i
      <3>1. d[j] = e /\ d[k] = es[k] BY <2>1, <1>5
      <3> QED BY <2>1, <3>1, <1>6
    <2>2. CASE k = i
      <3>1. d[k] = e /\ d[j] = es[j] BY <2>2, <1>5
      <3> QED BY <2>2, <3>1, <1>6
    <2>3. CASE j # i /\ k # i
      <3>1. d[j] = es[j] /\ d[k] = es[k] BY <2>3, <1>5
      <3> QED BY <3>1, <1>1 DEF Apart
    <2> QED BY <2>1, <2>2, <2>3
  <1>8. EndBy(d, chunk.end)
    <2> SUFFICES ASSUME NEW j \in 1 .. Len(es) PROVE d[j].range.end <= chunk.end
        BY <1>5 DEF EndBy
    <2>1. chunk.first \in Nat /\ chunk.end \in Nat /\ chunk.first < chunk.end BY Askables
    <2>2. CASE j = i
      <3>1. d[j].range.end = chunk.end BY <2>2, <1>3, <1>4, <1>5
      <3> QED BY <3>1, <2>1, SMT
    <2>3. CASE j # i
      <3>1. d[j] = es[j] /\ es[j].range \in Askable /\ es[j].range.end <= chunk.first
            BY <2>3, <1>1, <1>5 DEF EndBy, Entries
      <3>2. es[j].range.end \in Nat BY <3>1, Askables
      <3> QED BY <3>1, <3>2, <2>1, SMT
    <2> QED BY <2>2, <2>3
  <1>9. Asked(d) = Asked(es) \cup Numbers(chunk)
    <2>1. Numbers(d[i].range) = Numbers(es[i].range) \cup Numbers(chunk) BY <1>1, <1>3, <1>4, <1>5
    <2>2. \A j \in 1 .. Len(es) : j # i => d[j] = es[j] BY <1>5
    <2> QED BY <1>1, <1>5, <2>1, <2>2 DEF Asked
  <1>10. Grown(es, Numbers(chunk), d)
    <2> SUFFICES ASSUME NEW j \in 1 .. Len(es), ~ \E k \in DOMAIN es : d[j] = es[k]
                 PROVE  /\ d[j].attempts = 0 /\ d[j].wait = SettleDelay
                        /\ \A n \in Numbers(d[j].range) \ Numbers(chunk) :
                              \E k \in DOMAIN es : /\ n \in Numbers(es[k].range)
                                                   /\ d[j].age = es[k].age
        BY <1>5, Zenon DEF Grown
    <2>1. j = i /\ d[j] = e BY <1>1, <1>5
    <2> QED BY <2>1, <1>3, <1>4
  <1> QED BY <1>5, <1>7, <1>8, <1>9, <1>10 DEF Admitted, d

LEMMA AdmitAppends ==
    ASSUME NEW es \in Seq(Entries), Apart(es), NEW chunk \in Askable, EndBy(es, chunk.first)
    PROVE  Admitted(es, chunk, [entries |-> Append(es, NewEntry(chunk)), error |-> "ok"])
PROOF
  <1> DEFINE e == NewEntry(chunk)
             d == Append(es, e)
  <1>1. DOMAIN es = 1 .. Len(es) /\ Len(es) \in Nat
        /\ \A j \in 1 .. Len(es) : es[j] \in Entries
        BY LenProperties, ElementOfSeq
  <1>2. /\ e \in Entries /\ e.range = chunk /\ e.attempts = 0 /\ e.wait = SettleDelay
        BY PolicyValid DEF NewEntry, Entries
  <1>3. chunk.first \in Nat /\ chunk.end \in Nat /\ chunk.first < chunk.end BY Askables
  <1> HIDE DEF e
  <1>4. /\ d \in Seq(Entries) /\ Len(d) = Len(es) + 1 /\ d[Len(es) + 1] = e
        /\ \A j \in 1 .. Len(es) : d[j] = es[j]
        BY <1>2, AppendProperties
  <1>5. DOMAIN d = 1 .. Len(es) + 1 BY <1>4, LenProperties
  <1> HIDE DEF d
  <1>6. ASSUME NEW j \in 1 .. Len(es)
        PROVE  /\ ~Overlaps(es[j].range, chunk) /\ ~Overlaps(chunk, es[j].range)
               /\ es[j].range.end <= chunk.end
    <2>1. es[j].range \in Askable /\ es[j].range.end <= chunk.first
          BY <1>1 DEF Entries, EndBy
    <2>2. es[j].range.end \in Nat BY <2>1, Askables
    <2> QED BY <2>1, <2>2, <1>3, SMT DEF Overlaps
  <1>7. \A j \in DOMAIN d : j \in 1 .. Len(es) \/ j = Len(es) + 1 BY <1>1, <1>5, SMT
  <1>8. Apart(d) BY <1>1, <1>2, <1>4, <1>6, <1>7 DEF Apart
  <1>9. EndBy(d, chunk.end)
    <2>1. chunk.end <= chunk.end BY <1>3, SMT
    <2> QED BY <1>2, <1>4, <1>6, <1>7, <2>1 DEF EndBy
  <1>10. Asked(d) = Asked(es) \cup Numbers(chunk)
    <2>1. \A j \in 1 .. Len(es) : j \in DOMAIN d BY <1>1, <1>5, SMT
    <2>2. Len(es) + 1 \in DOMAIN d BY <1>1, <1>5, SMT
    <2> QED BY <1>1, <1>2, <1>4, <1>7, <2>1, <2>2 DEF Asked
  <1>11. Grown(es, Numbers(chunk), d) BY <1>1, <1>2, <1>4, <1>7, Zenon DEF Grown
  <1> QED BY <1>4, <1>8, <1>9, <1>10, <1>11 DEF Admitted, d, e

Begun(es) == [entries |-> es, error |-> "ok"]

LEMMA AdmitOne ==
    ASSUME NEW es \in Seq(Entries), Apart(es), NEW chunk \in Askable, EndBy(es, chunk.first)
    PROVE  Admitted(es, chunk, Admit(Begun(es), chunk))
PROOF
  <1> DEFINE fits == {i \in DOMAIN es : Joins(es[i], chunk)}
             i == CHOOSE j \in fits : \A k \in fits : j <= k
  <1>1. DOMAIN es = 1 .. Len(es) /\ Len(es) \in Nat BY LenProperties
  <1>2. CASE fits # {}
    <2>1. fits \in SUBSET Nat BY <1>1, SMT
    <2>2. \E j \in fits : \A k \in fits : j <= k
      <3> HIDE DEF fits
      <3> QED BY <1>2, <2>1, LeastNumber
    <2>3. i \in fits
      <3> HIDE DEF fits
      <3> QED BY <2>2, Zenon
    <2>4. i \in DOMAIN es /\ Joins(es[i], chunk) BY <2>3
    <2>5. Admit(Begun(es), chunk)
          = [Begun(es) EXCEPT !.entries = [es EXCEPT ![i] = Extended(es[i], chunk)]]
          BY <1>2, Zenon DEF Admit, Begun
    <2> HIDE DEF i, fits
    <2> DEFINE e == Extended(es[i], chunk)
    <2>6. Admit(Begun(es), chunk) = [entries |-> [es EXCEPT ![i] = e], error |-> "ok"]
      <3> HIDE DEF e
      <3> QED BY <2>5 DEF Begun, e
    <2>7. Admitted(es, chunk, [entries |-> [es EXCEPT ![i] = e], error |-> "ok"])
          BY <2>4, AdmitJoins
    <2> QED BY <2>6, <2>7
  <1>3. CASE fits = {} /\ Len(es) >= MaxOutstandingGaps
    <2>1. Admit(Begun(es), chunk) = [Begun(es) EXCEPT !.error = "capacity_exceeded"]
          BY <1>3, Zenon DEF Admit, Begun
    <2>2. Admit(Begun(es), chunk) = [entries |-> es, error |-> "capacity_exceeded"]
          BY <2>1 DEF Begun
    <2>3. EndBy(es, chunk.end)
      <3>1. chunk.first \in Nat /\ chunk.end \in Nat /\ chunk.first < chunk.end BY Askables
      <3>2. \A j \in 1 .. Len(es) : es[j].range.end \in Nat
        <4> SUFFICES ASSUME NEW j \in 1 .. Len(es) PROVE es[j].range.end \in Nat OBVIOUS
        <4>1. es[j] \in Entries BY ElementOfSeq
        <4>2. es[j].range \in Askable BY <4>1 DEF Entries
        <4> QED BY <4>2, Askables
      <3> QED BY <1>1, <3>1, <3>2, SMT DEF EndBy
    <2>4. Grown(es, Numbers(chunk), es) BY DEF Grown
    <2> QED BY <2>2, <2>3, <2>4 DEF Admitted
  <1>4. CASE fits = {} /\ ~ (Len(es) >= MaxOutstandingGaps)
    <2>1. Admit(Begun(es), chunk) = [Begun(es) EXCEPT !.entries = Append(es, NewEntry(chunk))]
          BY <1>4, Zenon DEF Admit, Begun
    <2>2. Admit(Begun(es), chunk) = [entries |-> Append(es, NewEntry(chunk)), error |-> "ok"]
          BY <2>1 DEF Begun
    <2> QED BY <2>2, AdmitAppends
  <1> QED BY <1>2, <1>3, <1>4

-----------------------------------------------------------------------------
(* The fold of the chunks of a hole.                                         *)

\* h is the fold over the sets of the first m indices.
Folding(h, base, seq, m) ==
    h = [s \in SUBSET (1 .. m) |->
            IF s = {} THEN base ELSE Admit(h[s \ {Max(s)}], seq[Max(s)])]

LEMMA FoldingGrows ==
    ASSUME NEW base, NEW seq, NEW m \in Nat, NEW h, Folding(h, base, seq, m)
    PROVE  \E g : Folding(g, base, seq, m + 1)
PROOF
  <1> DEFINE last == m + 1
             g == [s \in SUBSET (1 .. last) |->
                     IF last \in s THEN Admit(h[s \ {last}], seq[last]) ELSE h[s]]
             next(f, s) == IF s = {} THEN base ELSE Admit(f[s \ {Max(s)}], seq[Max(s)])
  <1>1. last \in Nat /\ last \notin 1 .. m /\ (1 .. last) \ {last} = 1 .. m BY SMT
  <1> HIDE DEF last
  <1>2. ASSUME NEW s \in SUBSET (1 .. last) PROVE g[s] = next(g, s)
    <2>1. CASE last \in s
      <3>1. s # {} BY <2>1
      <3>2. Max(s) \in s /\ \A k \in s : k <= Max(s) BY <1>1, <3>1, GreatestNumber
      <3>3. Max(s) = last
        <4>1. Max(s) \in 1 .. last /\ last <= Max(s) BY <2>1, <3>2
        <4> QED BY <4>1, <1>1, SMT
      <3>4. s \ {last} \in SUBSET (1 .. last) /\ last \notin s \ {last} OBVIOUS
      <3>5. g[s \ {last}] = h[s \ {last}] BY <3>4
      <3>6. g[s] = Admit(h[s \ {last}], seq[last]) BY <2>1
      <3> HIDE DEF g
      <3> QED BY <3>1, <3>3, <3>5, <3>6
    <2>2. CASE last \notin s
      <3>1. s \in SUBSET (1 .. m) BY <1>1, <2>2
      <3>2. g[s] = h[s] BY <2>2
      <3>3. h[s] = next(h, s) BY <3>1, Zenon DEF Folding
      <3>4. s \ {Max(s)} \in SUBSET (1 .. last) /\ last \notin s \ {Max(s)} BY <2>2
      <3>5. g[s \ {Max(s)}] = h[s \ {Max(s)}] BY <3>4
      <3> HIDE DEF g
      <3> QED BY <3>2, <3>3, <3>5
    <2> QED BY <2>1, <2>2
  <1>3. g = [s \in SUBSET (1 .. last) |-> next(g, s)]
    <2> HIDE DEF next
    <2> QED BY <1>2
  <1>4. Folding(g, base, seq, last)
    <2> HIDE DEF g
    <2> QED BY <1>3, Zenon DEF Folding
  <1> QED BY <1>4 DEF last

LEMMA FoldingExists ==
    ASSUME NEW base, NEW seq, NEW n \in Nat
    PROVE  \E h : Folding(h, base, seq, n)
PROOF
  <1> DEFINE S == {m \in Nat : \E h : Folding(h, base, seq, m)}
  <1>1. 0 \in S
    <2> DEFINE h == [s \in SUBSET (1 .. 0) |-> base]
    <2>1. \A s \in SUBSET (1 .. 0) : s = {} BY SMT
    <2>2. h = [s \in SUBSET (1 .. 0) |->
                 IF s = {} THEN base ELSE Admit(h[s \ {Max(s)}], seq[Max(s)])]
          BY <2>1
    <2>3. Folding(h, base, seq, 0)
      <3> HIDE DEF h
      <3> QED BY <2>2, Zenon DEF Folding
    <2> QED BY <2>3
  <1>2. \A m \in S : m + 1 \in S BY FoldingGrows
  <1>3. S = Nat
    <2> HIDE DEF S
    <2>1. S \in SUBSET Nat BY DEF S
    <2> QED BY <1>1, <1>2, <2>1, NumbersByInduction
  <1> QED BY <1>3

\* FoldLeft goes through the sequence from its first element.
Accumulates(acc, base, seq, n) ==
    /\ acc[0] = base
    /\ \A k \in 1 .. n : acc[k] = Admit(acc[k - 1], seq[k])

LEMMA FoldInSteps ==
    ASSUME NEW base, NEW seq, NEW n \in Nat, DOMAIN seq = 1 .. n
    PROVE  \E acc : Accumulates(acc, base, seq, n) /\ FoldLeft(Admit, base, seq) = acc[n]
PROOF
  <1> DEFINE iter == CHOOSE h : Folding(h, base, seq, n)
             acc == [k \in 0 .. n |-> iter[1 .. k]]
  <1>1. Folding(iter, base, seq, n) BY FoldingExists, Zenon
  <1>2. FoldLeft(Admit, base, seq) = iter[DOMAIN seq]
        BY Zenon DEF FoldLeft, MapThenFoldSet, Folding
  <1> HIDE DEF iter
  <1>3. \A s \in SUBSET (1 .. n) :
           iter[s] = IF s = {} THEN base ELSE Admit(iter[s \ {Max(s)}], seq[Max(s)])
        BY <1>1, Zenon DEF Folding
  <1>4. acc[0] = base
    <2>1. 1 .. 0 = {} /\ 0 \in 0 .. n BY SMT
    <2>2. acc[0] = iter[{}] BY <2>1
    <2> QED BY <1>3, <2>2
  <1>5. ASSUME NEW k \in 1 .. n PROVE acc[k] = Admit(acc[k - 1], seq[k])
    <2>1. /\ 1 .. k \in SUBSET (1 .. n) /\ 1 .. k # {} /\ k \in 1 .. k /\ k \in Nat
          /\ (1 .. k) \ {k} = 1 .. k - 1 /\ k \in 0 .. n /\ k - 1 \in 0 .. n
      <3>1. k \in Nat /\ k <= n /\ 1 <= k BY SMT
      <3>2. k \in 0 .. n /\ k - 1 \in 0 .. n /\ k \in 1 .. k BY <3>1, SMT
      <3>3. \A x \in 1 .. k : x \in 1 .. n BY <3>1, SMT
      <3>4. (1 .. k) \ {k} = 1 .. k - 1 BY <3>1, SMT
      <3> QED BY <3>1, <3>2, <3>3, <3>4
    <2>2. Max(1 .. k) = k
      <3>1. Max(1 .. k) \in 1 .. k /\ k <= Max(1 .. k) BY <2>1, GreatestNumber
      <3> QED BY <3>1, <2>1, SMT
    <2>3. iter[1 .. k] = Admit(iter[(1 .. k) \ {k}], seq[k]) BY <1>3, <2>1, <2>2
    <2> QED BY <2>1, <2>3
  <1>6. n \in 0 .. n BY SMT
  <1>7. FoldLeft(Admit, base, seq) = acc[n] BY <1>2, <1>6
  <1> QED BY <1>4, <1>5, <1>7 DEF Accumulates

\* An admission followed by the next one, or by nothing once the array is full.
LEMMA AdmittedThen ==
    ASSUME NEW es \in Seq(Entries), NEW a \in Nat, NEW b \in Nat, NEW c \in Nat,
           a <= b, b < c, SequenceRange(b, c) \in Askable,
           NEW r, Admitted(es, SequenceRange(a, b), r)
    PROVE  Admitted(es, SequenceRange(a, c), Admit(r, SequenceRange(b, c)))
PROOF
  <1> DEFINE old == SequenceRange(a, b)
             chunk == SequenceRange(b, c)
             whole == SequenceRange(a, c)
             t == Admit(r, chunk)
  <1>1. /\ old.end = b /\ chunk.first = b /\ chunk.end = c /\ whole.end = c
        BY DEF SequenceRange
  <1>2. Numbers(whole) = Numbers(old) \cup Numbers(chunk)
        BY SMT DEF Numbers, SequenceRange
  <1>3. /\ r \in [entries : Seq(Entries), error : {"ok", "capacity_exceeded"}]
        /\ Apart(r.entries) /\ EndBy(r.entries, b)
        /\ Asked(es) \subseteq Asked(r.entries)
        /\ Asked(r.entries) \subseteq Asked(es) \cup Numbers(old)
        /\ r.error = "ok" => Numbers(old) \subseteq Asked(r.entries)
        /\ Grown(es, Numbers(old), r.entries)
        BY <1>1 DEF Admitted
  <1> HIDE DEF old, chunk, whole, t
  <1>4. CASE r.error # "ok"
    <2>1. t = r BY <1>4, Zenon DEF Admit, t
    <2>2. EndBy(r.entries, c)
      <3> SUFFICES ASSUME NEW j \in DOMAIN r.entries PROVE r.entries[j].range.end <= c
          BY DEF EndBy
      <3>1. r.entries[j] \in Entries BY <1>3, LenProperties, ElementOfSeq
      <3>2. r.entries[j].range \in Askable BY <3>1 DEF Entries
      <3>3. r.entries[j].range.end \in Nat BY <3>2, Askables
      <3>4. r.entries[j].range.end <= b BY <1>3 DEF EndBy
      <3> QED BY <3>3, <3>4, SMT
    <2>3. Grown(es, Numbers(whole), r.entries) BY <1>2, <1>3, Zenon DEF Grown
    <2>4. Asked(r.entries) \subseteq Asked(es) \cup Numbers(whole) BY <1>2, <1>3
    <2>5. Admitted(es, whole, r) BY <1>1, <1>3, <1>4, <2>2, <2>3, <2>4, Zenon DEF Admitted
    <2> QED BY <2>1, <2>5 DEF t, whole, chunk
  <1>5. CASE r.error = "ok"
    <2>1. r = Begun(r.entries) BY <1>3, <1>5, SMT DEF Begun
    <2>2. Admitted(r.entries, chunk, Admit(Begun(r.entries), chunk))
          BY <1>1, <1>3, AdmitOne DEF chunk
    <2>3. Admitted(r.entries, chunk, t) BY <2>1, <2>2 DEF t
    <2>4. /\ t \in [entries : Seq(Entries), error : {"ok", "capacity_exceeded"}]
          /\ Apart(t.entries) /\ EndBy(t.entries, c)
          /\ Asked(r.entries) \subseteq Asked(t.entries)
          /\ Asked(t.entries) \subseteq Asked(r.entries) \cup Numbers(chunk)
          /\ t.error = "ok" => Numbers(chunk) \subseteq Asked(t.entries)
          /\ Grown(r.entries, Numbers(chunk), t.entries)
          BY <1>1, <2>3, Zenon DEF Admitted
    <2>5. Grown(es, Numbers(whole), t.entries)
      <3>1. Grown(es, Numbers(old) \cup Numbers(chunk), t.entries)
            BY <1>3, <2>4, GrownInTwo
      <3> QED BY <3>1, <1>2
    <2>6. /\ Asked(es) \subseteq Asked(t.entries)
          /\ Asked(t.entries) \subseteq Asked(es) \cup Numbers(whole)
          /\ t.error = "ok" => Numbers(whole) \subseteq Asked(t.entries)
          BY <1>2, <1>3, <1>5, <2>4
    <2>7. Admitted(es, whole, t) BY <1>1, <2>4, <2>5, <2>6, Zenon DEF Admitted
    <2> QED BY <2>7 DEF t, whole, chunk
  <1> QED BY <1>4, <1>5

\* on_gap: what is asked for afterwards, and in which entries.
LEMMA OnGapAdmits ==
    ASSUME NEW es \in Seq(Entries), Apart(es), NEW hole \in Holed, EndBy(es, hole.first)
    PROVE  Admitted(es, hole, OnGap(es, hole))
PROOF
  <1> DEFINE n == Pieces(hole)
             edge(k) == Edge(hole, k)
  <1>1. /\ n \in Nat /\ edge(0) = hole.first /\ edge(n) = hole.end
        /\ DOMAIN Chunks(hole) = 1 .. n
        /\ \A i \in 1 .. n : /\ Chunks(hole)[i] = SequenceRange(edge(i - 1), edge(i))
                             /\ Chunks(hole)[i] \in Askable
        BY EdgesOfAHole
  <1>2. hole.first \in Nat /\ hole.end \in Nat BY DEF Holed
  <1> HIDE DEF n, edge
  <1>3. PICK acc : /\ Accumulates(acc, Begun(es), Chunks(hole), n)
                   /\ FoldLeft(Admit, Begun(es), Chunks(hole)) = acc[n]
        BY <1>1, FoldInSteps
  <1>4. /\ acc[0] = Begun(es)
        /\ \A k \in 1 .. n : acc[k] = Admit(acc[k - 1], Chunks(hole)[k])
        BY <1>3 DEF Accumulates
  <1> DEFINE Inv(k) == /\ edge(k) \in Nat /\ hole.first <= edge(k)
                       /\ Admitted(es, SequenceRange(hole.first, edge(k)), acc[k])
             S == {k \in Nat : k <= n => Inv(k)}
  <1>5. Inv(0)
    <2> DEFINE none == SequenceRange(hole.first, hole.first)
    <2>1. none.end = hole.first /\ Numbers(none) = {} BY <1>2, SMT DEF SequenceRange, Numbers
    <2> HIDE DEF none
    <2>2. /\ Begun(es) \in [entries : Seq(Entries), error : {"ok", "capacity_exceeded"}]
          /\ Begun(es).entries = es /\ Begun(es).error = "ok"
          BY DEF Begun
    <2>3. Grown(es, {}, es) BY Zenon DEF Grown
    <2>4. Admitted(es, none, Begun(es)) BY <2>1, <2>2, <2>3 DEF Admitted
    <2>5. hole.first <= hole.first BY <1>2, SMT
    <2> QED BY <1>1, <1>2, <1>4, <2>4, <2>5 DEF none
  <1>6. ASSUME NEW k \in Nat, k + 1 <= n, Inv(k) PROVE Inv(k + 1)
    <2>1. k + 1 \in 1 .. n /\ k + 1 - 1 = k BY <1>1, <1>6, SMT
    <2> DEFINE b == edge(k)
               c == edge(k + 1)
    <2>2. /\ Chunks(hole)[k + 1] = SequenceRange(b, c) /\ SequenceRange(b, c) \in Askable
          /\ acc[k + 1] = Admit(acc[k], SequenceRange(b, c))
          BY <1>1, <1>4, <2>1
    <2>3. /\ b \in Nat /\ hole.first <= b
          /\ Admitted(es, SequenceRange(hole.first, b), acc[k])
          BY <1>6
    <2> HIDE DEF b, c
    <2>4. /\ SequenceRange(b, c).first = b /\ SequenceRange(b, c).end = c BY DEF SequenceRange
    <2>5. c \in Nat /\ b < c BY <2>2, <2>4, Askables
    <2>6. Admitted(es, SequenceRange(hole.first, c), acc[k + 1])
          BY <1>2, <2>2, <2>3, <2>5, AdmittedThen
    <2>7. hole.first <= c BY <1>2, <2>3, <2>5, SMT
    <2> QED BY <2>5, <2>6, <2>7 DEF c
  <1>7. S = Nat
    <2>1. 0 \in S BY <1>5
    <2>2. ASSUME NEW k \in S PROVE k + 1 \in S
      <3>1. k \in Nat /\ k + 1 \in Nat /\ (k <= n => Inv(k)) OBVIOUS
      <3>2. k + 1 <= n => k <= n BY <3>1, <1>1, SMT
      <3> HIDE DEF Inv
      <3> QED BY <3>1, <3>2, <1>6
    <2>3. S \in SUBSET Nat OBVIOUS
    <2> HIDE DEF S
    <2> QED BY <2>1, <2>2, <2>3, NumbersByInduction
  <1>8. Inv(n)
    <2> HIDE DEF Inv
    <2>1. n \in S /\ n <= n BY <1>1, <1>7, SMT
    <2> QED BY <2>1
  <1>9. SequenceRange(hole.first, hole.end) = hole BY SMT DEF SequenceRange, Holed
  <1>10. OnGap(es, hole) = acc[n] BY <1>3 DEF OnGap, Begun
  <1> QED BY <1>1, <1>8, <1>9, <1>10

-----------------------------------------------------------------------------
(* Flattening the halves of all the entries.                                 *)

\* f[i] is the first i sequences of ss after each other.
Flattening(f, ss, m) ==
    f = [i \in 1 .. m |-> IF i = 1 THEN ss[i] ELSE f[i - 1] \o ss[i]]

LEMMA FlatteningGrows ==
    ASSUME NEW ss, NEW m \in Nat, NEW f, Flattening(f, ss, m)
    PROVE  \E g : Flattening(g, ss, m + 1)
PROOF
  <1> DEFINE last == m + 1
             g == [i \in 1 .. last |->
                     IF i = last THEN (IF i = 1 THEN ss[i] ELSE f[i - 1] \o ss[i]) ELSE f[i]]
             next(h, i) == IF i = 1 THEN ss[i] ELSE h[i - 1] \o ss[i]
  <1>1. last \in Nat /\ last - 1 = m BY SMT
  <1>2. \A i \in 1 .. last : i # last => i \in 1 .. m BY SMT
  <1> HIDE DEF last
  <1>3. ASSUME NEW i \in 1 .. last PROVE g[i] = next(g, i)
    <2>1. CASE i = 1
      <3>1. CASE i = last BY <2>1, <3>1
      <3>2. CASE i # last
        <4>1. i \in 1 .. m BY <3>2, <1>2
        <4>2. f[i] = next(f, i) BY <4>1, Zenon DEF Flattening
        <4> QED BY <2>1, <3>2, <4>2
      <3> QED BY <3>1, <3>2
    <2>2. CASE i # 1
      <3>1. i - 1 \in 1 .. last /\ i - 1 # last BY <1>1, <2>2, SMT
      <3>2. g[i - 1] = f[i - 1] BY <3>1
      <3>3. CASE i = last
        <4>1. g[i] = f[i - 1] \o ss[i] BY <2>2, <3>3
        <4> HIDE DEF g
        <4> QED BY <2>2, <3>2, <4>1
      <3>4. CASE i # last
        <4>1. i \in 1 .. m BY <3>4, <1>2
        <4>2. f[i] = next(f, i) BY <4>1, Zenon DEF Flattening
        <4>3. g[i] = f[i] BY <3>4
        <4> HIDE DEF g
        <4> QED BY <2>2, <3>2, <4>2, <4>3
      <3> QED BY <3>3, <3>4
    <2> QED BY <2>1, <2>2
  <1>4. g = [i \in 1 .. last |-> next(g, i)]
    <2> HIDE DEF next
    <2> QED BY <1>3
  <1>5. Flattening(g, ss, last)
    <2> HIDE DEF g
    <2> QED BY <1>4, Zenon DEF Flattening
  <1> QED BY <1>5 DEF last

LEMMA FlatteningExists ==
    ASSUME NEW ss, NEW n \in Nat
    PROVE  \E f : Flattening(f, ss, n)
PROOF
  <1> DEFINE S == {m \in Nat : \E f : Flattening(f, ss, m)}
  <1>1. 0 \in S
    <2> DEFINE f == [i \in 1 .. 0 |-> ss[i]]
    <2>1. 1 .. 0 = {} BY SMT
    <2>2. f = [i \in 1 .. 0 |-> IF i = 1 THEN ss[i] ELSE f[i - 1] \o ss[i]] BY <2>1
    <2>3. Flattening(f, ss, 0)
      <3> HIDE DEF f
      <3> QED BY <2>2, Zenon DEF Flattening
    <2> QED BY <2>3
  <1>2. \A m \in S : m + 1 \in S BY FlatteningGrows
  <1>3. S = Nat
    <2> HIDE DEF S
    <2>1. S \in SUBSET Nat BY DEF S
    <2> QED BY <1>1, <1>2, <2>1, NumbersByInduction
  <1> QED BY <1>3

LEMMA FlattenInSteps ==
    ASSUME NEW ss, Len(ss) \in Nat, Len(ss) # 0
    PROVE  \E f : /\ FlattenSeq(ss) = f[Len(ss)]
                 /\ f[1] = ss[1]
                 /\ \A i \in 1 .. Len(ss) : i # 1 => f[i] = f[i - 1] \o ss[i]
PROOF
  <1> DEFINE n == Len(ss)
             flatten == CHOOSE f : Flattening(f, ss, n)
  <1>1. Flattening(flatten, ss, n) BY FlatteningExists, Zenon
  <1>2. FlattenSeq(ss) = flatten[n] BY Zenon DEF FlattenSeq, Flattening
  <1> HIDE DEF flatten
  <1>3. \A i \in 1 .. n : flatten[i] = IF i = 1 THEN ss[i] ELSE flatten[i - 1] \o ss[i]
        BY <1>1, Zenon DEF Flattening
  <1>4. 1 \in 1 .. n BY SMT
  <1> QED BY <1>2, <1>3, <1>4

-----------------------------------------------------------------------------
(* What an arrival leaves of an entry.                                       *)

LEMMA Shared ==
    ASSUME NEW r \in Askable, NEW o \in Askable
    PROVE  Overlaps(r, o) <=> \E n \in Numbers(r) : n \in Numbers(o)
PROOF
  <1>1. /\ r.first \in Nat /\ r.end \in Nat /\ r.first < r.end /\ ~Empty(r)
        /\ o.first \in Nat /\ o.end \in Nat /\ o.first < o.end /\ ~Empty(o)
        BY Askables
  <1>2. Overlaps(r, o) => Greater(r.first, o.first) \in Numbers(r) \cap Numbers(o)
        BY <1>1, SMT DEF Overlaps, Greater, Numbers
  <1>3. ASSUME NEW n \in Numbers(r), n \in Numbers(o) PROVE Overlaps(r, o)
        BY <1>1, <1>3, SMT DEF Overlaps, Numbers
  <1> QED BY <1>2, <1>3

LEMMA Remainder ==
    ASSUME NEW r \in Askable, NEW arrived \in Holed,
           NEW left, left = Subtract(r, arrived)
    PROVE  /\ ~Empty(left.before) => left.before \in Askable
           /\ ~Empty(left.after) => left.after \in Askable
           /\ Empty(left.before) => Numbers(left.before) = {}
           /\ Empty(left.after) => Numbers(left.after) = {}
           /\ Numbers(left.before) \cup Numbers(left.after) = Numbers(r) \ Numbers(arrived)
           /\ ~Overlaps(left.before, left.after) /\ ~Overlaps(left.after, left.before)
PROOF
  <1>1. /\ r.first \in Nat /\ r.end \in Nat /\ r.first < r.end /\ ~Empty(r)
        /\ r.end - r.first <= MaxMessagesPerRequest /\ r = SequenceRange(r.first, r.end)
        BY Askables
  <1>2. /\ arrived.first \in Nat /\ arrived.end \in Nat /\ arrived.first < arrived.end
        /\ ~Empty(arrived)
        BY SMT DEF Holed, Empty
  <1>3. Empty(NoRange) /\ Numbers(NoRange) = {}
        BY SMT DEF Empty, Numbers, NoRange, SequenceRange
  <1>4. CASE ~Overlaps(r, arrived)
    <2>1. left.before = r /\ left.after = NoRange BY <1>4 DEF Subtract
    <2>2. r.end <= arrived.first \/ arrived.end <= r.first BY <1>1, <1>2, <1>4, SMT DEF Overlaps
    <2>3. Numbers(r) \ Numbers(arrived) = Numbers(r) BY <1>1, <1>2, <2>2, SMT DEF Numbers
    <2> QED BY <1>1, <1>3, <2>1, <2>3 DEF Overlaps
  <1>5. CASE Overlaps(r, arrived)
    <2>1. r.first < arrived.end /\ arrived.first < r.end BY <1>5 DEF Overlaps
    <2>2. left.before = IF arrived.first > r.first
                        THEN SequenceRange(r.first, arrived.first) ELSE NoRange
          BY <1>5 DEF Subtract
    <2>3. left.after = IF arrived.end < r.end
                       THEN SequenceRange(arrived.end, r.end) ELSE NoRange
          BY <1>5 DEF Subtract
    <2>4. /\ ~Empty(left.before) => left.before \in Askable
          /\ Empty(left.before) => Numbers(left.before) = {}
          /\ \A n : n \in Numbers(left.before) <=> n \in Numbers(r) /\ n < arrived.first
      <3>1. CASE arrived.first > r.first
        <4>1. left.before = SequenceRange(r.first, arrived.first) BY <2>2, <3>1
        <4> QED BY <1>1, <1>2, <2>1, <3>1, <4>1, RequestLimit, SMT
                DEF Askable, Holed, SequenceRange, Empty, Numbers
      <3>2. CASE ~ (arrived.first > r.first)
        <4>1. left.before = NoRange BY <2>2, <3>2
        <4> QED BY <1>1, <1>2, <1>3, <3>2, <4>1, SMT DEF Numbers
      <3> QED BY <3>1, <3>2
    <2>5. /\ ~Empty(left.after) => left.after \in Askable
          /\ Empty(left.after) => Numbers(left.after) = {}
          /\ \A n : n \in Numbers(left.after) <=> n \in Numbers(r) /\ n >= arrived.end
      <3>1. CASE arrived.end < r.end
        <4>1. left.after = SequenceRange(arrived.end, r.end) BY <2>3, <3>1
        <4> QED BY <1>1, <1>2, <2>1, <3>1, <4>1, RequestLimit, SMT
                DEF Askable, Holed, SequenceRange, Empty, Numbers
      <3>2. CASE ~ (arrived.end < r.end)
        <4>1. left.after = NoRange BY <2>3, <3>2
        <4> QED BY <1>1, <1>2, <1>3, <3>2, <4>1, SMT DEF Numbers
      <3> QED BY <3>1, <3>2
    <2>6. Numbers(left.before) \cup Numbers(left.after) = Numbers(r) \ Numbers(arrived)
      <3>1. \A n \in Numbers(r) : n \in Numbers(arrived) <=> ~ (n < arrived.first \/ n >= arrived.end)
            BY <1>1, <1>2, SMT DEF Numbers
      <3> QED BY <2>4, <2>5, <3>1
    <2>7. ~Overlaps(left.before, left.after) /\ ~Overlaps(left.after, left.before)
      <3>1. CASE Empty(left.before) \/ Empty(left.after) BY <3>1 DEF Overlaps
      <3>2. CASE ~Empty(left.before) /\ ~Empty(left.after)
        <4>1. \A n \in Numbers(r) : ~ (n < arrived.first /\ n >= arrived.end)
              BY <1>1, <1>2, SMT DEF Numbers
        <4> QED BY <2>4, <2>5, <3>2, <4>1, Shared
      <3> QED BY <3>1, <3>2
    <2> QED BY <2>4, <2>5, <2>6, <2>7
  <1> QED BY <1>4, <1>5

\* Entries after each other that share no message.
LEMMA ApartTogether ==
    ASSUME NEW s \in Seq(Entries), NEW t \in Seq(Entries), Apart(s), Apart(t),
           \A i \in DOMAIN s, j \in DOMAIN t : ~Overlaps(s[i].range, t[j].range)
    PROVE  /\ s \o t \in Seq(Entries) /\ Apart(s \o t)
           /\ Asked(s \o t) = Asked(s) \cup Asked(t)
           /\ \A k \in DOMAIN (s \o t) : \/ \E i \in DOMAIN s : (s \o t)[k] = s[i]
                                         \/ \E i \in DOMAIN t : (s \o t)[k] = t[i]
PROOF
  <1> DEFINE u == s \o t
             m == Len(s)
             n == Len(t)
  <1>1. /\ DOMAIN s = 1 .. m /\ DOMAIN t = 1 .. n /\ m \in Nat /\ n \in Nat
        BY LenProperties
  <1>2. /\ u \in Seq(Entries) /\ Len(u) = m + n
        /\ \A k \in 1 .. m + n : u[k] = IF k <= m THEN s[k] ELSE t[k - m]
        BY ConcatProperties
  <1>3. DOMAIN u = 1 .. m + n BY <1>2, LenProperties
  <1> HIDE DEF u, m, n
  <1>4. ASSUME NEW k \in 1 .. m + n
        PROVE  \/ k \in 1 .. m /\ u[k] = s[k]
               \/ k \notin 1 .. m /\ k - m \in 1 .. n /\ u[k] = t[k - m]
    <2>1. k <= m <=> k \in 1 .. m BY <1>1, SMT
    <2>2. ~ (k <= m) => k - m \in 1 .. n BY <1>1, SMT
    <2>3. u[k] = IF k <= m THEN s[k] ELSE t[k - m] BY <1>2
    <2> QED BY <2>1, <2>2, <2>3, Zenon
  <1>5. ASSUME NEW i \in 1 .. m, NEW j \in 1 .. n
        PROVE  ~Overlaps(s[i].range, t[j].range) /\ ~Overlaps(t[j].range, s[i].range)
    <2>1. ~Overlaps(s[i].range, t[j].range) BY <1>1
    <2>2. s[i] \in Entries /\ t[j] \in Entries BY <1>1, ElementOfSeq DEF m, n
    <2>3. s[i].range \in Askable /\ t[j].range \in Askable BY <2>2 DEF Entries
    <2> QED BY <2>1, <2>3, Shared
  <1>6. ASSUME NEW k \in 1 .. m + n, NEW l \in 1 .. m + n, k # l
        PROVE  ~Overlaps(u[k].range, u[l].range)
    <2>1. CASE k \in 1 .. m /\ l \in 1 .. m
      <3>1. u[k] = s[k] /\ u[l] = s[l] BY <2>1, <1>4
      <3> QED BY <2>1, <3>1, <1>1, <1>6 DEF Apart
    <2>2. CASE k \in 1 .. m /\ l \notin 1 .. m
      <3>1. u[k] = s[k] /\ u[l] = t[l - m] /\ l - m \in 1 .. n BY <2>2, <1>4
      <3> QED BY <2>2, <3>1, <1>5
    <2>3. CASE k \notin 1 .. m /\ l \in 1 .. m
      <3>1. u[l] = s[l] /\ u[k] = t[k - m] /\ k - m \in 1 .. n BY <2>3, <1>4
      <3> QED BY <2>3, <3>1, <1>5
    <2>4. CASE k \notin 1 .. m /\ l \notin 1 .. m
      <3>1. /\ u[k] = t[k - m] /\ k - m \in 1 .. n /\ u[l] = t[l - m] /\ l - m \in 1 .. n
            BY <2>4, <1>4
      <3>2. k - m # l - m BY <1>1, <1>6, SMT
      <3> QED BY <3>1, <3>2, <1>1 DEF Apart
    <2> QED BY <2>1, <2>2, <2>3, <2>4
  <1>7. Apart(u) BY <1>3, <1>6 DEF Apart
  <1>8. Asked(u) = Asked(s) \cup Asked(t)
    <2>1. Asked(u) \subseteq Asked(s) \cup Asked(t) BY <1>1, <1>3, <1>4 DEF Asked
    <2>2. \A k \in 1 .. m : k \in DOMAIN u /\ u[k] = s[k] BY <1>1, <1>2, <1>3, SMT
    <2>3. \A k \in 1 .. n : k + m \in DOMAIN u /\ u[k + m] = t[k]
      <3> SUFFICES ASSUME NEW k \in 1 .. n PROVE k + m \in DOMAIN u /\ u[k + m] = t[k] OBVIOUS
      <3> DEFINE l == k + m
      <3>1. l \in 1 .. m + n /\ l \notin 1 .. m /\ l - m = k BY <1>1, SMT
      <3> HIDE DEF l
      <3>2. u[l] = t[l - m] BY <1>4, <3>1
      <3>3. l \in DOMAIN u /\ u[l] = t[k] BY <1>3, <3>1, <3>2
      <3> QED BY <3>3 DEF l
    <2>4. Asked(s) \subseteq Asked(u) BY <1>1, <2>2 DEF Asked
    <2>5. Asked(t) \subseteq Asked(u) BY <1>1, <2>3 DEF Asked
    <2> QED BY <2>1, <2>4, <2>5
  <1>9. \A k \in DOMAIN u : \/ \E i \in DOMAIN s : u[k] = s[i]
                           \/ \E i \in DOMAIN t : u[k] = t[i]
        BY <1>1, <1>3, <1>4
  <1> QED BY <1>2, <1>7, <1>8, <1>9 DEF u

\* p is e with a part of its messages.
Piece(p, e) ==
    /\ p.age = e.age /\ p.wait = e.wait /\ p.attempts = e.attempts
    /\ Numbers(p.range) \subseteq Numbers(e.range)

LEMMA SideOfEntry ==
    ASSUME NEW e \in Entries, NEW left, ~Empty(left) => left \in Askable,
           Empty(left) => Numbers(left) = {}, Numbers(left) \subseteq Numbers(e.range)
    PROVE  /\ Side(e, left) \in Seq(Entries) /\ Apart(Side(e, left))
           /\ Asked(Side(e, left)) = Numbers(left)
           /\ \A j \in DOMAIN Side(e, left) : /\ Side(e, left)[j].range = left
                                              /\ Piece(Side(e, left)[j], e)
PROOF
  <1>1. CASE Empty(left)
    <2>1. Side(e, left) = <<>> BY <1>1 DEF Side
    <2>2. DOMAIN <<>> = {} /\ <<>> \in Seq(Entries) BY EmptySeq, LenProperties, SMT
    <2> QED BY <1>1, <2>1, <2>2 DEF Apart, Asked
  <1>2. CASE ~Empty(left)
    <2> DEFINE p == [e EXCEPT !.range = left]
    <2>1. Side(e, left) = <<p>> BY <1>2 DEF Side
    <2>2. /\ p \in Entries /\ p.range = left /\ p.age = e.age /\ p.wait = e.wait
          /\ p.attempts = e.attempts
          BY <1>2 DEF Entries
    <2> HIDE DEF p
    <2>3. <<p>> \in Seq(Entries) /\ DOMAIN <<p>> = {1} /\ <<p>>[1] = p BY <2>2, SMT
    <2>4. Apart(<<p>>) BY <2>3 DEF Apart
    <2>5. Asked(<<p>>) = Numbers(left) BY <2>2, <2>3 DEF Asked
    <2>6. Piece(p, e) BY <2>2 DEF Piece
    <2> QED BY <2>1, <2>2, <2>3, <2>4, <2>5, <2>6
  <1> QED BY <1>1, <1>2

LEMMA HalvesOfEntry ==
    ASSUME NEW e \in Entries, NEW arrived \in Holed
    PROVE  /\ Halves(e, arrived) \in Seq(Entries) /\ Apart(Halves(e, arrived))
           /\ Asked(Halves(e, arrived)) = Numbers(e.range) \ Numbers(arrived)
           /\ \A j \in DOMAIN Halves(e, arrived) : Piece(Halves(e, arrived)[j], e)
PROOF
  <1> DEFINE left == Subtract(e.range, arrived)
             s == Side(e, left.before)
             t == Side(e, left.after)
  <1>1. e.range \in Askable BY DEF Entries
  <1>2. /\ ~Empty(left.before) => left.before \in Askable
        /\ ~Empty(left.after) => left.after \in Askable
        /\ Empty(left.before) => Numbers(left.before) = {}
        /\ Empty(left.after) => Numbers(left.after) = {}
        /\ Numbers(left.before) \cup Numbers(left.after) = Numbers(e.range) \ Numbers(arrived)
        /\ ~Overlaps(left.before, left.after) /\ ~Overlaps(left.after, left.before)
        BY <1>1, Remainder
  <1>3. Halves(e, arrived) = s \o t BY DEF Halves
  <1> HIDE DEF left
  <1>4. /\ s \in Seq(Entries) /\ Apart(s) /\ Asked(s) = Numbers(left.before)
        /\ \A j \in DOMAIN s : s[j].range = left.before /\ Piece(s[j], e)
        BY <1>2, SideOfEntry
  <1>5. /\ t \in Seq(Entries) /\ Apart(t) /\ Asked(t) = Numbers(left.after)
        /\ \A j \in DOMAIN t : t[j].range = left.after /\ Piece(t[j], e)
        BY <1>2, SideOfEntry
  <1> HIDE DEF s, t
  <1>6. \A i \in DOMAIN s, j \in DOMAIN t : ~Overlaps(s[i].range, t[j].range)
        BY <1>2, <1>4, <1>5
  <1>7. /\ s \o t \in Seq(Entries) /\ Apart(s \o t)
        /\ Asked(s \o t) = Asked(s) \cup Asked(t)
        /\ \A k \in DOMAIN (s \o t) : \/ \E i \in DOMAIN s : (s \o t)[k] = s[i]
                                      \/ \E i \in DOMAIN t : (s \o t)[k] = t[i]
        BY <1>4, <1>5, <1>6, ApartTogether
  <1>8. \A k \in DOMAIN (s \o t) : Piece((s \o t)[k], e) BY <1>4, <1>5, <1>7
  <1> QED BY <1>2, <1>3, <1>4, <1>5, <1>7, <1>8

\* d is what an arrival leaves of the first k of the entries.
Remains(es, k, arrived, d) ==
    /\ d \in Seq(Entries) /\ Apart(d)
    /\ \A x : x \in Asked(d) <=> /\ x \notin Numbers(arrived)
                                 /\ \E i \in 1 .. k : x \in Numbers(es[i].range)
    /\ \A j \in DOMAIN d : \E i \in 1 .. k : Piece(d[j], es[i])

LEMMA RemainsGrow ==
    ASSUME NEW es \in Seq(Entries), Apart(es), NEW arrived \in Holed, NEW k \in Nat,
           k + 1 \in DOMAIN es, NEW d, Remains(es, k, arrived, d)
    PROVE  Remains(es, k + 1, arrived, d \o Halves(es[k + 1], arrived))
PROOF
  <1> DEFINE e == es[k + 1]
             t == Halves(e, arrived)
             u == d \o t
  <1>1. DOMAIN es = 1 .. Len(es) /\ Len(es) \in Nat BY LenProperties
  <1>2. /\ 1 .. k + 1 = (1 .. k) \cup {k + 1} /\ k + 1 \notin 1 .. k
        /\ \A i \in 1 .. k + 1 : i \in DOMAIN es
        BY <1>1, SMT
  <1>3. e \in Entries /\ \A i \in 1 .. k : es[i] \in Entries BY <1>1, <1>2, ElementOfSeq
  <1>4. /\ t \in Seq(Entries) /\ Apart(t) /\ Asked(t) = Numbers(e.range) \ Numbers(arrived)
        /\ \A j \in DOMAIN t : Piece(t[j], e)
        BY <1>3, HalvesOfEntry
  <1>5. /\ d \in Seq(Entries) /\ Apart(d)
        /\ \A x : x \in Asked(d) <=> /\ x \notin Numbers(arrived)
                                     /\ \E i \in 1 .. k : x \in Numbers(es[i].range)
        /\ \A j \in DOMAIN d : \E i \in 1 .. k : Piece(d[j], es[i])
        BY DEF Remains
  <1> HIDE DEF t
  <1>6. ASSUME NEW j \in DOMAIN d, NEW l \in DOMAIN t
        PROVE  ~Overlaps(d[j].range, t[l].range)
    <2>1. PICK i \in 1 .. k : Piece(d[j], es[i]) BY <1>5
    <2>2. ~Overlaps(es[i].range, e.range) BY <1>2 DEF Apart
    <2>3. es[i].range \in Askable /\ e.range \in Askable BY <1>3 DEF Entries
    <2>4. d[j] \in Entries /\ t[l] \in Entries BY <1>4, <1>5, LenProperties, ElementOfSeq
    <2>5. d[j].range \in Askable /\ t[l].range \in Askable BY <2>4 DEF Entries
    <2>6. /\ Numbers(d[j].range) \subseteq Numbers(es[i].range)
          /\ Numbers(t[l].range) \subseteq Numbers(e.range)
          BY <2>1, <1>4 DEF Piece
    <2> QED BY <2>2, <2>3, <2>5, <2>6, Shared
  <1>7. /\ u \in Seq(Entries) /\ Apart(u) /\ Asked(u) = Asked(d) \cup Asked(t)
        /\ \A j \in DOMAIN u : \/ \E i \in DOMAIN d : u[j] = d[i]
                             \/ \E i \in DOMAIN t : u[j] = t[i]
        BY <1>4, <1>5, <1>6, ApartTogether
  <1> HIDE DEF u, e
  <1>8. ASSUME NEW x
        PROVE  x \in Asked(u) <=> /\ x \notin Numbers(arrived)
                                 /\ \E i \in 1 .. k + 1 : x \in Numbers(es[i].range)
    <2>1. x \in Asked(u) <=> x \in Asked(d) \/ x \in Asked(t) BY <1>7
    <2>2. x \in Asked(t) <=> x \in Numbers(es[k + 1].range) /\ x \notin Numbers(arrived)
          BY <1>4 DEF e
    <2>3. (\E i \in 1 .. k + 1 : x \in Numbers(es[i].range))
          <=> \/ \E i \in 1 .. k : x \in Numbers(es[i].range)
              \/ x \in Numbers(es[k + 1].range)
          BY <1>2
    <2> QED BY <1>5, <2>1, <2>2, <2>3
  <1>9. ASSUME NEW j \in DOMAIN u PROVE \E i \in 1 .. k + 1 : Piece(u[j], es[i])
    <2>1. CASE \E i \in DOMAIN d : u[j] = d[i] BY <2>1, <1>2, <1>5
    <2>2. CASE \E i \in DOMAIN t : u[j] = t[i] BY <2>2, <1>2, <1>4 DEF e
    <2> QED BY <1>7, <2>1, <2>2
  <1>10. Remains(es, k + 1, arrived, u) BY <1>7, <1>8, <1>9 DEF Remains
  <1> QED BY <1>10 DEF u, t, e

\* on_filled: the entries keep their ages, waits and attempts, and between them
\* what has not arrived.
LEMMA OnFilledRemains ==
    ASSUME NEW es \in Seq(Entries), Apart(es), NEW arrived \in Holed, es # <<>>,
           NEW rest, rest = FlattenSeq([i \in DOMAIN es |-> Halves(es[i], arrived)])
    PROVE  /\ rest \in Seq(Entries) /\ Apart(rest)
           /\ Asked(rest) = Asked(es) \ Numbers(arrived)
           /\ \A j \in DOMAIN rest : \E i \in DOMAIN es : Piece(rest[j], es[i])
PROOF
  <1> DEFINE ss == [i \in DOMAIN es |-> Halves(es[i], arrived)]
             n == Len(es)
  <1>1. /\ DOMAIN es = 1 .. n /\ n \in Nat /\ n # 0
        /\ \A i \in 1 .. n : es[i] \in Entries
        BY LenProperties, EmptySeq, ElementOfSeq
  <1>2. \A i \in 1 .. n : Halves(es[i], arrived) \in Seq(Entries) BY <1>1, HalvesOfEntry
  <1>3. Len(ss) = n /\ \A i \in 1 .. n : ss[i] = Halves(es[i], arrived)
    <2>1. ss \in Seq(Seq(Entries)) BY <1>1, <1>2, SMT
    <2>2. DOMAIN ss = 1 .. n /\ DOMAIN ss = 1 .. Len(ss) /\ Len(ss) \in Nat
          BY <1>1, <2>1, LenProperties
    <2>3. Len(ss) = n BY <1>1, <2>2, SMT
    <2> QED BY <1>1, <2>3
  <1> HIDE DEF ss, n
  <1>4. PICK f : /\ FlattenSeq(ss) = f[n] /\ f[1] = ss[1]
                 /\ \A i \in 1 .. n : i # 1 => f[i] = f[i - 1] \o ss[i]
        BY <1>1, <1>3, FlattenInSteps
  <1> DEFINE S == {k \in Nat : k + 1 \in 1 .. n => Remains(es, k + 1, arrived, f[k + 1])}
  <1>5. 0 \in S
    <2> SUFFICES Remains(es, 1, arrived, f[1]) BY SMT
    <2>1. 1 \in 1 .. n BY <1>1, SMT
    <2>2. f[1] = Halves(es[1], arrived) /\ es[1] \in Entries BY <1>1, <1>3, <1>4, <2>1
    <2>3. /\ f[1] \in Seq(Entries) /\ Apart(f[1])
          /\ Asked(f[1]) = Numbers(es[1].range) \ Numbers(arrived)
          /\ \A j \in DOMAIN f[1] : Piece(f[1][j], es[1])
          BY <2>2, HalvesOfEntry
    <2>4. 1 .. 1 = {1} BY SMT
    <2>5. \A x : x \in Asked(f[1]) <=> /\ x \notin Numbers(arrived)
                                        /\ \E i \in 1 .. 1 : x \in Numbers(es[i].range)
          BY <2>3, <2>4
    <2>6. \A j \in DOMAIN f[1] : \E i \in 1 .. 1 : Piece(f[1][j], es[i]) BY <2>3, <2>4
    <2> QED BY <2>3, <2>5, <2>6 DEF Remains
  <1>6. ASSUME NEW k \in S PROVE k + 1 \in S
    <2> SUFFICES ASSUME k + 1 + 1 \in 1 .. n
                 PROVE  Remains(es, k + 1 + 1, arrived, f[k + 1 + 1])
        BY SMT
    <2> DEFINE l == k + 1
    <2>1. l \in Nat /\ l \in 1 .. n /\ l + 1 \in 1 .. n /\ l + 1 # 1 /\ l + 1 - 1 = l
          BY <1>1, SMT
    <2>2. Remains(es, l, arrived, f[l]) BY <2>1
    <2> HIDE DEF l, S
    <2>3. Remains(es, l + 1, arrived, f[l] \o Halves(es[l + 1], arrived))
          BY <1>1, <2>1, <2>2, RemainsGrow
    <2>4. \A j \in 1 .. n : j # 1 => f[j] = f[j - 1] \o Halves(es[j], arrived)
          BY <1>3, <1>4
    <2> DEFINE j == l + 1
    <2>5. j \in 1 .. n /\ j # 1 /\ j - 1 = l BY <2>1
    <2> HIDE DEF j
    <2>6. f[j] = f[l] \o Halves(es[j], arrived) BY <2>4, <2>5, Zenon
    <2>7. Remains(es, j, arrived, f[j]) BY <2>3, <2>6 DEF j
    <2> QED BY <2>7 DEF j, l
  <1>7. S = Nat
    <2>1. S \in SUBSET Nat OBVIOUS
    <2> HIDE DEF S
    <2> QED BY <1>5, <1>6, <2>1, NumbersByInduction
  <1>8. Remains(es, n, arrived, f[n])
    <2>1. n - 1 \in Nat /\ n - 1 + 1 = n /\ n \in 1 .. n BY <1>1, SMT
    <2>2. n - 1 + 1 \in 1 .. n => Remains(es, n - 1 + 1, arrived, f[n - 1 + 1])
      <3>1. n - 1 \in S BY <1>7, <2>1
      <3> QED BY <3>1
    <2> QED BY <2>1, <2>2
  <1>9. \A x : x \in Asked(es) <=> \E i \in 1 .. n : x \in Numbers(es[i].range)
        BY <1>1 DEF Asked
  <1>10. rest = f[n] BY <1>4 DEF ss
  <1>11. Asked(rest) = Asked(es) \ Numbers(arrived) BY <1>8, <1>9, <1>10 DEF Remains
  <1> QED BY <1>1, <1>8, <1>10, <1>11 DEF Remains

-----------------------------------------------------------------------------
(* The decision.                                                             *)

\* i comes before j, or is j.
Precedes(es, i, j) == es[i].age > es[j].age \/ (es[i].age = es[j].age /\ i <= j)

LEMMA PrecedesChains ==
    ASSUME NEW es \in Seq(Entries), NEW i \in DOMAIN es, NEW j \in DOMAIN es,
           NEW k \in DOMAIN es, Precedes(es, i, j), Precedes(es, j, k)
    PROVE  Precedes(es, i, k)
PROOF
  <1>1. i \in Nat /\ j \in Nat /\ k \in Nat BY LenProperties, SMT
  <1>2. es[i] \in Entries /\ es[j] \in Entries /\ es[k] \in Entries
        BY LenProperties, ElementOfSeq
  <1>3. es[i].age \in Nat /\ es[j].age \in Nat /\ es[k].age \in Nat BY <1>2 DEF Entries
  <1> QED BY <1>1, <1>3, SMT DEF Precedes

LEMMA OldestIsThere ==
    ASSUME NEW es \in Seq(Entries), NEW C \in SUBSET DOMAIN es, C # {}
    PROVE  Oldest(es, C) \in C
PROOF
  <1>1. DOMAIN es = 1 .. Len(es) /\ Len(es) \in Nat BY LenProperties
  <1> DEFINE First(k) == \E i \in C : i <= k /\ \A j \in C : j <= k => Precedes(es, i, j)
             S == {k \in Nat : (\E i \in C : i <= k) => First(k)}
  <1>2. 0 \in S
    <2>1. \A i \in C : ~ (i <= 0) BY <1>1, SMT
    <2> QED BY <2>1
  <1>3. ASSUME NEW k \in S PROVE k + 1 \in S
    <2> SUFFICES ASSUME \E i \in C : i <= k + 1 PROVE First(k + 1) BY SMT
    <2>1. k \in Nat /\ \A i \in C : i \in Nat /\ (i <= k + 1 <=> i <= k \/ i = k + 1)
          BY <1>1, SMT
    <2>2. \A i \in C : Precedes(es, i, i) BY <2>1, SMT DEF Precedes
    <2>3. CASE \E i \in C : i <= k
      <3>1. PICK i \in C : i <= k /\ \A j \in C : j <= k => Precedes(es, i, j) BY <2>3
      <3>2. CASE k + 1 \notin C BY <2>1, <3>1, <3>2
      <3>3. CASE k + 1 \in C /\ Precedes(es, i, k + 1)
        <4>1. \A j \in C : j <= k + 1 => Precedes(es, i, j) BY <2>1, <3>1, <3>3
        <4>2. i <= k + 1 BY <2>1, <3>1
        <4> QED BY <4>1, <4>2
      <3>4. CASE k + 1 \in C /\ ~Precedes(es, i, k + 1)
        <4>1. Precedes(es, k + 1, i)
          <5>1. es[i] \in Entries /\ es[k + 1] \in Entries BY <1>1, <3>1, <3>4, ElementOfSeq
          <5>2. es[i].age \in Nat /\ es[k + 1].age \in Nat BY <5>1 DEF Entries
          <5>3. i <= k + 1 BY <2>1, <3>1
          <5> QED BY <2>1, <3>1, <3>4, <5>2, <5>3, SMT DEF Precedes
        <4>2. ASSUME NEW j \in C, j <= k + 1 PROVE Precedes(es, k + 1, j)
          <5>1. CASE j = k + 1 BY <2>2, <3>4, <5>1
          <5>2. CASE j # k + 1
            <6>1. Precedes(es, i, j) BY <2>1, <3>1, <4>2, <5>2
            <6> QED BY <3>1, <3>4, <4>1, <6>1, PrecedesChains
          <5> QED BY <5>1, <5>2
        <4>3. k + 1 <= k + 1 BY <2>1, SMT
        <4> QED BY <3>4, <4>2, <4>3
      <3> QED BY <3>2, <3>3, <3>4
    <2>4. CASE ~ \E i \in C : i <= k
      <3>1. k + 1 \in C /\ \A j \in C : j <= k + 1 => j = k + 1 BY <2>1, <2>4
      <3>2. k + 1 <= k + 1 BY <2>1, SMT
      <3> QED BY <2>2, <3>1, <3>2
    <2> QED BY <2>3, <2>4
  <1>4. S = Nat
    <2>1. S \in SUBSET Nat OBVIOUS
    <2> HIDE DEF S
    <2> QED BY <1>2, <1>3, <2>1, NumbersByInduction
  <1>5. First(Len(es))
    <2>1. Len(es) \in S BY <1>1, <1>4
    <2>2. \E i \in C : i <= Len(es) BY <1>1, SMT
    <2> QED BY <2>1, <2>2
  <1>6. \E i \in C : \A j \in C : Precedes(es, i, j) BY <1>1, <1>5, SMT
  <1>7. Oldest(es, C) = CHOOSE i \in C : \A j \in C : Precedes(es, i, j)
        BY Zenon DEF Oldest, Precedes
  <1> QED BY <1>6, <1>7, Zenon

LEMMA EntryRemoved ==
    ASSUME NEW es \in Seq(Entries), Apart(es), NEW i \in DOMAIN es,
           NEW d, d = RemoveAt(es, i)
    PROVE  /\ d \in Seq(Entries) /\ Apart(d)
           /\ Asked(d) = Asked(es) \ Numbers(es[i].range)
           /\ \A j \in DOMAIN d : \E k \in DOMAIN es : d[j] = es[k] /\ k # i
PROOF
  <1> DEFINE n == Len(es)
             s == SubSeq(es, 1, i - 1)
             t == SubSeq(es, i + 1, n)
  <1>1. /\ DOMAIN es = 1 .. n /\ n \in Nat /\ i \in 1 .. n /\ i \in Nat
        /\ \A k \in 1 .. n : es[k] \in Entries
        BY LenProperties, ElementOfSeq
  <1>2. s \in Seq(Entries) /\ Len(s) = i - 1 /\ \A k \in 1 .. i - 1 : s[k] = es[k]
    <2>1. 1 \in Int /\ i - 1 \in Int /\ \A k \in 1 .. i - 1 : es[k] \in Entries
          BY <1>1, SMT
    <2>2. /\ s \in Seq(Entries) /\ Len(s) = IF 1 <= i - 1 THEN i - 1 - 1 + 1 ELSE 0
          /\ \A k \in 1 .. i - 1 - 1 + 1 : s[k] = es[1 + k - 1]
          BY <2>1, SubSeqProperties
    <2>3. \A k \in 1 .. i - 1 : 1 + k - 1 = k /\ k \in 1 .. i - 1 - 1 + 1 BY <1>1, SMT
    <2>4. \A k \in 1 .. i - 1 : s[k] = es[k] BY <2>2, <2>3
    <2>5. Len(s) = i - 1 BY <1>1, <2>2, SMT
    <2> QED BY <2>2, <2>4, <2>5
  <1>3. t \in Seq(Entries) /\ Len(t) = n - i /\ \A k \in 1 .. n - i : t[k] = es[i + k]
    <2>1. i + 1 \in Int /\ n \in Int /\ \A k \in i + 1 .. n : es[k] \in Entries
          BY <1>1, SMT
    <2>2. /\ t \in Seq(Entries) /\ Len(t) = IF i + 1 <= n THEN n - (i + 1) + 1 ELSE 0
          /\ \A k \in 1 .. n - (i + 1) + 1 : t[k] = es[i + 1 + k - 1]
          BY <2>1, SubSeqProperties
    <2>3. \A k \in 1 .. n - i : i + 1 + k - 1 = i + k /\ k \in 1 .. n - (i + 1) + 1
          BY <1>1, SMT
    <2>4. \A k \in 1 .. n - i : t[k] = es[i + k] BY <2>2, <2>3
    <2>5. Len(t) = n - i BY <1>1, <2>2, SMT
    <2> QED BY <2>2, <2>4, <2>5
  <1>4. d = s \o t BY DEF RemoveAt
  <1> HIDE DEF n, s, t
  <1>5. /\ DOMAIN s = 1 .. i - 1 /\ DOMAIN t = 1 .. n - i BY <1>2, <1>3, LenProperties
  <1>6. /\ \A k \in 1 .. i - 1 : k \in 1 .. n /\ k # i
        /\ \A k \in 1 .. n - i : i + k \in 1 .. n /\ i + k # i
        BY <1>1, SMT
  <1>7. Apart(s)
    <2> SUFFICES ASSUME NEW k \in 1 .. i - 1, NEW l \in 1 .. i - 1, k # l
                 PROVE  ~Overlaps(s[k].range, s[l].range)
        BY <1>5 DEF Apart
    <2>1. s[k] = es[k] /\ s[l] = es[l] BY <1>2
    <2> QED BY <1>1, <1>6, <2>1 DEF Apart
  <1>8. Apart(t)
    <2> SUFFICES ASSUME NEW k \in 1 .. n - i, NEW l \in 1 .. n - i, k # l
                 PROVE  ~Overlaps(t[k].range, t[l].range)
        BY <1>5 DEF Apart
    <2>1. i + k # i + l BY <1>1, SMT
    <2>2. t[k] = es[i + k] /\ t[l] = es[i + l] BY <1>3
    <2> QED BY <1>1, <1>6, <2>1, <2>2 DEF Apart
  <1>9. ASSUME NEW k \in DOMAIN s, NEW l \in DOMAIN t PROVE ~Overlaps(s[k].range, t[l].range)
    <2>1. s[k] = es[k] /\ t[l] = es[i + l] BY <1>2, <1>3, <1>5
    <2>2. k # i + l /\ k \in 1 .. n /\ i + l \in 1 .. n BY <1>1, <1>5, SMT
    <2> QED BY <1>1, <2>1, <2>2 DEF Apart
  <1>10. /\ d \in Seq(Entries) /\ Apart(d) /\ Asked(d) = Asked(s) \cup Asked(t)
         /\ \A k \in DOMAIN d : \/ \E j \in DOMAIN s : d[k] = s[j]
                              \/ \E j \in DOMAIN t : d[k] = t[j]
    <2>1. \A k \in DOMAIN s, l \in DOMAIN t : ~Overlaps(s[k].range, t[l].range) BY <1>9
    <2>2. /\ s \o t \in Seq(Entries) /\ Apart(s \o t)
          /\ Asked(s \o t) = Asked(s) \cup Asked(t)
          /\ \A k \in DOMAIN (s \o t) : \/ \E j \in DOMAIN s : (s \o t)[k] = s[j]
                                        \/ \E j \in DOMAIN t : (s \o t)[k] = t[j]
          BY <1>2, <1>3, <1>7, <1>8, <2>1, ApartTogether
    <2> QED BY <1>4, <2>2
  <1>11. ASSUME NEW j \in DOMAIN d PROVE \E k \in DOMAIN es : d[j] = es[k] /\ k # i
    <2>1. CASE \E k \in DOMAIN s : d[j] = s[k] BY <2>1, <1>1, <1>2, <1>5, <1>6
    <2>2. CASE \E k \in DOMAIN t : d[j] = t[k] BY <2>2, <1>1, <1>3, <1>5, <1>6
    <2> QED BY <1>10, <2>1, <2>2
  <1>12. ASSUME NEW x PROVE x \in Asked(d) <=> \E k \in 1 .. n : k # i /\ x \in Numbers(es[k].range)
    <2>1. ASSUME x \in Asked(d) PROVE \E k \in 1 .. n : k # i /\ x \in Numbers(es[k].range)
      <3>1. PICK j \in DOMAIN d : x \in Numbers(d[j].range) BY <2>1 DEF Asked
      <3> QED BY <3>1, <1>1, <1>11
    <2>2. ASSUME NEW k \in 1 .. n, k # i, x \in Numbers(es[k].range) PROVE x \in Asked(d)
      <3>1. CASE k < i
        <4>1. k \in 1 .. i - 1 BY <1>1, <3>1, SMT
        <4>2. x \in Asked(s) BY <1>2, <1>5, <2>2, <4>1 DEF Asked
        <4> QED BY <1>10, <4>2
      <3>2. CASE k > i
        <4> DEFINE l == k - i
        <4>1. l \in 1 .. n - i /\ i + l = k BY <1>1, <3>2, SMT
        <4> HIDE DEF l
        <4>2. t[l] = es[k] BY <1>3, <4>1
        <4>3. x \in Asked(t) BY <1>5, <2>2, <4>1, <4>2 DEF Asked
        <4> QED BY <1>10, <4>3
      <3>3. k < i \/ k > i BY <1>1, <2>2, SMT
      <3> QED BY <3>1, <3>2, <3>3
    <2> QED BY <2>1, <2>2
  <1>13. Asked(d) = Asked(es) \ Numbers(es[i].range)
    <2>1. ASSUME NEW k \in 1 .. n, k # i, NEW x \in Numbers(es[k].range)
          PROVE  x \notin Numbers(es[i].range)
      <3>1. es[k].range \in Askable /\ es[i].range \in Askable BY <1>1 DEF Entries
      <3>2. ~Overlaps(es[k].range, es[i].range) BY <1>1, <2>1 DEF Apart
      <3> QED BY <3>1, <3>2, Shared
    <2>2. \A x : x \in Asked(es) <=> \E k \in 1 .. n : x \in Numbers(es[k].range)
          BY <1>1 DEF Asked
    <2> QED BY <1>1, <1>12, <2>1, <2>2
  <1> QED BY <1>10, <1>11, <1>13

\* What poll decides: e is the entry it is about, at i.
Sent(es, i, d) ==
    /\ d.what = "send" /\ d.reason = "ok" /\ d.range = es[i].range
    /\ Due(es[i]) /\ \A j \in DOMAIN es : GiveUpReason(es[j]) = "ok"
    /\ DOMAIN d.entries = DOMAIN es
    /\ \A j \in DOMAIN es : j # i => d.entries[j] = es[j]
    /\ d.entries[i] = [range |-> es[i].range, age |-> es[i].age,
                       wait |-> TimeoutFor(es[i].attempts + 1),
                       attempts |-> es[i].attempts + 1]

Abandoned(es, i, d) ==
    /\ d.what = "abandon" /\ d.reason = GiveUpReason(es[i]) /\ d.range = es[i].range
    /\ GiveUpReason(es[i]) # "ok"
    /\ d.entries = RemoveAt(es, i)

LEMMA SendIsOfADueEntry ==
    ASSUME NEW es \in Seq(Entries), Apart(es), NEW i \in DOMAIN es,
           NEW d, Sent(es, i, d), d.entries \in Seq(Entries)
    PROVE  Apart(d.entries) /\ Asked(d.entries) = Asked(es)
PROOF
  <1>1. \A j \in DOMAIN es : d.entries[j].range = es[j].range
    <2> SUFFICES ASSUME NEW j \in DOMAIN es PROVE d.entries[j].range = es[j].range OBVIOUS
    <2>1. CASE j = i BY <2>1 DEF Sent
    <2>2. CASE j # i BY <2>2 DEF Sent
    <2> QED BY <2>1, <2>2
  <1>2. DOMAIN d.entries = DOMAIN es BY DEF Sent
  <1>3. Apart(d.entries) BY <1>1, <1>2 DEF Apart
  <1>4. \A x : x \in Asked(d.entries) <=> x \in Asked(es) BY <1>1, <1>2 DEF Asked
  <1> QED BY <1>3, <1>4

LEMMA Decisions ==
    ASSUME NEW es \in Seq(Entries), NEW d, d = Decide(es)
    PROVE  \/ d.what = "idle" /\ d.entries = es /\ d.range = NoRange
           \/ \E i \in DOMAIN es : Sent(es, i, d) /\ d.entries \in Seq(Entries)
           \/ \E i \in DOMAIN es : Abandoned(es, i, d)
PROOF
  <1> DEFINE lost == {i \in DOMAIN es : GiveUpReason(es[i]) # "ok"}
             due == {i \in DOMAIN es : Due(es[i])}
  <1>1. DOMAIN es = 1 .. Len(es) /\ \A j \in DOMAIN es : es[j] \in Entries
        BY LenProperties, ElementOfSeq
  <1>2. CASE lost # {}
    <2> DEFINE i == Oldest(es, lost)
    <2>1. i \in lost
      <3>1. lost \in SUBSET DOMAIN es OBVIOUS
      <3> HIDE DEF lost
      <3> QED BY <1>2, <3>1, OldestIsThere
    <2>2. d = TakeAbandoned(es, lost) BY <1>2, Zenon DEF Decide
    <2>3. i \in DOMAIN es /\ GiveUpReason(es[i]) # "ok" BY <2>1
    <2>4. d = [entries |-> RemoveAt(es, i), what |-> "abandon", range |-> es[i].range,
               attempt |-> 0, reason |-> GiveUpReason(es[i])]
          BY <2>2, Zenon DEF TakeAbandoned
    <2> HIDE DEF i
    <2>5. Abandoned(es, i, d) BY <2>3, <2>4 DEF Abandoned
    <2> QED BY <2>3, <2>5
  <1>3. CASE lost = {} /\ due # {}
    <2> DEFINE i == Oldest(es, due)
               n == es[i].attempts + 1
               e == [range |-> es[i].range, age |-> es[i].age,
                     wait |-> TimeoutFor(n), attempts |-> n]
    <2>1. i \in due
      <3>1. due \in SUBSET DOMAIN es OBVIOUS
      <3> HIDE DEF due
      <3> QED BY <1>3, <3>1, OldestIsThere
    <2>2. d = TakeDue(es, due) BY <1>3, Zenon DEF Decide
    <2>3. i \in DOMAIN es /\ Due(es[i]) BY <2>1
    <2>4. d = [entries |-> [es EXCEPT ![i].attempts = n, ![i].wait = TimeoutFor(n)],
               what |-> "send", range |-> es[i].range, attempt |-> n, reason |-> "ok"]
          BY <2>2, Zenon DEF TakeDue
    <2> HIDE DEF i
    <2>5. es[i] \in Entries BY <1>1, <2>3
    <2>6. n \in Nat \ {0} BY <2>5, SMT DEF Entries
    <2>7. TimeoutFor(n) \in Nat
      <3> HIDE DEF n
      <3> QED BY <2>6, TimeoutIsTime
    <2>8. e \in Entries
      <3> HIDE DEF n
      <3> QED BY <2>5, <2>6, <2>7 DEF Entries
    <2>9. [es EXCEPT ![i].attempts = n, ![i].wait = TimeoutFor(n)] = [es EXCEPT ![i] = e]
      <3> DEFINE w == TimeoutFor(n)
                 f == [es EXCEPT ![i].attempts = n]
      <3>1. [es[i] EXCEPT !.attempts = n] = [range |-> es[i].range, age |-> es[i].age,
                                             wait |-> es[i].wait, attempts |-> n]
        <4> HIDE DEF n
        <4> QED BY <2>5 DEF Entries
      <3>2. /\ DOMAIN f = DOMAIN es /\ \A j \in DOMAIN es : j # i => f[j] = es[j]
            /\ f[i] = [range |-> es[i].range, age |-> es[i].age,
                       wait |-> es[i].wait, attempts |-> n]
        <4> HIDE DEF n
        <4> QED BY <2>3, <3>1
      <3>3. [es EXCEPT ![i].attempts = n, ![i].wait = w] = [f EXCEPT ![i].wait = w] OBVIOUS
      <3>4. f = [j \in DOMAIN es |-> f[j]]
        <4> HIDE DEF n
        <4> QED OBVIOUS
      <3> HIDE DEF w, n, f
      <3>5. [f EXCEPT ![i].wait = w] = [j \in DOMAIN es |-> IF j = i THEN [f[i] EXCEPT !.wait = w]
                                                            ELSE f[j]]
            BY <2>3, <3>2, <3>4
      <3>6. [f[i] EXCEPT !.wait = w] = [range |-> es[i].range, age |-> es[i].age,
                                        wait |-> w, attempts |-> n]
            BY <3>2
      <3>7. [es EXCEPT ![i] = e] = [j \in DOMAIN es |-> IF j = i THEN e ELSE es[j]]
        <4> HIDE DEF e
        <4> QED BY <1>1
      <3> QED BY <3>2, <3>3, <3>5, <3>6, <3>7 DEF w
    <2>10. d.entries = [es EXCEPT ![i] = e] BY <2>4, <2>9
    <2> HIDE DEF e
    <2>11. /\ d.entries \in Seq(Entries) /\ DOMAIN d.entries = DOMAIN es
           /\ \A j \in DOMAIN es : d.entries[j] = IF j = i THEN e ELSE es[j]
           BY <1>1, <2>3, <2>8, <2>10, ExceptSeq, LenProperties
    <2>12. \A j \in DOMAIN es : GiveUpReason(es[j]) = "ok" BY <1>3
    <2>13. d.what = "send" /\ d.reason = "ok" /\ d.range = es[i].range BY <2>4
    <2>14. Sent(es, i, d) BY <2>3, <2>11, <2>12, <2>13 DEF Sent, e
    <2> QED BY <2>3, <2>11, <2>14
  <1>4. CASE lost = {} /\ due = {}
    <2>1. d = Idle(es) BY <1>4, Zenon DEF Decide
    <2> QED BY <2>1 DEF Idle
  <1> QED BY <1>2, <1>3, <1>4

LEMMA AgedEntries ==
    ASSUME NEW es \in Seq(Entries)
    PROVE  /\ Aged(es) \in Seq(Entries) /\ DOMAIN Aged(es) = DOMAIN es
           /\ \A i \in DOMAIN es :
                  /\ Aged(es)[i].range = es[i].range /\ Aged(es)[i].age = es[i].age + 1
                  /\ Aged(es)[i].attempts = es[i].attempts
                  /\ es[i].wait <= Aged(es)[i].wait + 1
           /\ Asked(Aged(es)) = Asked(es)
           /\ Apart(es) => Apart(Aged(es))
PROOF
  <1>1. DOMAIN es = 1 .. Len(es) /\ Len(es) \in Nat /\ \A j \in DOMAIN es : es[j] \in Entries
        BY LenProperties, ElementOfSeq
  <1>2. DOMAIN Aged(es) = DOMAIN es BY DEF Aged
  <1>3. ASSUME NEW i \in DOMAIN es
        PROVE  /\ Aged(es)[i] \in Entries
               /\ Aged(es)[i].range = es[i].range /\ Aged(es)[i].age = es[i].age + 1
               /\ Aged(es)[i].attempts = es[i].attempts
               /\ es[i].wait <= Aged(es)[i].wait + 1
    <2>1. es[i] \in Entries BY <1>1
    <2>2. Aged(es)[i] = [es[i] EXCEPT !.age = es[i].age + 1,
                                      !.wait = IF es[i].wait > 0 THEN es[i].wait - 1 ELSE 0]
          BY DEF Aged
    <2>3. es[i].age \in Nat /\ es[i].wait \in Nat BY <2>1 DEF Entries
    <2> DEFINE w == IF es[i].wait > 0 THEN es[i].wait - 1 ELSE 0
    <2>4. w \in Nat /\ es[i].wait <= w + 1 /\ es[i].age + 1 \in Nat BY <2>3, SMT
    <2> HIDE DEF w
    <2>5. Aged(es)[i] = [es[i] EXCEPT !.age = es[i].age + 1, !.wait = w] BY <2>2 DEF w
    <2> QED BY <2>1, <2>4, <2>5 DEF Entries
  <1>4. Aged(es) \in Seq(Entries)
    <2> DEFINE a == Aged(es)
    <2>1. a = [i \in 1 .. Len(es) |-> a[i]] BY <1>1, <1>2 DEF Aged
    <2>2. \A i \in 1 .. Len(es) : a[i] \in Entries BY <1>1, <1>3
    <2> HIDE DEF a
    <2>3. a \in [1 .. Len(es) -> Entries] BY <2>1, <2>2
    <2>4. a \in Seq(Entries) BY <1>1, <2>3, SMT
    <2> QED BY <2>4 DEF a
  <1>5. \A x : x \in Asked(Aged(es)) <=> x \in Asked(es) BY <1>2, <1>3 DEF Asked
  <1>6. Apart(es) => Apart(Aged(es)) BY <1>2, <1>3 DEF Apart
  <1> QED BY <1>2, <1>3, <1>4, <1>5, <1>6

(***************************************************************************)
(* The requester.                                                          *)
(***************************************************************************)
-----------------------------------------------------------------------------
(* The inductive invariant.                                                  *)

Histories == [Number -> Nat]

RequesterTypes ==
    /\ entries \in Seq(Entries)
    /\ frontier \in Nat /\ wanted \in SUBSET Number
    /\ sinceFound \in Histories /\ sinceAsked \in Histories /\ asks \in Histories

\* Holes come in order: nothing is wanted, or was ever found missing, from the
\* end of the last one on.
NothingAhead ==
    /\ \A n \in wanted : n < frontier
    /\ \A n \in Number : n >= frontier => sinceFound[n] = 0

\* Every wanted message is in one entry.
Partitioned == Apart(entries) /\ Asked(entries) = wanted

\* How an entry's age, wait and attempts stand to the history of each of its
\* messages: its age counts from the oldest of them, the others came later; a
\* wait that has run out was long enough for all of them; and each of them was
\* asked for in each of its attempts.
InStep(e, found, asked, count) ==
    /\ e.attempts <= MaxAttempts
    /\ \A n \in Numbers(e.range) :
           /\ found[n] <= e.age /\ SettleDelay <= e.wait + found[n]
           /\ e.attempts <= count[n]
           /\ e.attempts # 0 => TimeoutFor(e.attempts) <= e.wait + asked[n]

EntriesInStep ==
    \A i \in DOMAIN entries : InStep(entries[i], sinceFound, sinceAsked, asks)

RequesterInv ==
    /\ RequesterTypes /\ NothingAhead /\ Partitioned /\ EntriesInStep
    /\ AsksAreTimely /\ GivesUpLast

LEMMA InitRequester == RequesterInit => RequesterInv
PROOF
  <1> SUFFICES ASSUME RequesterInit PROVE RequesterInv OBVIOUS
  <1>1. entries = <<>> /\ <<>> \in Seq(Entries) /\ DOMAIN <<>> = {}
        BY EmptySeq, SMT DEF RequesterInit
  <1>2. RequesterTypes
    <2>1. [n \in Number |-> 0] \in Histories BY DEF Histories
    <2> QED BY <1>1, <2>1 DEF RequesterInit, RequesterTypes
  <1>3. NothingAhead BY DEF RequesterInit, NothingAhead
  <1>4. Partitioned BY <1>1 DEF RequesterInit, Partitioned, Apart, Asked
  <1>5. EntriesInStep BY <1>1 DEF EntriesInStep
  <1>6. decision.what = "idle" BY DEF RequesterInit, NoDecision
  <1> QED BY <1>2, <1>3, <1>4, <1>5, <1>6 DEF RequesterInv, AsksAreTimely, GivesUpLast

-----------------------------------------------------------------------------
(* A step at a time.                                                         *)

\* Nothing is decided in a step that does not poll.
LEMMA NoDecisionNoDoubt ==
    ASSUME decision' = NoDecision
    PROVE  AsksAreTimely' /\ GivesUpLast'
PROOF
  <1>1. decision'.what = "idle" BY DEF NoDecision
  <1> QED BY <1>1 DEF AsksAreTimely, GivesUpLast

LEMMA KeptHistories ==
    ASSUME RequesterInv, KeepHistory
    PROVE  /\ sinceFound' \in Histories /\ sinceAsked' \in Histories /\ asks' \in Histories
           /\ \A n \in Number \cap wanted' : /\ sinceFound'[n] = sinceFound[n]
                                            /\ sinceAsked'[n] = sinceAsked[n]
                                            /\ asks'[n] = asks[n]
           /\ \A n \in Number : sinceFound[n] = 0 => sinceFound'[n] = 0
PROOF
  <1>1. sinceFound \in Histories /\ sinceAsked \in Histories /\ asks \in Histories
        BY DEF RequesterInv, RequesterTypes
  <1> QED BY <1>1 DEF KeepHistory, Kept, Histories

\* What is in an entry is wanted, and every entry ends at the frontier or below.
LEMMA EntriesAreWanted ==
    ASSUME RequesterInv
    PROVE  /\ \A i \in DOMAIN entries : /\ entries[i] \in Entries
                                       /\ entries[i].range \in Askable
                                       /\ Numbers(entries[i].range) \subseteq wanted
           /\ EndBy(entries, frontier)
PROOF
  <1> SUFFICES ASSUME NEW i \in DOMAIN entries
               PROVE  /\ entries[i] \in Entries /\ entries[i].range \in Askable
                      /\ Numbers(entries[i].range) \subseteq wanted
                      /\ entries[i].range.end <= frontier
      BY DEF EndBy
  <1> DEFINE r == entries[i].range
  <1>1. entries[i] \in Entries
        BY LenProperties, ElementOfSeq DEF RequesterInv, RequesterTypes
  <1>2. r \in Askable BY <1>1 DEF Entries
  <1>3. Numbers(r) \subseteq wanted BY DEF RequesterInv, Partitioned, Asked
  <1> HIDE DEF r
  <1>4. r.first \in Nat /\ r.end \in Nat /\ r.first < r.end BY <1>2, Askables
  <1>5. r.end - 1 \in Numbers(r) BY <1>4, SMT DEF Numbers
  <1>6. r.end - 1 < frontier /\ frontier \in Nat
        BY <1>3, <1>5 DEF RequesterInv, NothingAhead, RequesterTypes
  <1>7. r.end <= frontier BY <1>4, <1>6, SMT
  <1> QED BY <1>1, <1>2, <1>3, <1>7 DEF r

\* An entry keeps in step when the history of its messages does not change.
LEMMA StaysInStep ==
    ASSUME NEW e, NEW p, NEW f1, NEW a1, NEW c1, NEW f2, NEW a2, NEW c2,
           InStep(e, f1, a1, c1), Piece(p, e),
           \A n \in Numbers(p.range) : f2[n] = f1[n] /\ a2[n] = a1[n] /\ c2[n] = c1[n]
    PROVE  InStep(p, f2, a2, c2)
PROOF
  <1>1. p.age = e.age /\ p.wait = e.wait /\ p.attempts = e.attempts
        /\ Numbers(p.range) \subseteq Numbers(e.range)
        BY DEF Piece
  <1> QED BY <1>1, Zenon DEF InStep

LEMMA GapReportedKeeps ==
    ASSUME RequesterInv, NEW hole \in Arrivals, GapReported(hole)
    PROVE  RequesterInv'
PROOF
  <1> DEFINE done == OnGap(entries, hole)
  <1>1. /\ hole.first >= frontier /\ frontier' = hole.end /\ entries' = done.entries
        /\ wanted' = wanted \cup IF done.error = "ok" THEN Numbers(hole)
                                 ELSE Numbers(hole) \cap Asked(done.entries)
        /\ decision' = NoDecision /\ KeepHistory /\ ~Empty(hole)
        BY DEF GapReported
  <1>2. /\ hole.first \in Nat /\ hole.end \in Nat /\ hole.first < hole.end
        /\ hole.end <= LastSequence /\ hole \in Holed
        BY <1>1, RequesterAssumption, SMT DEF Arrivals, Empty, Holed
  <1>3. /\ entries \in Seq(Entries) /\ Apart(entries) /\ Asked(entries) = wanted
        /\ frontier \in Nat /\ wanted \in SUBSET Number /\ \A n \in wanted : n < frontier
        BY DEF RequesterInv, RequesterTypes, Partitioned, NothingAhead
  <1>4. EndBy(entries, hole.first)
    <2> SUFFICES ASSUME NEW i \in DOMAIN entries PROVE entries[i].range.end <= hole.first
        BY DEF EndBy
    <2>1. entries[i].range \in Askable /\ entries[i].range.end <= frontier
          BY EntriesAreWanted DEF EndBy
    <2>2. entries[i].range.end \in Nat BY <2>1, Askables
    <2> QED BY <1>1, <1>2, <1>3, <2>1, <2>2, SMT
  <1>5. Admitted(entries, hole, done) BY <1>2, <1>3, <1>4, OnGapAdmits
  <1> HIDE DEF done
  <1>6. /\ done.entries \in Seq(Entries) /\ Apart(done.entries)
        /\ wanted \subseteq Asked(done.entries)
        /\ Asked(done.entries) \subseteq wanted \cup Numbers(hole)
        /\ done.error = "ok" => Numbers(hole) \subseteq Asked(done.entries)
        /\ Grown(entries, Numbers(hole), done.entries)
        BY <1>3, <1>5 DEF Admitted
  <1>7. wanted' = Asked(entries') BY <1>1, <1>6
  <1>8. \A n \in Numbers(hole) : n \in Number /\ n >= frontier /\ n < hole.end
        BY <1>1, <1>2, <1>3, RequesterAssumption, SMT DEF Numbers, Number
  <1>9. RequesterTypes'
    <2>1. wanted' \in SUBSET Number BY <1>1, <1>3, <1>8
    <2> QED BY <1>1, <1>2, <1>6, <2>1, KeptHistories DEF RequesterTypes
  <1>10. NothingAhead'
    <2>1. ASSUME NEW n \in wanted' PROVE n < hole.end
      <3>1. CASE n \in Numbers(hole) BY <1>8, <3>1
      <3>2. CASE n \in wanted
        <4>1. n < frontier /\ n \in Number BY <1>3, <3>2
        <4> QED BY <1>1, <1>2, <1>3, <4>1, SMT DEF Number
      <3> QED BY <1>1, <2>1, <3>1, <3>2
    <2>2. ASSUME NEW n \in Number, n >= hole.end PROVE sinceFound'[n] = 0
      <3>1. n >= frontier BY <1>1, <1>2, <1>3, <2>2, SMT DEF Number
      <3>2. sinceFound[n] = 0 BY <3>1 DEF RequesterInv, NothingAhead
      <3> QED BY <1>1, <3>2, KeptHistories
    <2> QED BY <1>1, <2>1, <2>2 DEF NothingAhead, Number
  <1>11. Partitioned' BY <1>1, <1>6, <1>7 DEF Partitioned
  <1>12. ASSUME NEW j \in DOMAIN entries'
         PROVE  InStep(entries'[j], sinceFound', sinceAsked', asks')
    <2> DEFINE e == entries'[j]
    <2>1. e \in Entries BY <1>1, <1>6, LenProperties, ElementOfSeq
    <2>2. \A n \in Numbers(e.range) : n \in wanted' BY <1>7 DEF Asked
    <2>3. \A n \in Numbers(e.range) : /\ n \in Number /\ sinceFound'[n] = sinceFound[n]
                                     /\ sinceAsked'[n] = sinceAsked[n] /\ asks'[n] = asks[n]
          BY <1>1, <1>9, <2>2, KeptHistories DEF RequesterTypes
    <2>4. CASE \E i \in DOMAIN entries : e = entries[i]
      <3>1. PICK i \in DOMAIN entries : e = entries[i] BY <2>4
      <3>2. InStep(entries[i], sinceFound, sinceAsked, asks) BY DEF RequesterInv, EntriesInStep
      <3>3. Piece(e, entries[i]) BY <3>1 DEF Piece
      <3> HIDE DEF e
      <3>4. InStep(e, sinceFound', sinceAsked', asks') BY <2>3, <3>2, <3>3, StaysInStep
      <3> QED BY <3>4 DEF e
    <2>5. CASE /\ e.attempts = 0 /\ e.wait = SettleDelay
               /\ \A n \in Numbers(e.range) \ Numbers(hole) :
                      \E i \in DOMAIN entries : /\ n \in Numbers(entries[i].range)
                                                /\ e.age = entries[i].age
      <3>1. e.age \in Nat BY <2>1 DEF Entries
      <3>2. \A n \in Number : sinceFound'[n] \in Nat /\ asks'[n] \in Nat
            BY <1>9 DEF RequesterTypes, Histories
      <3>3. ASSUME NEW n \in Numbers(e.range) PROVE sinceFound'[n] <= e.age
        <4>1. CASE n \in Numbers(hole)
          <5>1. sinceFound[n] = 0 BY <1>8, <4>1 DEF RequesterInv, NothingAhead
          <5>2. sinceFound'[n] = 0 BY <2>3, <3>3, <5>1
          <5> QED BY <3>1, <5>2, SMT
        <4>2. CASE n \notin Numbers(hole)
          <5>1. PICK i \in DOMAIN entries : n \in Numbers(entries[i].range) /\ e.age = entries[i].age
                BY <2>5, <3>3, <4>2
          <5>2. sinceFound[n] <= entries[i].age
                BY <5>1 DEF RequesterInv, EntriesInStep, InStep
          <5> QED BY <2>3, <3>3, <5>1, <5>2
        <4> QED BY <4>1, <4>2
      <3> HIDE DEF e
      <3>4. \A n \in Numbers(e.range) : SettleDelay <= e.wait + sinceFound'[n] /\ e.attempts <= asks'[n]
            BY <2>3, <2>5, <3>2, PolicyValid, SMT
      <3>5. e.attempts <= MaxAttempts BY <2>5, PolicyValid, SMT
      <3>6. InStep(e, sinceFound', sinceAsked', asks') BY <2>5, <3>3, <3>4, <3>5 DEF InStep
      <3> QED BY <3>6 DEF e
    <2> QED BY <1>1, <1>6, <2>4, <2>5, Zenon DEF Grown
  <1>13. EntriesInStep' BY <1>12 DEF EntriesInStep
  <1>14. AsksAreTimely' /\ GivesUpLast' BY <1>1, NoDecisionNoDoubt
  <1> QED BY <1>9, <1>10, <1>11, <1>13, <1>14 DEF RequesterInv

\* Entries that are pieces of the ones before, with the histories they had.
LEMMA PiecesStayInStep ==
    ASSUME RequesterInv, KeepHistory, Asked(entries') \subseteq wanted',
           wanted' \in SUBSET Number,
           \A j \in DOMAIN entries' : \E i \in DOMAIN entries : Piece(entries'[j], entries[i])
    PROVE  EntriesInStep'
PROOF
  <1> SUFFICES ASSUME NEW j \in DOMAIN entries'
               PROVE  InStep(entries'[j], sinceFound', sinceAsked', asks')
      BY DEF EntriesInStep
  <1>1. PICK i \in DOMAIN entries : Piece(entries'[j], entries[i]) OBVIOUS
  <1>2. \A n \in Numbers(entries'[j].range) : n \in Number \cap wanted' BY DEF Asked
  <1>3. \A n \in Numbers(entries'[j].range) :
           sinceFound'[n] = sinceFound[n] /\ sinceAsked'[n] = sinceAsked[n] /\ asks'[n] = asks[n]
        BY <1>2, KeptHistories
  <1>4. InStep(entries[i], sinceFound, sinceAsked, asks) BY DEF RequesterInv, EntriesInStep
  <1> QED BY <1>1, <1>3, <1>4, StaysInStep

LEMMA ArrivalKeeps ==
    ASSUME RequesterInv, NEW arrived \in Arrivals, Arrival(arrived)
    PROVE  RequesterInv'
PROOF
  <1> DEFINE rest == FlattenSeq([i \in DOMAIN entries |-> Halves(entries[i], arrived)])
  <1>1. /\ entries' = OnFilled(entries, arrived).entries
        /\ wanted' = IF OnFilled(entries, arrived).error = "ok"
                     THEN wanted \ Numbers(arrived) ELSE wanted
        /\ decision' = NoDecision /\ KeepHistory /\ frontier' = frontier
        BY DEF Arrival
  <1>2. /\ entries \in Seq(Entries) /\ Apart(entries) /\ Asked(entries) = wanted
        /\ frontier \in Nat /\ wanted \in SUBSET Number /\ \A n \in wanted : n < frontier
        BY DEF RequesterInv, RequesterTypes, Partitioned, NothingAhead
  <1>3. /\ entries' \in Seq(Entries) /\ Apart(entries') /\ Asked(entries') = wanted'
        /\ \A j \in DOMAIN entries' : \E i \in DOMAIN entries : Piece(entries'[j], entries[i])
    <2>1. CASE Empty(arrived) \/ entries = <<>>
      <3>1. entries' = entries /\ wanted' = wanted \ Numbers(arrived) BY <1>1, <2>1 DEF OnFilled
      <3>2. wanted' = wanted
        <4>1. CASE Empty(arrived)
          <5>1. arrived.first \in Int /\ arrived.end \in Int /\ arrived.first >= arrived.end
                BY <4>1, RequesterAssumption, SMT DEF Arrivals, Empty
          <5>2. Numbers(arrived) = {} BY <5>1, SMT DEF Numbers
          <5> QED BY <3>1, <5>2
        <4>2. CASE entries = <<>>
          <5>1. DOMAIN <<>> = {} BY SMT
          <5>2. wanted = {} BY <1>2, <4>2, <5>1 DEF Asked
          <5> QED BY <3>1, <5>2
        <4> QED BY <2>1, <4>1, <4>2
      <3>3. \A i \in DOMAIN entries : Piece(entries[i], entries[i]) BY DEF Piece
      <3> QED BY <1>2, <3>1, <3>2, <3>3
    <2>2. CASE ~Empty(arrived) /\ entries # <<>> /\ Len(rest) > MaxOutstandingGaps
      <3>1. entries' = entries /\ wanted' = wanted BY <1>1, <2>2 DEF OnFilled
      <3>2. \A i \in DOMAIN entries : Piece(entries[i], entries[i]) BY DEF Piece
      <3> QED BY <1>2, <3>1, <3>2
    <2>3. CASE ~Empty(arrived) /\ entries # <<>> /\ ~ (Len(rest) > MaxOutstandingGaps)
      <3>1. entries' = rest /\ wanted' = wanted \ Numbers(arrived) BY <1>1, <2>3 DEF OnFilled
      <3>2. arrived \in Holed BY <2>3, RequesterAssumption, SMT DEF Arrivals, Holed, Empty
      <3>3. /\ rest \in Seq(Entries) /\ Apart(rest)
            /\ Asked(rest) = Asked(entries) \ Numbers(arrived)
            /\ \A j \in DOMAIN rest : \E i \in DOMAIN entries : Piece(rest[j], entries[i])
            BY <1>2, <2>3, <3>2, OnFilledRemains
      <3> HIDE DEF rest
      <3> QED BY <1>2, <3>1, <3>3
    <2> QED BY <2>1, <2>2, <2>3
  <1>4. wanted' \subseteq wanted BY <1>1
  <1>5. RequesterTypes' BY <1>1, <1>2, <1>3, <1>4, KeptHistories DEF RequesterTypes
  <1>6. NothingAhead'
    <2>1. \A n \in Number : n >= frontier => sinceFound[n] = 0 BY DEF RequesterInv, NothingAhead
    <2>2. \A n \in Number : n >= frontier => sinceFound'[n] = 0 BY <1>1, <2>1, KeptHistories
    <2> QED BY <1>1, <1>2, <1>4, <2>2 DEF NothingAhead, Number
  <1>7. Partitioned' BY <1>3 DEF Partitioned
  <1>8. EntriesInStep'
    <2>1. Asked(entries') \subseteq wanted' /\ wanted' \in SUBSET Number BY <1>2, <1>3, <1>4
    <2> QED BY <1>1, <1>3, <2>1, PiecesStayInStep
  <1>9. AsksAreTimely' /\ GivesUpLast' BY <1>1, NoDecisionNoDoubt
  <1> QED BY <1>5, <1>6, <1>7, <1>8, <1>9 DEF RequesterInv

LEMMA ClockTickKeeps ==
    ASSUME RequesterInv, ClockTick
    PROVE  RequesterInv'
PROOF
  <1>1. /\ entries' = Aged(entries) /\ decision' = NoDecision
        /\ frontier' = frontier /\ wanted' = wanted
        /\ sinceFound' = [n \in Number |-> IF n \in wanted THEN sinceFound[n] + 1 ELSE 0]
        /\ sinceAsked' = [n \in Number |-> IF n \in wanted THEN sinceAsked[n] + 1 ELSE 0]
        /\ asks' = [n \in Number |-> IF n \in wanted THEN asks[n] ELSE 0]
        BY DEF ClockTick
  <1>2. /\ entries \in Seq(Entries) /\ Apart(entries) /\ Asked(entries) = wanted
        /\ frontier \in Nat /\ wanted \in SUBSET Number /\ \A n \in wanted : n < frontier
        /\ \A n \in Number : sinceFound[n] \in Nat /\ sinceAsked[n] \in Nat /\ asks[n] \in Nat
        BY DEF RequesterInv, RequesterTypes, Partitioned, NothingAhead, Histories
  <1>3. /\ entries' \in Seq(Entries) /\ DOMAIN entries' = DOMAIN entries
        /\ \A i \in DOMAIN entries :
               /\ entries'[i].range = entries[i].range /\ entries'[i].age = entries[i].age + 1
               /\ entries'[i].attempts = entries[i].attempts
               /\ entries[i].wait <= entries'[i].wait + 1
        /\ Asked(entries') = Asked(entries) /\ Apart(entries')
        BY <1>1, <1>2, AgedEntries
  <1>4. RequesterTypes'
    <2>1. sinceFound' \in Histories /\ sinceAsked' \in Histories /\ asks' \in Histories
          BY <1>1, <1>2, SMT DEF Histories
    <2> QED BY <1>1, <1>2, <1>3, <2>1 DEF RequesterTypes
  <1>5. NothingAhead'
    <2> SUFFICES ASSUME NEW n \in Number, n >= frontier PROVE sinceFound'[n] = 0
        BY <1>1, <1>2 DEF NothingAhead, Number
    <2>1. n \notin wanted BY <1>2, SMT DEF Number
    <2> QED BY <1>1, <2>1
  <1>6. Partitioned' BY <1>1, <1>2, <1>3 DEF Partitioned
  <1>7. ASSUME NEW i \in DOMAIN entries
        PROVE  InStep(entries'[i], sinceFound', sinceAsked', asks')
    <2> DEFINE e == entries[i]
               p == entries'[i]
    <2>1. /\ p.range = e.range /\ p.age = e.age + 1 /\ p.attempts = e.attempts
          /\ e.wait <= p.wait + 1
          BY <1>3
    <2>2. InStep(e, sinceFound, sinceAsked, asks) BY DEF RequesterInv, EntriesInStep
    <2>3. e \in Entries /\ Numbers(e.range) \subseteq wanted BY EntriesAreWanted
    <2>4. p \in Entries BY <1>3, LenProperties, ElementOfSeq
    <2>5. e.age \in Nat /\ e.wait \in Nat /\ e.attempts \in Nat /\ p.wait \in Nat
          BY <2>3, <2>4 DEF Entries
    <2>6. e.attempts # 0 => TimeoutFor(e.attempts) \in Nat BY <2>5, TimeoutIsTime
    <2> HIDE DEF e, p
    <2>7. ASSUME NEW n \in Numbers(p.range)
          PROVE  /\ sinceFound'[n] <= p.age /\ SettleDelay <= p.wait + sinceFound'[n]
                 /\ p.attempts <= asks'[n]
                 /\ p.attempts # 0 => TimeoutFor(p.attempts) <= p.wait + sinceAsked'[n]
      <3>1. n \in Numbers(e.range) /\ n \in wanted /\ n \in Number BY <1>2, <2>1, <2>3
      <3>2. /\ sinceFound'[n] = sinceFound[n] + 1 /\ sinceAsked'[n] = sinceAsked[n] + 1
            /\ asks'[n] = asks[n]
            BY <1>1, <3>1
      <3>3. /\ sinceFound[n] <= e.age /\ SettleDelay <= e.wait + sinceFound[n]
            /\ e.attempts <= asks[n]
            /\ e.attempts # 0 => TimeoutFor(e.attempts) <= e.wait + sinceAsked[n]
            BY <2>2, <3>1 DEF InStep
      <3>4. sinceFound[n] \in Nat /\ sinceAsked[n] \in Nat BY <1>2, <3>1
      <3>5. sinceFound'[n] <= p.age /\ SettleDelay <= p.wait + sinceFound'[n]
            BY <2>1, <2>5, <3>2, <3>3, <3>4, PolicyValid, SMT
      <3>6. ASSUME e.attempts # 0
            PROVE  TimeoutFor(e.attempts) <= p.wait + sinceAsked'[n]
        <4> DEFINE t == TimeoutFor(e.attempts)
        <4>1. t \in Nat /\ t <= e.wait + sinceAsked[n] BY <2>6, <3>3, <3>6
        <4> HIDE DEF t
        <4>2. t <= p.wait + sinceAsked'[n] BY <2>1, <2>5, <3>2, <3>4, <4>1, SMT
        <4> QED BY <4>2 DEF t
      <3> QED BY <2>1, <3>2, <3>3, <3>5, <3>6
    <2>8. p.attempts <= MaxAttempts BY <2>1, <2>2 DEF InStep
    <2>9. InStep(p, sinceFound', sinceAsked', asks') BY <2>7, <2>8 DEF InStep
    <2> QED BY <2>9 DEF p
  <1>8. EntriesInStep' BY <1>3, <1>7 DEF EntriesInStep
  <1>9. AsksAreTimely' /\ GivesUpLast' BY <1>1, NoDecisionNoDoubt
  <1> QED BY <1>4, <1>5, <1>6, <1>8, <1>9 DEF RequesterInv

-----------------------------------------------------------------------------
(* A poll: nothing to do, a request, or a range given up.                    *)

Polled(next) ==
    /\ next = Decide(entries) /\ entries' = next.entries /\ frontier' = frontier
    /\ decision' = [what |-> next.what, range |-> next.range,
                    attempt |-> next.attempt, reason |-> next.reason]
    /\ wanted' = IF next.what = "abandon" THEN wanted \ Numbers(next.range) ELSE wanted
    /\ sinceFound' = sinceFound
    /\ sinceAsked' = [n \in Number |-> IF next.what = "send" /\ n \in Numbers(next.range)
                                       THEN 0 ELSE sinceAsked[n]]
    /\ asks' = [n \in Number |-> IF next.what = "send" /\ n \in Numbers(next.range)
                                 THEN asks[n] + 1 ELSE asks[n]]

LEMMA PollIsPolled == PollEntries => \E next : Polled(next)
PROOF BY Zenon DEF PollEntries, Polled

\* The parts of the invariant a poll hardly touches.
LEMMA PollKeepsTheRest ==
    ASSUME RequesterInv, NEW next, Polled(next),
           next.entries \in Seq(Entries), Apart(next.entries),
           Asked(next.entries) = wanted'
    PROVE  RequesterTypes' /\ NothingAhead' /\ Partitioned'
PROOF
  <1>1. /\ entries' = next.entries /\ frontier' = frontier /\ wanted' \subseteq wanted
        /\ sinceFound' = sinceFound
        BY DEF Polled
  <1>2. /\ frontier \in Nat /\ wanted \in SUBSET Number /\ \A n \in wanted : n < frontier
        /\ \A n \in Number : n >= frontier => sinceFound[n] = 0
        /\ \A n \in Number : sinceFound[n] \in Nat /\ sinceAsked[n] \in Nat /\ asks[n] \in Nat
        /\ sinceFound \in Histories
        BY DEF RequesterInv, RequesterTypes, NothingAhead, Histories
  <1>3. sinceAsked' \in Histories
    <2>1. \A n \in Number : (IF next.what = "send" /\ n \in Numbers(next.range)
                             THEN 0 ELSE sinceAsked[n]) \in Nat
          BY <1>2
    <2> QED BY <2>1 DEF Polled, Histories
  <1>4. asks' \in Histories
    <2>1. \A n \in Number : (IF next.what = "send" /\ n \in Numbers(next.range)
                             THEN asks[n] + 1 ELSE asks[n]) \in Nat
          BY <1>2
    <2> QED BY <2>1 DEF Polled, Histories
  <1>5. RequesterTypes' BY <1>1, <1>2, <1>3, <1>4 DEF RequesterTypes
  <1>6. NothingAhead' BY <1>1, <1>2 DEF NothingAhead, Number
  <1>7. Partitioned' BY <1>1 DEF Partitioned
  <1> QED BY <1>5, <1>6, <1>7

LEMMA SendKeeps ==
    ASSUME RequesterInv, NEW next, Polled(next), NEW i \in DOMAIN entries,
           Sent(entries, i, next), next.entries \in Seq(Entries)
    PROVE  RequesterInv'
PROOF
  <1> DEFINE e == entries[i]
             p == entries'[i]
  <1>1. /\ entries \in Seq(Entries) /\ Apart(entries) /\ Asked(entries) = wanted
        /\ wanted \in SUBSET Number
        /\ \A n \in Number : sinceFound[n] \in Nat /\ sinceAsked[n] \in Nat /\ asks[n] \in Nat
        BY DEF RequesterInv, RequesterTypes, Partitioned, Histories
  <1>2. /\ next.what = "send" /\ next.range = e.range
        /\ Due(e) /\ \A j \in DOMAIN entries : GiveUpReason(entries[j]) = "ok"
        /\ DOMAIN next.entries = DOMAIN entries
        /\ \A j \in DOMAIN entries : j # i => next.entries[j] = entries[j]
        /\ next.entries[i] = [range |-> e.range, age |-> e.age,
                              wait |-> TimeoutFor(e.attempts + 1), attempts |-> e.attempts + 1]
        BY DEF Sent
  <1>3. /\ entries' = next.entries /\ wanted' = wanted /\ sinceFound' = sinceFound
        /\ decision'.what = "send" /\ decision'.range = e.range
        /\ \A n \in Number : n \notin Numbers(e.range) =>
               sinceAsked'[n] = sinceAsked[n] /\ asks'[n] = asks[n]
        /\ \A n \in Number : n \in Numbers(e.range) =>
               sinceAsked'[n] = 0 /\ asks'[n] = asks[n] + 1
        BY <1>2 DEF Polled
  <1>4. /\ p.range = e.range /\ p.age = e.age /\ p.wait = TimeoutFor(e.attempts + 1)
        /\ p.attempts = e.attempts + 1
        BY <1>2, <1>3
  <1>5. /\ e \in Entries /\ Numbers(e.range) \subseteq wanted
        /\ e.age \in Nat /\ e.wait \in Nat /\ e.attempts \in Nat
    <2>1. e \in Entries /\ Numbers(e.range) \subseteq wanted BY EntriesAreWanted
    <2> QED BY <2>1 DEF Entries
  <1>6. InStep(e, sinceFound, sinceAsked, asks) BY DEF RequesterInv, EntriesInStep
  <1>7. e.wait = 0 /\ e.attempts < MaxAttempts /\ GiveUpReason(e) = "ok" BY <1>2 DEF Due
  <1> HIDE DEF e, p
  <1>8. RequesterTypes' /\ NothingAhead' /\ Partitioned'
    <2>1. Apart(next.entries) /\ Asked(next.entries) = Asked(entries)
          BY <1>1, SendIsOfADueEntry
    <2> QED BY <1>1, <1>3, <2>1, PollKeepsTheRest
  <1>9. ASSUME NEW n \in Numbers(e.range)
        PROVE  /\ sinceFound'[n] <= e.age /\ sinceFound'[n] >= SettleDelay
               /\ sinceFound'[n] < RetentionWindow
    <2>1. sinceFound[n] <= e.age /\ SettleDelay <= e.wait + sinceFound[n]
          BY <1>6 DEF InStep
    <2>2. sinceFound[n] \in Nat BY <1>1, <1>5
    <2>3. ~ (e.age >= RetentionWindow) BY <1>7 DEF GiveUpReason
    <2> QED BY <1>3, <1>5, <1>7, <2>1, <2>2, <2>3, PolicyValid, SMT
  <1>10. InStep(p, sinceFound', sinceAsked', asks')
    <2> DEFINE t == TimeoutFor(e.attempts + 1)
    <2>1. t \in Nat
      <3>1. e.attempts + 1 \in Nat \ {0} BY <1>5, SMT
      <3> QED BY <3>1, TimeoutIsTime
    <2>2. p.wait = t /\ (p.attempts # 0 => TimeoutFor(p.attempts) = t) BY <1>4
    <2> HIDE DEF t
    <2>3. ASSUME NEW n \in Numbers(p.range)
          PROVE  /\ sinceFound'[n] <= p.age /\ SettleDelay <= p.wait + sinceFound'[n]
                 /\ p.attempts <= asks'[n]
                 /\ p.attempts # 0 => TimeoutFor(p.attempts) <= p.wait + sinceAsked'[n]
      <3>1. n \in Numbers(e.range) /\ n \in Number BY <1>1, <1>4, <1>5
      <3>2. e.attempts <= asks[n] BY <1>6, <3>1 DEF InStep
      <3>3. asks'[n] = asks[n] + 1 /\ sinceAsked'[n] = 0 /\ asks[n] \in Nat BY <1>1, <1>3, <3>1
      <3>4. sinceFound'[n] \in Nat BY <1>1, <1>3, <3>1
      <3>5. sinceFound'[n] <= e.age /\ sinceFound'[n] >= SettleDelay BY <1>9, <3>1
      <3>6. SettleDelay <= p.wait + sinceFound'[n]
            BY <2>1, <2>2, <3>4, <3>5, PolicyValid, SMT
      <3>7. p.attempts <= asks'[n] BY <1>4, <1>5, <3>2, <3>3, SMT
      <3>8. p.attempts # 0 => TimeoutFor(p.attempts) <= p.wait + sinceAsked'[n]
        <4>1. t <= p.wait + sinceAsked'[n] BY <2>1, <2>2, <3>3, SMT
        <4> QED BY <2>2, <4>1
      <3> QED BY <1>4, <3>5, <3>6, <3>7, <3>8
    <2>4. p.attempts <= MaxAttempts BY <1>4, <1>5, <1>7, PolicyValid, SMT
    <2> QED BY <2>3, <2>4 DEF InStep
  <1>11. ASSUME NEW j \in DOMAIN entries, j # i
         PROVE  InStep(entries'[j], sinceFound', sinceAsked', asks')
    <2>1. entries'[j] = entries[j] BY <1>2, <1>3, <1>11
    <2>2. InStep(entries[j], sinceFound, sinceAsked, asks) BY DEF RequesterInv, EntriesInStep
    <2>3. /\ entries[j].range \in Askable /\ e.range \in Askable
          /\ Numbers(entries[j].range) \subseteq wanted
          BY EntriesAreWanted DEF e
    <2>4. ~Overlaps(entries[j].range, e.range) BY <1>1, <1>11 DEF Apart, e
    <2>5. \A n \in Numbers(entries[j].range) :
             /\ sinceFound'[n] = sinceFound[n] /\ sinceAsked'[n] = sinceAsked[n]
             /\ asks'[n] = asks[n]
      <3> SUFFICES ASSUME NEW n \in Numbers(entries[j].range)
                   PROVE  /\ sinceFound'[n] = sinceFound[n] /\ sinceAsked'[n] = sinceAsked[n]
                          /\ asks'[n] = asks[n]
          OBVIOUS
      <3>1. n \notin Numbers(e.range) BY <2>3, <2>4, Shared
      <3>2. n \in Number BY <1>1, <2>3
      <3> QED BY <1>3, <3>1, <3>2
    <2>6. Piece(entries[j], entries[j]) BY DEF Piece
    <2>7. InStep(entries[j], sinceFound', sinceAsked', asks') BY <2>2, <2>5, <2>6, StaysInStep
    <2> QED BY <2>1, <2>7
  <1>12. EntriesInStep' BY <1>2, <1>3, <1>10, <1>11 DEF EntriesInStep, p
  <1>13. AsksAreTimely' BY <1>3, <1>9 DEF AsksAreTimely
  <1>14. GivesUpLast' BY <1>3 DEF GivesUpLast
  <1> QED BY <1>8, <1>12, <1>13, <1>14 DEF RequesterInv

LEMMA AbandonKeeps ==
    ASSUME RequesterInv, NEW next, Polled(next), NEW i \in DOMAIN entries,
           Abandoned(entries, i, next)
    PROVE  RequesterInv'
PROOF
  <1> DEFINE e == entries[i]
  <1>1. /\ entries \in Seq(Entries) /\ Apart(entries) /\ Asked(entries) = wanted
        /\ wanted \in SUBSET Number
        /\ \A n \in Number : sinceFound[n] \in Nat /\ sinceAsked[n] \in Nat /\ asks[n] \in Nat
        /\ sinceAsked \in Histories /\ asks \in Histories
        BY DEF RequesterInv, RequesterTypes, Partitioned, Histories
  <1>2. /\ next.what = "abandon" /\ next.reason = GiveUpReason(e) /\ next.range = e.range
        /\ GiveUpReason(e) # "ok" /\ next.entries = RemoveAt(entries, i)
        BY DEF Abandoned
  <1>3. /\ entries' = next.entries /\ wanted' = wanted \ Numbers(e.range)
        /\ sinceFound' = sinceFound
        /\ decision'.what = "abandon" /\ decision'.range = e.range
        /\ decision'.reason = GiveUpReason(e)
        BY <1>2 DEF Polled
  <1>4. sinceAsked' = sinceAsked /\ asks' = asks BY <1>1, <1>2 DEF Polled, Histories
  <1>5. /\ next.entries \in Seq(Entries) /\ Apart(next.entries)
        /\ Asked(next.entries) = wanted'
        /\ \A j \in DOMAIN next.entries : \E k \in DOMAIN entries :
               next.entries[j] = entries[k] /\ k # i
    <2>1. /\ next.entries \in Seq(Entries) /\ Apart(next.entries)
          /\ Asked(next.entries) = Asked(entries) \ Numbers(entries[i].range)
          /\ \A j \in DOMAIN next.entries : \E k \in DOMAIN entries :
                 next.entries[j] = entries[k] /\ k # i
          BY <1>1, <1>2, EntryRemoved
    <2> QED BY <1>1, <1>3, <2>1
  <1>6. RequesterTypes' /\ NothingAhead' /\ Partitioned' BY <1>5, PollKeepsTheRest
  <1>7. EntriesInStep' BY <1>3, <1>4, <1>5 DEF RequesterInv, EntriesInStep
  <1>8. AsksAreTimely' BY <1>3 DEF AsksAreTimely
  <1>9. ASSUME NEW n \in Numbers(e.range), GiveUpReason(e) # "retransmit_window_exceeded"
        PROVE  asks'[n] >= MaxAttempts /\ sinceAsked'[n] >= TimeoutFor(MaxAttempts)
    <2>1. InStep(e, sinceFound, sinceAsked, asks) BY DEF RequesterInv, EntriesInStep
    <2>2. e \in Entries /\ Numbers(e.range) \subseteq wanted BY EntriesAreWanted
    <2>3. e.wait \in Nat /\ e.attempts \in Nat /\ n \in Number BY <1>1, <2>2 DEF Entries
    <2>4. e.attempts >= MaxAttempts /\ e.wait = 0 BY <1>2, <1>9 DEF GiveUpReason
    <2>5. e.attempts = MaxAttempts /\ e.attempts # 0
          BY <2>1, <2>3, <2>4, PolicyValid, SMT DEF InStep
    <2>6. /\ e.attempts <= asks[n] /\ TimeoutFor(e.attempts) <= e.wait + sinceAsked[n]
          BY <1>9, <2>1, <2>5 DEF InStep
    <2>7. asks[n] \in Nat /\ sinceAsked[n] \in Nat BY <1>1, <2>3
    <2> DEFINE t == TimeoutFor(MaxAttempts)
    <2>8. t \in Nat BY TimeoutIsTime, PolicyValid
    <2>9. t <= 0 + sinceAsked[n] BY <2>4, <2>5, <2>6
    <2> HIDE DEF t, e
    <2>10. t <= sinceAsked[n] /\ MaxAttempts <= asks[n]
           BY <2>5, <2>6, <2>7, <2>8, <2>9, SMT
    <2>11. asks[n] >= MaxAttempts /\ sinceAsked[n] >= t
           BY <2>7, <2>8, <2>10, PolicyValid, SMT
    <2> QED BY <1>4, <2>11 DEF t
  <1>10. GivesUpLast' BY <1>3, <1>9 DEF GivesUpLast
  <1> QED BY <1>6, <1>7, <1>8, <1>10 DEF RequesterInv

LEMMA PollEntriesKeeps ==
    ASSUME RequesterInv, PollEntries
    PROVE  RequesterInv'
PROOF
  <1>1. PICK next : Polled(next) BY PollIsPolled
  <1>2. entries \in Seq(Entries) /\ next = Decide(entries)
        BY <1>1 DEF RequesterInv, RequesterTypes, Polled
  <1>3. CASE next.what = "idle" /\ next.entries = entries /\ next.range = NoRange
    <2>1. /\ entries' = entries /\ wanted' = wanted /\ decision'.what = "idle"
          /\ sinceFound' = sinceFound
          BY <1>1, <1>3 DEF Polled
    <2>2. sinceAsked' = sinceAsked /\ asks' = asks
      <3>1. sinceAsked \in Histories /\ asks \in Histories BY DEF RequesterInv, RequesterTypes
      <3> QED BY <1>1, <1>3, <3>1 DEF Polled, Histories
    <2>3. RequesterTypes' /\ NothingAhead' /\ Partitioned'
          BY <1>1, <1>2, <1>3, <2>1, PollKeepsTheRest DEF RequesterInv, Partitioned
    <2>4. EntriesInStep' BY <2>1, <2>2 DEF RequesterInv, EntriesInStep
    <2>5. AsksAreTimely' /\ GivesUpLast' BY <2>1 DEF AsksAreTimely, GivesUpLast
    <2> QED BY <2>3, <2>4, <2>5 DEF RequesterInv
  <1>4. CASE \E i \in DOMAIN entries : Sent(entries, i, next) /\ next.entries \in Seq(Entries)
        BY <1>1, <1>4, SendKeeps
  <1>5. CASE \E i \in DOMAIN entries : Abandoned(entries, i, next)
        BY <1>1, <1>5, AbandonKeeps
  <1> QED BY <1>2, <1>3, <1>4, <1>5, Decisions

-----------------------------------------------------------------------------
(* The requester keeps its invariant.                                        *)

LEMMA RequesterStep == RequesterInv /\ [RequesterNext]_requesterVars => RequesterInv'
PROOF
  <1> SUFFICES ASSUME RequesterInv, [RequesterNext]_requesterVars PROVE RequesterInv' OBVIOUS
  <1>1. CASE \E hole \in Arrivals : GapReported(hole) BY <1>1, GapReportedKeeps
  <1>2. CASE \E arrived \in Arrivals : Arrival(arrived) BY <1>2, ArrivalKeeps
  <1>3. CASE PollEntries BY <1>3, PollEntriesKeeps
  <1>4. CASE ClockTick BY <1>4, ClockTickKeeps
  <1>5. CASE UNCHANGED requesterVars
        BY <1>5 DEF requesterVars, historyVars, RequesterInv, RequesterTypes, NothingAhead,
                    Partitioned, EntriesInStep, AsksAreTimely, GivesUpLast
  <1> QED BY <1>1, <1>2, <1>3, <1>4, <1>5 DEF RequesterNext

LEMMA RequesterAlways == RequesterSpec => []RequesterInv
PROOF BY InitRequester, RequesterStep, PTL DEF RequesterSpec

\* on_gap, on_filled and poll: whatever is missing and not given up is in one
\* request of the array, what has arrived is in none, and none is larger than
\* one request of the wire.
THEOREM RequesterPartitionsWanted == RequesterSpec => []EntriesPartitionWanted
PROOF
  <1>1. RequesterInv => EntriesPartitionWanted
    <2> SUFFICES ASSUME RequesterInv PROVE EntriesPartitionWanted OBVIOUS
    <2>1. ASSUME NEW i \in DOMAIN entries
          PROVE  Count(entries[i].range) \in 1 .. MaxMessagesPerRequest
      <3> DEFINE r == entries[i].range
      <3>1. r \in Askable BY EntriesAreWanted
      <3> HIDE DEF r
      <3>2. /\ r.first \in Nat /\ r.end \in Nat /\ r.first < r.end
            /\ r.end - r.first <= MaxMessagesPerRequest /\ Count(r) = r.end - r.first
            BY <3>1, Askables
      <3>3. Count(r) \in 1 .. MaxMessagesPerRequest BY <3>2, RequestLimit, SMT
      <3> QED BY <3>3 DEF r
    <2> QED BY <2>1 DEF RequesterInv, Partitioned, Apart, EntriesPartitionWanted
  <1> QED BY <1>1, RequesterAlways, PTL

\* poll: a message is asked for only after its settle delay and never once the
\* retention window has passed it by, whatever was merged with it since.
THEOREM RequesterAsksInTime == RequesterSpec => []AsksAreTimely
PROOF
  <1>1. RequesterInv => AsksAreTimely BY DEF RequesterInv
  <1> QED BY <1>1, RequesterAlways, PTL

\* poll: a message is given up only out of the window, or after every attempt
\* was made for it and the last one had its whole timeout.
THEOREM RequesterGivesUpLast == RequesterSpec => []GivesUpLast
PROOF
  <1>1. RequesterInv => GivesUpLast BY DEF RequesterInv
  <1> QED BY <1>1, RequesterAlways, PTL
=============================================================================
