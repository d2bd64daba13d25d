--------------------------- MODULE SequenceLemmas ---------------------------
(* Lemmas about numbers, about stretches of a sequence and about the         *)
(* operators that walk over one, FoldLeft and FlattenSeq.  The provers       *)
(* cannot instantiate the library's induction theorems, so induction is      *)
(* stated with a set of numbers.                                             *)
EXTENDS Integers, SequencesExt, SequenceTheorems, FiniteSetTheorems,
        WellFoundedInduction, TLAPS

-----------------------------------------------------------------------------
(* Natural numbers: least elements, and induction over a set of them.        *)

LEMMA LeastNumber ==
    ASSUME NEW T \in SUBSET Nat, T # {}
    PROVE  \E n \in T : \A k \in T : n <= k
PROOF
  <1>1. \E x \in T : \A y \in T : ~ (<<y, x>> \in OpToRel(<, Nat))
        BY NatLessThanWellFounded, WFMin
  <1>2. PICK n \in T : \A y \in T : ~ (<<y, n>> \in OpToRel(<, Nat)) BY <1>1
  <1>3. ASSUME NEW k \in T PROVE n <= k
    <2>1. k < n => <<k, n>> \in OpToRel(<, Nat) BY Zenon DEF OpToRel
    <2>2. ~ (k < n) BY <1>2, <2>1, Zenon
    <2> QED BY <2>2, SMT
  <1> QED BY <1>3

LEMMA NumbersByInduction ==
    ASSUME NEW S \in SUBSET Nat, 0 \in S, \A n \in S : n + 1 \in S
    PROVE  S = Nat
PROOF
  <1> SUFFICES ASSUME S # Nat PROVE FALSE OBVIOUS
  <1>1. PICK n \in Nat \ S : \A k \in Nat \ S : n <= k BY LeastNumber
  <1>2. n # 0 /\ n - 1 \in Nat /\ n - 1 \in S BY <1>1, SMT
  <1> QED BY <1>1, <1>2, SMT

LEMMA GreatestNumber ==
    ASSUME NEW m \in Nat, NEW T \in SUBSET (1 .. m), T # {}
    PROVE  Max(T) \in T /\ \A k \in T : k <= Max(T)
PROOF
  <1> DEFINE Above == {u \in Nat : \A k \in T : k <= u}
  <1>1. Above # {} /\ Above \in SUBSET Nat BY SMT
  <1>2. PICK u \in Above : \A v \in Above : u <= v BY <1>1, LeastNumber
  <1>3. u \in T
    <2> SUFFICES ASSUME u \notin T PROVE FALSE OBVIOUS
    <2>0. PICK t \in T : TRUE OBVIOUS
    <2>1. u # 0 BY <2>0, <1>2, SMT
    <2>2. u - 1 \in Nat /\ \A k \in T : k <= u - 1 BY <1>2, <2>1, SMT
    <2>3. u - 1 \in Above BY <2>2
    <2> QED BY <1>2, <2>3, SMT
  <1>4. \E x \in T : \A y \in T : x >= y BY <1>2, <1>3, SMT
  <1>5. Max(T) \in T /\ \A y \in T : Max(T) >= y BY <1>4, Zenon DEF Max
  <1> QED BY <1>5, SMT

-----------------------------------------------------------------------------
(* FoldLeft.  It is a function of the sets of the first indices; f is the    *)
(* operation that is folded, as a function.                                  *)

\* h[s] is the fold of the elements whose indices, below m + 1, are in s.
FoldsInto(h, A, f, base, seq, m) ==
    /\ h \in [SUBSET (1 .. m) -> A]
    /\ \A s \in SUBSET (1 .. m) :
          h[s] = IF s = {} THEN base ELSE f[<<h[s \ {Max(s)}], seq[Max(s)]>>]

LEMMA FoldGrows ==
    ASSUME NEW A, NEW B, NEW f \in [A \X B -> A], NEW base \in A, NEW m \in Nat,
           NEW seq, seq[m + 1] \in B, NEW h, FoldsInto(h, A, f, base, seq, m)
    PROVE  \E g : FoldsInto(g, A, f, base, seq, m + 1)
PROOF
  <1> DEFINE last == m + 1
             g == [s \in SUBSET (1 .. last) |->
                     IF last \in s THEN f[<<h[s \ {last}], seq[last]>>] ELSE h[s]]
  <1>1. last \in Nat /\ last \notin 1 .. m /\ (1 .. last) \ {last} = 1 .. m BY SMT
  <1>2. seq[last] \in B OBVIOUS
  <1>a. h \in [SUBSET (1 .. m) -> A] BY DEF FoldsInto
  <1>b. \A s \in SUBSET (1 .. m) :
           h[s] = IF s = {} THEN base ELSE f[<<h[s \ {Max(s)}], seq[Max(s)]>>]
        BY DEF FoldsInto
  <1> HIDE DEF last
  <1>3. g \in [SUBSET (1 .. last) -> A]
    <2> SUFFICES ASSUME NEW s \in SUBSET (1 .. last)
                 PROVE  (IF last \in s THEN f[<<h[s \ {last}], seq[last]>>] ELSE h[s]) \in A
        OBVIOUS
    <2>1. CASE last \in s
      <3>1. s \ {last} \in SUBSET (1 .. m) BY <1>1
      <3>2. h[s \ {last}] \in A BY <3>1, <1>a
      <3> QED BY <2>1, <3>2, <1>2
    <2>2. CASE last \notin s
      <3>1. s \in SUBSET (1 .. m) BY <1>1, <2>2
      <3> QED BY <2>2, <3>1, <1>a
    <2> QED BY <2>1, <2>2
  <1>4. ASSUME NEW s \in SUBSET (1 .. last)
        PROVE  g[s] = IF s = {} THEN base ELSE f[<<g[s \ {Max(s)}], seq[Max(s)]>>]
    <2>1. CASE last \in s
      <3>1. s # {} BY <2>1
      <3>2. Max(s) \in s /\ \A k \in s : k <= Max(s) BY <1>1, <3>1, GreatestNumber
      <3>3. Max(s) = last
        <4>1. Max(s) \in 1 .. last /\ last <= Max(s) BY <2>1, <3>2
        <4> QED BY <4>1, <1>1, SMT
      <3>4. s \ {last} \in SUBSET (1 .. last) /\ last \notin s \ {last} OBVIOUS
      <3>5. g[s \ {last}] = h[s \ {last}] BY <3>4
      <3>6. g[s] = f[<<h[s \ {last}], seq[last]>>] BY <2>1
      <3> HIDE DEF g
      <3> QED BY <3>1, <3>3, <3>5, <3>6
    <2>2. CASE last \notin s
      <3>1. s \in SUBSET (1 .. m) BY <1>1, <2>2
      <3>2. g[s] = h[s] BY <2>2
      <3>4. s \ {Max(s)} \in SUBSET (1 .. last) /\ last \notin s \ {Max(s)} BY <2>2
      <3>5. g[s \ {Max(s)}] = h[s \ {Max(s)}] BY <3>4
      <3> HIDE DEF g
      <3> QED BY <3>1, <3>2, <3>5, <1>b
    <2> QED BY <2>1, <2>2
  <1> HIDE DEF g
  <1>5. FoldsInto(g, A, f, base, seq, last) BY <1>3, <1>4 DEF FoldsInto
  <1> QED BY <1>5 DEF last

LEMMA FoldExists ==
    ASSUME NEW A, NEW B, NEW f \in [A \X B -> A], NEW base \in A,
           NEW n \in Nat, NEW seq \in [1 .. n -> B]
    PROVE  \E h : FoldsInto(h, A, f, base, seq, n)
PROOF
  <1> DEFINE Folds(m) == \E h : FoldsInto(h, A, f, base, seq, m)
             S == {m \in Nat : m <= n => Folds(m)}
  <1>1. 0 \in S
    <2> DEFINE h == [s \in SUBSET (1 .. 0) |-> base]
    <2>1. \A s \in SUBSET (1 .. 0) : s = {} BY SMT
    <2>2. h \in [SUBSET (1 .. 0) -> A] OBVIOUS
    <2>3. FoldsInto(h, A, f, base, seq, 0) BY <2>1, <2>2 DEF FoldsInto
    <2> QED BY <2>3
  <1>2. ASSUME NEW m \in Nat, m <= n => Folds(m), m + 1 <= n PROVE Folds(m + 1)
    <2>1. m <= n /\ m + 1 \in 1 .. n BY <1>2, SMT
    <2>2. seq[m + 1] \in B BY <2>1
    <2>3. PICK h : FoldsInto(h, A, f, base, seq, m) BY <1>2, <2>1
    <2> QED BY <2>2, <2>3, FoldGrows
  <1>3. S = Nat
    <2>1. S \in SUBSET Nat OBVIOUS
    <2>2. \A m \in S : m + 1 \in S
      <3> HIDE DEF Folds
      <3> QED BY <1>2
    <2> HIDE DEF S
    <2> QED BY <1>1, <2>1, <2>2, NumbersByInduction
  <1>4. Folds(n)
    <2> HIDE DEF Folds
    <2>1. n \in S /\ n <= n BY <1>3
    <2> QED BY <2>1
  <1> QED BY <1>4

\* The set of the first k indices is the set of the first k - 1 and k.
LEMMA FirstIndices ==
    ASSUME NEW n \in Nat, NEW k \in 1 .. n
    PROVE  /\ 1 .. k \in SUBSET (1 .. n) /\ 1 .. k # {} /\ Max(1 .. k) = k
           /\ (1 .. k) \ {k} = 1 .. k - 1 /\ k \in 0 .. n /\ k - 1 \in 0 .. n
PROOF
  <1>1. k \in Nat /\ k <= n /\ 1 <= k BY SMT
  <1>2. k \in 0 .. n /\ k - 1 \in 0 .. n /\ k \in 1 .. k BY <1>1, SMT
  <1>3. \A x \in 1 .. k : x \in 1 .. n BY <1>1, SMT
  <1>4. (1 .. k) \ {k} = 1 .. k - 1 BY <1>1, SMT
  <1>5. Max(1 .. k) = k
    <2>1. Max(1 .. k) \in 1 .. k /\ k <= Max(1 .. k) BY <1>1, <1>2, GreatestNumber
    <2> QED BY <2>1, <1>1, SMT
  <1> QED BY <1>1, <1>2, <1>3, <1>4, <1>5

\* A function that is a fold on every set of indices goes through the sequence
\* from its first element.
LEMMA FoldSteps ==
    ASSUME NEW A, NEW f, NEW base, NEW n \in Nat, NEW seq,
           NEW h, FoldsInto(h, A, f, base, seq, n)
    PROVE  /\ h[1 .. 0] = base
           /\ \A k \in 1 .. n : h[1 .. k] = f[<<h[1 .. k - 1], seq[k]>>]
PROOF
  <1>1. h[1 .. 0] = base
    <2>1. 1 .. 0 = {} /\ 1 .. 0 \in SUBSET (1 .. n) BY SMT
    <2> QED BY <2>1 DEF FoldsInto
  <1>2. ASSUME NEW k \in 1 .. n PROVE h[1 .. k] = f[<<h[1 .. k - 1], seq[k]>>]
    <2> QED BY FirstIndices DEF FoldsInto
  <1> QED BY <1>1, <1>2

-----------------------------------------------------------------------------
(* FlattenSeq.                                                               *)

\* f[i] is the first i sequences of ss after each other.
Flattening(f, ss, m) ==
    f = [i \in 1 .. m |-> IF i = 1 THEN ss[i] ELSE f[i - 1] \o ss[i]]

LEMMA FlatteningGrows ==
    ASSUME NEW ss, NEW m \in Nat, NEW f, Flattening(f, ss, m)
    PROVE  \E g : Flattening(g, ss, m + 1)
PROOF
  <1> DEFINE last == m + 1
             g == [i \in 1 .. last |->
                     IF i = last THEN (IF i = 1 THEN ss[i] ELSE f[i - 1] \o ss[i]) ELSE f[i]]
             next(h, i) == IF i = 1 THEN ss[i] ELSE h[i - 1] \o ss[i]
  <1>1. last \in Nat /\ last - 1 = m BY SMT
  <1>2. \A i \in 1 .. last : i # last => i \in 1 .. m BY SMT
  <1> HIDE DEF last
  <1>3. ASSUME NEW i \in 1 .. last PROVE g[i] = next(g, i)
    <2>1. CASE i = 1
      <3>1. CASE i = last BY <2>1, <3>1
      <3>2. CASE i # last
        <4>1. i \in 1 .. m BY <3>2, <1>2
        <4>2. f[i] = next(f, i) BY <4>1, Zenon DEF Flattening
        <4> QED BY <2>1, <3>2, <4>2
      <3> QED BY <3>1, <3>2
    <2>2. CASE i # 1
      <3>1. i - 1 \in 1 .. last /\ i - 1 # last BY <1>1, <2>2, SMT
      <3>2. g[i - 1] = f[i - 1] BY <3>1
      <3>3. CASE i = last
        <4>1. g[i] = f[i - 1] \o ss[i] BY <2>2, <3>3
        <4> HIDE DEF g
        <4> QED BY <2>2, <3>2, <4>1
      <3>4. CASE i # last
        <4>1. i \in 1 .. m BY <3>4, <1>2
        <4>2. f[i] = next(f, i) BY <4>1, Zenon DEF Flattening
        <4>3. g[i] = f[i] BY <3>4
        <4> HIDE DEF g
        <4> QED BY <2>2, <3>2, <4>2, <4>3
      <3> QED BY <3>3, <3>4
    <2> QED BY <2>1, <2>2
  <1>4. g = [i \in 1 .. last |-> next(g, i)]
    <2> HIDE DEF next
    <2> QED BY <1>3
  <1>5. Flattening(g, ss, last)
    <2> HIDE DEF g
    <2> QED BY <1>4, Zenon DEF Flattening
  <1> QED BY <1>5 DEF last

LEMMA FlatteningExists ==
    ASSUME NEW ss, NEW n \in Nat
    PROVE  \E f : Flattening(f, ss, n)
PROOF
  <1> DEFINE S == {m \in Nat : \E f : Flattening(f, ss, m)}
  <1>1. 0 \in S
    <2> DEFINE f == [i \in 1 .. 0 |-> ss[i]]
    <2>1. 1 .. 0 = {} BY SMT
    <2>2. f = [i \in 1 .. 0 |-> IF i = 1 THEN ss[i] ELSE f[i - 1] \o ss[i]] BY <2>1
    <2>3. Flattening(f, ss, 0)
      <3> HIDE DEF f
      <3> QED BY <2>2, Zenon DEF Flattening
    <2> QED BY <2>3
  <1>2. \A m \in S : m + 1 \in S BY FlatteningGrows
  <1>3. S = Nat
    <2> HIDE DEF S
    <2>1. S \in SUBSET Nat BY DEF S
    <2> QED BY <1>1, <1>2, <2>1, NumbersByInduction
  <1> QED BY <1>3

LEMMA FlattenInSteps ==
    ASSUME NEW ss, Len(ss) \in Nat, Len(ss) # 0
    PROVE  \E f : /\ FlattenSeq(ss) = f[Len(ss)]
                 /\ f[1] = ss[1]
                 /\ \A i \in 1 .. Len(ss) : i # 1 => f[i] = f[i - 1] \o ss[i]
PROOF
  <1> DEFINE n == Len(ss)
             flatten == CHOOSE f : Flattening(f, ss, n)
  <1>1. Flattening(flatten, ss, n) BY FlatteningExists, Zenon
  <1>2. FlattenSeq(ss) = flatten[n] BY Zenon DEF FlattenSeq, Flattening
  <1> HIDE DEF flatten
  <1>3. \A i \in 1 .. n : flatten[i] = IF i = 1 THEN ss[i] ELSE flatten[i - 1] \o ss[i]
        BY <1>1, Zenon DEF Flattening
  <1>4. 1 \in 1 .. n BY SMT
  <1> QED BY <1>2, <1>3, <1>4

-----------------------------------------------------------------------------
(* Remainders of numbers that are at most once around.                       *)

LEMMA BelowModulus == ASSUME NEW n \in Nat \ {0}, NEW a \in 0 .. n - 1 PROVE a % n = a
PROOF
  <1> DEFINE r == a % n
             q == a \div n
  <1>1. a = n * q + r /\ r \in 0 .. n - 1 /\ q \in Int BY SMT
  <1> HIDE DEF r, q
  <1>2. q > 0 => n * q >= n BY <1>1, SMT
  <1>3. q < 0 => n * q <= 0 - n BY <1>1, SMT
  <1>4. q = 0 => n * q = 0 BY <1>1, SMT
  <1>5. r = a BY <1>1, <1>2, <1>3, <1>4, SMT
  <1> QED BY <1>5 DEF r

LEMMA Remainder == ASSUME NEW n \in Nat \ {0}, NEW a \in Nat PROVE a % n \in 0 .. n - 1
PROOF BY SMT

LEMMA OnceAround ==
    ASSUME NEW n \in Nat \ {0}, NEW a \in Nat, a < n + n
    PROVE  a % n = IF a < n THEN a ELSE a - n
PROOF
  <1> DEFINE r == a % n
             q == a \div n
  <1>1. a = n * q + r /\ r \in 0 .. n - 1 /\ q \in Int BY SMT
  <1> HIDE DEF r, q
  <1>2. q > 1 => n * q >= n + n BY <1>1, SMT
  <1>3. q < 0 => n * q <= 0 - n BY <1>1, SMT
  <1>4. (q = 0 => n * q = 0) /\ (q = 1 => n * q = n) BY <1>1, SMT
  <1>5. r = IF a < n THEN a ELSE a - n BY <1>1, <1>2, <1>3, <1>4, SMT
  <1> QED BY <1>5 DEF r

-----------------------------------------------------------------------------
(* Stretches of a sequence.                                                  *)

\* The elements from a to b.
Slice(seq, a, b) == [i \in 1 .. b - a + 1 |-> seq[i + a - 1]]

LEMMA NoSlice ==
    ASSUME NEW seq, NEW a \in Int, NEW b \in Int, b < a
    PROVE  Slice(seq, a, b) = <<>>
PROOF
  <1> DEFINE s == Slice(seq, a, b)
  <1>1. 1 .. b - a + 1 = {} BY SMT
  <1>2. s = [i \in {} |-> seq[i + a - 1]] BY <1>1 DEF Slice
  <1>3. <<>> = [i \in {} |-> seq[i + a - 1]] OBVIOUS
  <1> QED BY <1>2, <1>3

LEMMA SliceGrows ==
    ASSUME NEW n \in Nat, NEW seq, NEW a \in 1 .. n, NEW k \in a .. n
    PROVE  Append(Slice(seq, a, k - 1), seq[k]) = Slice(seq, a, k)
PROOF
  <1> DEFINE C == {seq[i] : i \in 1 .. n}
             m == k - a
             s == Slice(seq, a, k - 1)
             t == Slice(seq, a, k)
             last == seq[k]
  <1>1. /\ m \in Nat /\ (k - 1) - a + 1 = m /\ k - a + 1 = m + 1 /\ (m + 1) + a - 1 = k
        /\ \A i \in 1 .. m : i + a - 1 \in 1 .. n
        BY SMT
  <1>2. s = [i \in 1 .. m |-> seq[i + a - 1]] BY <1>1 DEF Slice
  <1>3. t = [i \in 1 .. m + 1 |-> seq[i + a - 1]] BY <1>1 DEF Slice
  <1>4. k \in 1 .. n /\ last \in C
    <2>1. k \in 1 .. n BY SMT
    <2> QED BY <2>1
  <1>c. \A i \in 1 .. n : seq[i] \in C OBVIOUS
  <1> HIDE DEF C, m, s, t
  <1>5. s \in [1 .. m -> C] BY <1>1, <1>2, <1>c
  <1>6. s \in Seq(C) /\ Len(s) = m BY <1>1, <1>5
  <1>7. seq[(m + 1) + a - 1] = last BY <1>1
  <1> HIDE DEF last
  <1>8. Append(s, last) = [i \in 1 .. m + 1 |-> IF i <= m THEN s[i] ELSE last]
    <2> DEFINE more == Append(s, last)
    <2>1. /\ more \in Seq(C) /\ Len(more) = m + 1 /\ more[m + 1] = last
          /\ \A i \in 1 .. m : more[i] = s[i]
          BY <1>4, <1>6
    <2> HIDE DEF more
    <2>2. more = [i \in 1 .. m + 1 |-> more[i]] BY <2>1
    <2>3. \A i \in 1 .. m + 1 : more[i] = IF i <= m THEN s[i] ELSE last
      <3> TAKE i \in 1 .. m + 1
      <3>1. CASE i <= m
        <4>1. i \in 1 .. m BY <3>1, <1>1, SMT
        <4> QED BY <4>1, <3>1, <2>1
      <3>2. CASE ~(i <= m)
        <4>1. i = m + 1 BY <3>2, <1>1, SMT
        <4> QED BY <4>1, <3>2, <2>1
      <3> QED BY <3>1, <3>2
    <2> QED BY <2>2, <2>3 DEF more
  <1>9. \A i \in 1 .. m + 1 : (IF i <= m THEN s[i] ELSE last) = seq[i + a - 1]
    <2> TAKE i \in 1 .. m + 1
    <2>1. CASE i <= m
      <3>1. i \in 1 .. m BY <2>1, <1>1, SMT
      <3> QED BY <3>1, <2>1, <1>2
    <2>2. CASE ~(i <= m)
      <3>1. i = m + 1 BY <2>2, <1>1, SMT
      <3> QED BY <3>1, <2>2, <1>7
    <2> QED BY <2>1, <2>2
  <1> QED BY <1>3, <1>6, <1>8, <1>9 DEF s, t, last

LEMMA SubSeqIsSlice ==
    ASSUME NEW S, NEW s \in Seq(S), NEW a \in 1 .. Len(s) + 1, NEW b \in 0 .. Len(s)
    PROVE  SubSeq(s, a, b) = Slice(s, a, b)
PROOF
  <1>1. b - a + 1 = 1 + b - a BY SMT
  <1>2. SubSeq(s, a, b) = [i \in 1 .. 1 + b - a |-> s[i + a - 1]] OBVIOUS
  <1> QED BY <1>1, <1>2 DEF Slice

LEMMA SliceOfSlice ==
    ASSUME NEW seq, NEW g \in Int, NEW a \in Int, NEW b \in Int, g <= a
    PROVE  Slice(Slice(seq, g, b), a - g + 1, b - g + 1) = Slice(seq, a, b)
PROOF
  <1> DEFINE s == Slice(seq, g, b)
             c == a - g + 1
             d == b - g + 1
  <1>1. d - c + 1 = b - a + 1 BY SMT
  <1>2. \A i \in 1 .. b - a + 1 :
           i + c - 1 \in 1 .. d /\ (i + c - 1) + g - 1 = i + a - 1
        BY SMT
  <1>3. s = [i \in 1 .. d |-> seq[i + g - 1]] BY DEF Slice
  <1>4. Slice(s, c, d) = [i \in 1 .. d - c + 1 |-> s[i + c - 1]] BY DEF Slice
  <1>5. Slice(seq, a, b) = [i \in 1 .. b - a + 1 |-> seq[i + a - 1]] BY DEF Slice
  <1> HIDE DEF s, c, d
  <1>6. \A i \in 1 .. b - a + 1 : s[i + c - 1] = seq[i + a - 1]
    <2> TAKE i \in 1 .. b - a + 1
    <2>1. i + c - 1 \in 1 .. d /\ (i + c - 1) + g - 1 = i + a - 1 BY <1>2
    <2>2. s[i + c - 1] = seq[(i + c - 1) + g - 1] BY <2>1, <1>3
    <2> QED BY <2>1, <2>2
  <1>7. Slice(s, c, d) = Slice(seq, a, b) BY <1>1, <1>4, <1>5, <1>6
  <1> QED BY <1>7 DEF s, c, d

=============================================================================
