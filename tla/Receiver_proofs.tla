-------------------------- MODULE Receiver_proofs ---------------------------
(* The receiving side's account of sequence numbers: the array of holes of   *)
(* gap_set (GapSet), the tracker that finds them (GapTracker), and the       *)
(* arbiter that merges the lines (Arbiter), for every bound on the holes,    *)
(* every ring of digests and every sequence of packets and snapshots.        *)
EXTENDS GapSet, GapTracker, Arbiter, SequenceLemmas, FiniteSetTheorems

(***************************************************************************)
(* GapSet: the array of gap_set implements the set of missing numbers.     *)
(***************************************************************************)
HoleRange == [first : Nat, end : Nat]
Arrays == {rs \in Seq(HoleRange) : Canonical(rs)}

-----------------------------------------------------------------------------
(* Numbers of an array.                                                      *)

LEMMA NumbersMember ==
    ASSUME NEW r \in HoleRange, NEW n
    PROVE  n \in Numbers(r) <=> n \in Nat /\ r.first <= n /\ n < r.end
PROOF
  <1>1. r.first \in Nat /\ r.end \in Nat BY DEF HoleRange
  <1>2. \A a, b \in Nat : n \in a .. b - 1 <=> n \in Nat /\ a <= n /\ n < b BY SMT
  <1> QED BY <1>1, <1>2 DEF Numbers

LEMMA NumbersOfMember ==
    ASSUME NEW rs \in Seq(HoleRange), NEW n
    PROVE  n \in NumbersOf(rs) <=>
              \E i \in 1 .. Len(rs) : n \in Nat /\ rs[i].first <= n /\ n < rs[i].end
PROOF
  <1>1. DOMAIN rs = 1 .. Len(rs) OBVIOUS
  <1>3. \A i \in 1 .. Len(rs) :
           n \in Numbers(rs[i]) <=> n \in Nat /\ rs[i].first <= n /\ n < rs[i].end
        BY NumbersMember
  <1>4. n \in NumbersOf(rs) <=> \E i \in DOMAIN rs : n \in Numbers(rs[i])
        BY DEF NumbersOf
  <1> QED BY <1>1, <1>3, <1>4

LEMMA NumbersOfEmpty == NumbersOf(<<>>) = {}
PROOF
  <1>1. DOMAIN <<>> = {} OBVIOUS
  <1> QED BY <1>1 DEF NumbersOf

LEMMA NumbersOfOne ==
    ASSUME NEW r \in HoleRange
    PROVE  /\ <<r>> \in Seq(HoleRange) /\ Len(<<r>>) = 1 /\ <<r>>[1] = r
           /\ NumbersOf(<<r>>) = Numbers(r)
           /\ r.first < r.end => Canonical(<<r>>)
PROOF
  <1>1. <<r>> \in Seq(HoleRange) /\ Len(<<r>>) = 1 /\ <<r>>[1] = r OBVIOUS
  <1>2. DOMAIN <<r>> = {1} OBVIOUS
  <1>3. NumbersOf(<<r>>) = Numbers(r) BY <1>1, <1>2 DEF NumbersOf
  <1>4. r.first < r.end => Canonical(<<r>>)
    <2>1. r.first \in Nat /\ r.end \in Nat BY DEF HoleRange
    <2>2. \A i \in DOMAIN <<r>> : <<r>>[i] = r BY <1>1, <1>2
    <2>3. \A i, j \in DOMAIN <<r>> : ~ (i < j) BY <1>2, SMT
    <2> QED BY <2>1, <2>2, <2>3 DEF Canonical, Empty
  <1> QED BY <1>1, <1>3, <1>4

\* Ranges before and after each other.
LEMMA Joined ==
    ASSUME NEW a \in Arrays, NEW b \in Arrays,
           \A i \in 1 .. Len(a), j \in 1 .. Len(b) : a[i].end < b[j].first
    PROVE  /\ a \o b \in Arrays /\ Len(a \o b) = Len(a) + Len(b)
           /\ NumbersOf(a \o b) = NumbersOf(a) \cup NumbersOf(b)
PROOF
  <1>1. a \in Seq(HoleRange) /\ b \in Seq(HoleRange) /\ Canonical(a) /\ Canonical(b) BY DEF Arrays
  <1>2. /\ a \o b \in Seq(HoleRange) /\ Len(a \o b) = Len(a) + Len(b)
        /\ \A i \in 1 .. Len(a) + Len(b) :
              (a \o b)[i] = IF i <= Len(a) THEN a[i] ELSE b[i - Len(a)]
        BY <1>1, ConcatProperties
  <1>3. Len(a) \in Nat /\ Len(b) \in Nat BY <1>1
  <1>4. DOMAIN a = 1 .. Len(a) /\ DOMAIN b = 1 .. Len(b) /\ DOMAIN (a \o b) = 1 .. Len(a) + Len(b)
        BY <1>1, <1>2
  <1>5. Canonical(a \o b)
    <2>1. ASSUME NEW i \in 1 .. Len(a) + Len(b) PROVE ~Empty((a \o b)[i])
      <3>1. CASE i <= Len(a)
        <4>1. i \in 1 .. Len(a) BY <3>1, <1>3, SMT
        <4> QED BY <4>1, <3>1, <1>1, <1>2, <1>4 DEF Canonical
      <3>2. CASE ~(i <= Len(a))
        <4>1. i - Len(a) \in 1 .. Len(b) BY <3>2, <1>3, SMT
        <4> QED BY <4>1, <3>2, <1>1, <1>2, <1>4 DEF Canonical
      <3> QED BY <3>1, <3>2
    <2>2. ASSUME NEW i \in 1 .. Len(a) + Len(b), NEW j \in 1 .. Len(a) + Len(b), i < j
          PROVE  (a \o b)[i].end < (a \o b)[j].first
      <3>1. CASE j <= Len(a)
        <4>1. i \in 1 .. Len(a) /\ j \in 1 .. Len(a) /\ i <= Len(a) BY <3>1, <2>2, <1>3, SMT
        <4> QED BY <4>1, <3>1, <2>2, <1>1, <1>2, <1>4 DEF Canonical
      <3>2. CASE ~(i <= Len(a))
        <4>1. /\ i - Len(a) \in 1 .. Len(b) /\ j - Len(a) \in 1 .. Len(b)
              /\ ~(j <= Len(a)) /\ i - Len(a) < j - Len(a)
              BY <3>2, <2>2, <1>3, SMT
        <4> QED BY <4>1, <3>2, <1>1, <1>2, <1>4 DEF Canonical
      <3>3. CASE i <= Len(a) /\ ~(j <= Len(a))
        <4>1. i \in 1 .. Len(a) /\ j - Len(a) \in 1 .. Len(b) BY <3>3, <1>3, SMT
        <4> QED BY <4>1, <3>3, <1>2
      <3> QED BY <3>1, <3>2, <3>3
    <2> QED BY <2>1, <2>2, <1>4 DEF Canonical
  <1>6. ASSUME NEW n PROVE n \in NumbersOf(a \o b) <=> n \in NumbersOf(a) \cup NumbersOf(b)
    <2> DEFINE In(r) == n \in Nat /\ r.first <= n /\ n < r.end
    <2>1. n \in NumbersOf(a \o b) <=> \E i \in 1 .. Len(a) + Len(b) : In((a \o b)[i])
          BY <1>2, NumbersOfMember
    <2>2. n \in NumbersOf(a) <=> \E i \in 1 .. Len(a) : In(a[i]) BY <1>1, NumbersOfMember
    <2>3. n \in NumbersOf(b) <=> \E i \in 1 .. Len(b) : In(b[i]) BY <1>1, NumbersOfMember
    <2> HIDE DEF In
    <2>4. ASSUME NEW i \in 1 .. Len(a) + Len(b), In((a \o b)[i])
          PROVE  (\E k \in 1 .. Len(a) : In(a[k])) \/ (\E k \in 1 .. Len(b) : In(b[k]))
      <3>1. CASE i <= Len(a)
        <4>1. i \in 1 .. Len(a) BY <3>1, <1>3, SMT
        <4> QED BY <4>1, <3>1, <1>2, <2>4
      <3>2. CASE ~(i <= Len(a))
        <4>1. i - Len(a) \in 1 .. Len(b) BY <3>2, <1>3, SMT
        <4> QED BY <4>1, <3>2, <1>2, <2>4
      <3> QED BY <3>1, <3>2
    <2>5. ASSUME NEW k \in 1 .. Len(a), In(a[k])
          PROVE  \E i \in 1 .. Len(a) + Len(b) : In((a \o b)[i])
      <3>1. k \in 1 .. Len(a) + Len(b) /\ k <= Len(a) BY <1>3, SMT
      <3> QED BY <3>1, <1>2, <2>5
    <2>6. ASSUME NEW k \in 1 .. Len(b), In(b[k])
          PROVE  \E i \in 1 .. Len(a) + Len(b) : In((a \o b)[i])
      <3>1. /\ Len(a) + k \in 1 .. Len(a) + Len(b) /\ ~(Len(a) + k <= Len(a))
            /\ (Len(a) + k) - Len(a) = k BY <1>3, SMT
      <3>2. (a \o b)[Len(a) + k] = b[k] BY <3>1, <1>2
      <3> QED BY <3>1, <3>2, <2>6
    <2> QED BY <2>1, <2>2, <2>3, <2>4, <2>5, <2>6
  <1> QED BY <1>2, <1>5, <1>6 DEF Arrays

\* Ranges cut out of an array.
LEMMA Cut ==
    ASSUME NEW rs \in Arrays, NEW from \in 1 .. Len(rs) + 1, NEW to \in 0 .. Len(rs),
           from <= to + 1
    PROVE  /\ SubSeq(rs, from, to) \in Arrays /\ Len(SubSeq(rs, from, to)) = to + 1 - from
           /\ \A i \in 1 .. to + 1 - from : SubSeq(rs, from, to)[i] = rs[i + from - 1]
PROOF
  <1>1. rs \in Seq(HoleRange) /\ Canonical(rs) /\ Len(rs) \in Nat /\ DOMAIN rs = 1 .. Len(rs)
        BY DEF Arrays
  <1> DEFINE cut == SubSeq(rs, from, to)
             len == to + 1 - from
  <1>2. len \in Nat /\ \A i \in 1 .. len : i + from - 1 \in 1 .. Len(rs) BY <1>1, SMT
  <1>3. cut \in Seq(HoleRange) /\ Len(cut) = len /\ DOMAIN cut = 1 .. len
        /\ \A i \in 1 .. len : cut[i] = rs[i + from - 1]
    <2>1. \A i \in from .. to : i \in 1 .. Len(rs) BY <1>1, SMT
    <2>2. \A i \in from .. to : rs[i] \in HoleRange BY <2>1, <1>1
    <2> QED BY <2>2, <1>1, <1>2, SubSeqProperties
  <1> HIDE DEF cut, len
  <1>4. Canonical(cut)
    <2>1. \A i \in 1 .. len : ~Empty(cut[i]) BY <1>1, <1>2, <1>3 DEF Canonical
    <2>2. ASSUME NEW i \in 1 .. len, NEW j \in 1 .. len, i < j PROVE cut[i].end < cut[j].first
      <3>1. i + from - 1 < j + from - 1 BY <2>2, <1>2, SMT
      <3> QED BY <3>1, <1>1, <1>2, <1>3 DEF Canonical
    <2> QED BY <2>1, <2>2, <1>3 DEF Canonical
  <1> QED BY <1>3, <1>4 DEF Arrays, cut, len

-----------------------------------------------------------------------------
(* How many ranges, and how many numbers.                                    *)

LEMMA HolesAreRanges ==
    ASSUME NEW rs \in Arrays
    PROVE  Holes(NumbersOf(rs)) = Len(rs)
PROOF
  <1>1. rs \in Seq(HoleRange) /\ Canonical(rs) /\ Len(rs) \in Nat /\ DOMAIN rs = 1 .. Len(rs)
        BY DEF Arrays
  <1>2. \A i \in 1 .. Len(rs) :
           rs[i] \in HoleRange /\ rs[i].first \in Nat /\ rs[i].end \in Nat /\ rs[i].first < rs[i].end
    <2>1. \A i \in 1 .. Len(rs) : rs[i] \in HoleRange /\ ~Empty(rs[i]) BY <1>1 DEF Canonical
    <2> QED BY <2>1, SMT DEF HoleRange, Empty
  <1>3. \A i, j \in 1 .. Len(rs) : i < j => rs[i].end < rs[j].first BY <1>1 DEF Canonical
  <1> DEFINE s == NumbersOf(rs)
             starts == {n \in s : n - 1 \notin s}
             f == [i \in 1 .. Len(rs) |-> rs[i].first]
  <1>4. \A n : n \in s <=> \E i \in 1 .. Len(rs) : n \in Nat /\ rs[i].first <= n /\ n < rs[i].end
        BY <1>1, NumbersOfMember
  <1> HIDE DEF s
  <1>5. ASSUME NEW i \in 1 .. Len(rs) PROVE rs[i].first \in starts
    <2>1. rs[i].first \in s BY <1>2, <1>4
    <2>2. ASSUME rs[i].first - 1 \in s PROVE FALSE
      <3>1. PICK j \in 1 .. Len(rs) : rs[j].first <= rs[i].first - 1 /\ rs[i].first - 1 < rs[j].end
            BY <2>2, <1>4
      <3>2. CASE j < i BY <3>1, <3>2, <1>2, <1>3, SMT
      <3>3. CASE i < j BY <3>1, <3>3, <1>2, <1>3, SMT
      <3>4. CASE i = j BY <3>1, <3>4, <1>2, SMT
      <3> QED BY <3>2, <3>3, <3>4, <1>1, SMT
    <2> QED BY <2>1, <2>2
  <1>6. ASSUME NEW n \in starts PROVE \E i \in 1 .. Len(rs) : n = rs[i].first
    <2>1. PICK i \in 1 .. Len(rs) : n \in Nat /\ rs[i].first <= n /\ n < rs[i].end BY <1>4
    <2>2. ASSUME n # rs[i].first PROVE FALSE
      <3>1. n - 1 \in Nat /\ rs[i].first <= n - 1 /\ n - 1 < rs[i].end
            BY <2>1, <2>2, <1>2, SMT
      <3>2. n - 1 \in s BY <3>1, <1>4
      <3> QED BY <3>2
    <2> QED BY <2>2
  <1>7. f \in Bijection(1 .. Len(rs), starts)
    <2>1. f \in [1 .. Len(rs) -> starts] BY <1>5
    <2>2. ASSUME NEW i \in 1 .. Len(rs), NEW j \in 1 .. Len(rs), f[i] = f[j] PROVE i = j
      <3>1. rs[i].first = rs[j].first BY <2>2
      <3>2. ~(i < j) /\ ~(j < i) BY <3>1, <1>2, <1>3, SMT
      <3> QED BY <3>2, SMT
    <2>3. \A n \in starts : \E i \in 1 .. Len(rs) : f[i] = n BY <1>6
    <2> HIDE DEF f, starts
    <2> QED BY <2>1, <2>2, <2>3 DEF Bijection, Injection, Surjection, IsInjective
  <1>8. Cardinality(starts) = Len(rs)
    <2>1. IsFiniteSet(1 .. Len(rs)) /\ Cardinality(1 .. Len(rs)) = Len(rs)
          BY <1>1, FS_Interval, SMT
    <2> HIDE DEF f, starts
    <2>2. ExistsBijection(1 .. Len(rs), starts) BY <1>7 DEF ExistsBijection
    <2> QED BY <2>1, <2>2, FS_Bijection
  <1> QED BY <1>8 DEF Holes, s

LEMMA NumbersCount ==
    ASSUME NEW r \in HoleRange
    PROVE  IsFiniteSet(Numbers(r)) /\ Cardinality(Numbers(r)) = Count(r) /\ Count(r) \in Nat
PROOF
  <1>1. r.first \in Int /\ r.end - 1 \in Int /\ r.end \in Nat /\ r.first \in Nat
        BY SMT DEF HoleRange
  <1>2. /\ IsFiniteSet(r.first .. r.end - 1)
        /\ Cardinality(r.first .. r.end - 1) =
              IF r.first > r.end - 1 THEN 0 ELSE (r.end - 1) - r.first + 1
        BY <1>1, FS_Interval
  <1> QED BY <1>1, <1>2, SMT DEF Numbers, Count, Empty

\* The equation of the fold in total_missing().
TotalStep(total, rs) ==
    total = [s \in SUBSET DOMAIN rs |->
               IF s = {} THEN 0 ELSE total[s \ {Max(s)}] + Count(rs[Max(s)])]

LEMMA TotalInSteps ==
    ASSUME NEW rs \in Seq(HoleRange)
    PROVE  \E total : /\ TotalMissing(rs) = total[1 .. Len(rs)] /\ total[1 .. 0] = 0
                      /\ \A k \in 1 .. Len(rs) :
                            total[1 .. k] = total[1 .. k - 1] + Count(rs[k])
PROOF
  <1> DEFINE n == Len(rs)
             f == [p \in Nat \X HoleRange |-> p[1] + Count(p[2])]
             total == CHOOSE iter : TotalStep(iter, rs)
  <1>1. n \in Nat /\ DOMAIN rs = 1 .. n /\ rs \in [1 .. n -> HoleRange] OBVIOUS
  <1>2. \A a \in Nat, r \in HoleRange : a + Count(r) \in Nat BY NumbersCount
  <1>3. f \in [Nat \X HoleRange -> Nat]
        /\ \A a \in Nat, r \in HoleRange : f[<<a, r>>] = a + Count(r)
    <2>1. \A p \in Nat \X HoleRange : p[1] + Count(p[2]) \in Nat BY <1>2
    <2> QED BY <2>1
  <1> HIDE DEF f, n
  <1>4. PICK h : FoldsInto(h, Nat, f, 0, rs, n) BY <1>1, <1>3, FoldExists
  <1>5. \A s \in SUBSET (1 .. n) : s # {} => Max(s) \in s /\ s \ {Max(s)} \in SUBSET (1 .. n)
        BY <1>1, GreatestNumber
  <1>6. TotalStep(h, rs)
    <2>1. ASSUME NEW s \in SUBSET (1 .. n)
          PROVE  h[s] = IF s = {} THEN 0 ELSE h[s \ {Max(s)}] + Count(rs[Max(s)])
      <3>1. h \in [SUBSET (1 .. n) -> Nat]
            /\ h[s] = IF s = {} THEN 0 ELSE f[<<h[s \ {Max(s)}], rs[Max(s)]>>]
            BY <1>4 DEF FoldsInto
      <3>2. CASE s # {}
        <4>1. h[s \ {Max(s)}] \in Nat /\ rs[Max(s)] \in HoleRange BY <3>1, <3>2, <1>1, <1>5
        <4> QED BY <4>1, <3>1, <3>2, <1>3
      <3> QED BY <3>1, <3>2
    <2>2. h = [s \in SUBSET (1 .. n) |-> h[s]] BY <1>4 DEF FoldsInto
    <2> QED BY <2>1, <2>2, <1>1 DEF TotalStep
  <1>7. TotalStep(total, rs) BY <1>6, Zenon
  <1>8. TotalMissing(rs) = total[1 .. n]
        BY <1>1, Zenon DEF TotalMissing, TotalStep, FoldLeft, MapThenFoldSet
  <1> HIDE DEF total
  <1>9. \A s \in SUBSET (1 .. n) :
           total[s] = IF s = {} THEN 0 ELSE total[s \ {Max(s)}] + Count(rs[Max(s)])
    <2>1. total = [s \in SUBSET (1 .. n) |->
                     IF s = {} THEN 0 ELSE total[s \ {Max(s)}] + Count(rs[Max(s)])]
          BY <1>1, <1>7, Zenon DEF TotalStep
    <2> QED BY <2>1
  <1>10. total[1 .. 0] = 0
    <2>1. 1 .. 0 = {} /\ 1 .. 0 \in SUBSET (1 .. n) BY SMT
    <2> QED BY <2>1, <1>9
  <1>11. \A k \in 1 .. n : total[1 .. k] = total[1 .. k - 1] + Count(rs[k])
    <2> TAKE k \in 1 .. n
    <2>1. 1 .. k \in SUBSET (1 .. n) /\ 1 .. k # {} /\ Max(1 .. k) = k
          /\ (1 .. k) \ {k} = 1 .. k - 1
          BY <1>1, FirstIndices
    <2> QED BY <2>1, <1>9
  <1> QED BY <1>8, <1>10, <1>11 DEF n

LEMMA TotalIsCardinality ==
    ASSUME NEW rs \in Arrays
    PROVE  IsFiniteSet(NumbersOf(rs)) /\ TotalMissing(rs) = Cardinality(NumbersOf(rs))
PROOF
  <1>1. rs \in Seq(HoleRange) /\ Canonical(rs) /\ Len(rs) \in Nat /\ DOMAIN rs = 1 .. Len(rs)
        BY DEF Arrays
  <1>2. PICK total : /\ TotalMissing(rs) = total[1 .. Len(rs)] /\ total[1 .. 0] = 0
                     /\ \A k \in 1 .. Len(rs) :
                           total[1 .. k] = total[1 .. k - 1] + Count(rs[k])
        BY <1>1, TotalInSteps
  <1> DEFINE n == Len(rs)
             part(k) == UNION {Numbers(rs[i]) : i \in 1 .. k}
             Good(k) == IsFiniteSet(part(k)) /\ Cardinality(part(k)) = total[1 .. k]
             S == {k \in Nat : k <= n => Good(k)}
  <1>3. 0 \in S
    <2>1. part(0) = {} BY SMT
    <2>2. Good(0) BY <2>1, <1>2, FS_EmptySet
    <2> QED BY <2>2
  <1>4. ASSUME NEW k \in Nat, k <= n => Good(k), k + 1 <= n PROVE Good(k + 1)
    <2>1. k <= n /\ k + 1 \in 1 .. n /\ (k + 1) - 1 = k /\ 1 .. k + 1 = (1 .. k) \cup {k + 1}
          BY <1>4, <1>1, SMT
    <2>2. rs[k + 1] \in HoleRange BY <2>1, <1>1
    <2>3. part(k + 1) = part(k) \cup Numbers(rs[k + 1]) BY <2>1
    <2>4. part(k) \cap Numbers(rs[k + 1]) = {}
      <3> SUFFICES ASSUME NEW i \in 1 .. k, NEW m, m \in Numbers(rs[i]), m \in Numbers(rs[k + 1])
                   PROVE  FALSE
          OBVIOUS
      <3>1. i \in 1 .. n /\ i < k + 1 BY <2>1, <1>1, SMT
      <3>2. rs[i] \in HoleRange BY <3>1, <1>1
      <3>3. m \in Nat /\ m < rs[i].end /\ rs[k + 1].first <= m BY <3>2, <2>2, NumbersMember
      <3>4. rs[i].end < rs[k + 1].first BY <3>1, <2>1, <1>1 DEF Canonical
      <3>5. rs[i].end \in Nat /\ rs[k + 1].first \in Nat BY <3>2, <2>2 DEF HoleRange
      <3> QED BY <3>3, <3>4, <3>5, SMT
    <2>5. Good(k) BY <1>4, <2>1
    <2>6. IsFiniteSet(Numbers(rs[k + 1])) /\ Cardinality(Numbers(rs[k + 1])) = Count(rs[k + 1])
          /\ Count(rs[k + 1]) \in Nat
          BY <2>2, NumbersCount
    <2> HIDE DEF part
    <2>7. IsFiniteSet(part(k + 1))
          /\ Cardinality(part(k + 1)) = Cardinality(part(k)) + Cardinality(Numbers(rs[k + 1]))
      <3>1. Cardinality({}) = 0 BY FS_EmptySet
      <3>2. Cardinality(part(k)) \in Nat BY <2>5, FS_CardinalityType
      <3>3. /\ IsFiniteSet(part(k) \cup Numbers(rs[k + 1]))
            /\ Cardinality(part(k) \cup Numbers(rs[k + 1])) =
                  Cardinality(part(k)) + Cardinality(Numbers(rs[k + 1]))
                    - Cardinality(part(k) \cap Numbers(rs[k + 1]))
            BY <2>5, <2>6, FS_Union
      <3>4. Cardinality(part(k) \cap Numbers(rs[k + 1])) = 0 BY <3>1, <2>4
      <3>5. Cardinality(Numbers(rs[k + 1])) \in Nat BY <2>6
      <3>6. Cardinality(part(k) \cup Numbers(rs[k + 1])) =
                  Cardinality(part(k)) + Cardinality(Numbers(rs[k + 1]))
            BY <3>2, <3>3, <3>4, <3>5, SMT
      <3> QED BY <3>3, <3>6, <2>3, Zenon
    <2>8. total[1 .. k + 1] = total[1 .. k] + Count(rs[k + 1]) BY <1>2, <2>1
    <2> QED BY <2>5, <2>6, <2>7, <2>8
  <1>5. S = Nat
    <2>1. S \in SUBSET Nat OBVIOUS
    <2>2. \A k \in S : k + 1 \in S
      <3> HIDE DEF Good
      <3> QED BY <1>4
    <2> HIDE DEF S
    <2> QED BY <1>3, <2>1, <2>2, NumbersByInduction
  <1>6. Good(n)
    <2> HIDE DEF Good
    <2>1. n \in S /\ n <= n BY <1>5, <1>1
    <2> QED BY <2>1
  <1>7. part(n) = NumbersOf(rs) BY <1>1 DEF NumbersOf
  <1> QED BY <1>2, <1>6, <1>7

-----------------------------------------------------------------------------
(* What is left of each range, range after range.                            *)

\* Every range of the sequence part lies within r.
Within(part, r) ==
    \A j \in 1 .. Len(part) : r.first <= part[j].first /\ part[j].end <= r.end

LEMMA FlattenedInOrder ==
    ASSUME NEW rs \in Arrays, NEW parts, parts \in [1 .. Len(rs) -> Arrays],
           \A i \in 1 .. Len(rs) : Within(parts[i], rs[i])
    PROVE  /\ FlattenSeq(parts) \in Arrays
           /\ NumbersOf(FlattenSeq(parts)) = UNION {NumbersOf(parts[i]) : i \in 1 .. Len(rs)}
           /\ (\A i \in 1 .. Len(rs) : Len(parts[i]) <= 1) => Len(FlattenSeq(parts)) <= Len(rs)
PROOF
  <1>1. rs \in Seq(HoleRange) /\ Canonical(rs) /\ Len(rs) \in Nat /\ DOMAIN rs = 1 .. Len(rs)
        BY DEF Arrays
  <1> DEFINE n == Len(rs)
  <1>2. parts \in Seq(Arrays) /\ Len(parts) = n BY <1>1
  <1>3. CASE n = 0
    <2>1. parts = <<>> BY <1>2, <1>3
    <2>2. FlattenSeq(parts) = <<>> BY <1>2, <1>3, <2>1, Zenon DEF FlattenSeq
    <2>3. <<>> \in Arrays BY DEF Arrays, Canonical
    <2>4. {NumbersOf(parts[i]) : i \in 1 .. Len(rs)} = {}
      <3>1. 1 .. Len(rs) = {} BY <1>3, SMT
      <3> QED BY <3>1
    <2>5. Len(FlattenSeq(parts)) <= Len(rs) BY <2>2, <1>1
    <2> QED BY <2>2, <2>3, <2>4, <2>5, NumbersOfEmpty
  <1>4. CASE n # 0
    <2>1. PICK f : /\ FlattenSeq(parts) = f[n] /\ f[1] = parts[1]
                   /\ \A i \in 1 .. n : i # 1 => f[i] = f[i - 1] \o parts[i]
      <3>1. Len(parts) \in Nat /\ Len(parts) # 0 /\ Len(parts) = n BY <1>1, <1>2, <1>4
      <3> HIDE DEF n
      <3>2. \E f : /\ FlattenSeq(parts) = f[Len(parts)] /\ f[1] = parts[1]
                   /\ \A i \in 1 .. Len(parts) : i # 1 => f[i] = f[i - 1] \o parts[i]
            BY <3>1, FlattenInSteps, Zenon
      <3> QED BY <3>1, <3>2
    <2> DEFINE union(k) == UNION {NumbersOf(parts[i]) : i \in 1 .. k}
               short == \A i \in 1 .. n : Len(parts[i]) <= 1
               Good(k) == /\ f[k] \in Arrays /\ NumbersOf(f[k]) = union(k)
                          /\ \A j \in 1 .. Len(f[k]) : f[k][j].end <= rs[k].end
                          /\ short => Len(f[k]) <= k
               S == {k \in Nat : k + 1 <= n => Good(k + 1)}
    <2>2. 0 \in S
      <3>1. 1 \in 1 .. n BY <1>1, <1>4, SMT
      <3>2. f[1] \in Arrays /\ \A j \in 1 .. Len(f[1]) : f[1][j].end <= rs[1].end
            BY <3>1, <2>1 DEF Within
      <3>3. union(1) = NumbersOf(f[1])
        <4>1. 1 .. 1 = {1} BY SMT
        <4> QED BY <4>1, <2>1
      <3>4. Good(1) BY <3>1, <3>2, <3>3, <2>1
      <3> HIDE DEF Good
      <3> QED BY <3>4
    <2>3. ASSUME NEW k \in Nat, k + 1 <= n => Good(k + 1), k + 2 <= n PROVE Good(k + 2)
      <3> DEFINE a == f[k + 1]
                 b == parts[k + 2]
      <3>1. /\ k + 1 <= n /\ k + 2 \in 1 .. n /\ k + 2 # 1 /\ (k + 2) - 1 = k + 1 /\ k + 1 \in 1 .. n
            /\ k + 1 < k + 2 /\ 1 .. k + 2 = (1 .. k + 1) \cup {k + 2}
            BY <2>3, <1>1, SMT
      <3>2. f[k + 2] = a \o b BY <3>1, <2>1
      <3>3. a \in Arrays /\ NumbersOf(a) = union(k + 1)
            /\ \A j \in 1 .. Len(a) : a[j].end <= rs[k + 1].end
            BY <2>3, <3>1
      <3>4. b \in Arrays /\ \A j \in 1 .. Len(b) : rs[k + 2].first <= b[j].first
                                                /\ b[j].end <= rs[k + 2].end
            BY <3>1 DEF Within
      <3>5. union(k + 2) = union(k + 1) \cup NumbersOf(b) BY <3>1
      <3> HIDE DEF a, b, union
      <3>6. rs[k + 1].end < rs[k + 2].first /\ rs[k + 2].first < rs[k + 2].end
            /\ rs[k + 1].end \in Nat /\ rs[k + 2].first \in Nat /\ rs[k + 2].end \in Nat
        <4>1. rs[k + 1] \in HoleRange /\ rs[k + 2] \in HoleRange BY <3>1, <1>1
        <4>2. rs[k + 1].end < rs[k + 2].first /\ ~Empty(rs[k + 2]) BY <3>1, <1>1 DEF Canonical
        <4> QED BY <4>1, <4>2, SMT DEF HoleRange, Empty
      <3>7. /\ a \in Seq(HoleRange) /\ b \in Seq(HoleRange) BY <3>3, <3>4 DEF Arrays
      <3>8. /\ \A j \in 1 .. Len(a) : a[j].end \in Nat
            /\ \A j \in 1 .. Len(b) : b[j].first \in Nat /\ b[j].end \in Nat
        <4>1. /\ \A j \in 1 .. Len(a) : a[j] \in HoleRange
              /\ \A j \in 1 .. Len(b) : b[j] \in HoleRange
              BY <3>7
        <4> QED BY <4>1 DEF HoleRange
      <3>9. \A i \in 1 .. Len(a), j \in 1 .. Len(b) : a[i].end < b[j].first
        <4> TAKE i \in 1 .. Len(a), j \in 1 .. Len(b)
        <4> DEFINE last == a[i].end
                   first == b[j].first
                   low == rs[k + 1].end
                   high == rs[k + 2].first
        <4>1. last <= low /\ high <= first BY <3>3, <3>4
        <4>2. last \in Nat /\ first \in Nat BY <3>8
        <4>3. low < high /\ low \in Nat /\ high \in Nat BY <3>6
        <4> HIDE DEF last, first, low, high
        <4>4. last < first BY ONLY <4>1, <4>2, <4>3, SMT
        <4> QED BY <4>4 DEF last, first
      <3>10. a \o b \in Arrays /\ NumbersOf(a \o b) = NumbersOf(a) \cup NumbersOf(b)
            BY <3>3, <3>4, <3>9, Joined
      <3>11. \A j \in 1 .. Len(a \o b) : (a \o b)[j].end <= rs[k + 2].end
        <4> TAKE j \in 1 .. Len(a \o b)
        <4>1. /\ Len(a \o b) = Len(a) + Len(b) /\ Len(a) \in Nat /\ Len(b) \in Nat
              /\ (a \o b)[j] = IF j <= Len(a) THEN a[j] ELSE b[j - Len(a)]
              BY <3>7, ConcatProperties
        <4>2. CASE j <= Len(a)
          <5>1. j \in 1 .. Len(a) BY <4>1, <4>2, SMT
          <5> DEFINE last == a[j].end
                     low == rs[k + 1].end
                     first == rs[k + 2].first
                     high == rs[k + 2].end
          <5>2. last <= low /\ last \in Nat BY <5>1, <3>3, <3>8
          <5>3. (a \o b)[j] = a[j] BY <4>1, <4>2
          <5>4. low < first /\ first < high /\ low \in Nat /\ first \in Nat /\ high \in Nat
                BY <3>6
          <5> HIDE DEF last, low, first, high
          <5>5. last <= high BY ONLY <5>2, <5>4, SMT
          <5> QED BY <5>3, <5>5 DEF last, high
        <4>3. CASE ~(j <= Len(a))
          <5>1. j - Len(a) \in 1 .. Len(b) BY <4>1, <4>3, SMT
          <5> QED BY <5>1, <4>1, <4>3, <3>4
        <4> QED BY <4>2, <4>3
      <3>12. short => Len(a \o b) <= k + 2
        <4>1. short => Len(a) <= k + 1 BY <2>3, <3>1 DEF a
        <4>2. short => Len(b) <= 1 BY <3>1 DEF b
        <4>3. Len(a \o b) = Len(a) + Len(b) /\ Len(a) \in Nat /\ Len(b) \in Nat
              BY <3>7, ConcatProperties
        <4> HIDE DEF short
        <4> QED BY <4>1, <4>2, <4>3, SMT
      <3> HIDE DEF short
      <3> QED BY <3>2, <3>3, <3>5, <3>10, <3>11, <3>12
    <2>4. S = Nat
      <3>1. S \in SUBSET Nat OBVIOUS
      <3>2. \A k \in S : k + 1 \in S
        <4> HIDE DEF Good
        <4>1. \A k \in Nat : (k + 1) + 1 = k + 2 BY SMT
        <4> QED BY <2>3, <4>1
      <3> HIDE DEF S
      <3> QED BY <2>2, <3>1, <3>2, NumbersByInduction
    <2>5. Good(n)
      <3> HIDE DEF Good
      <3>1. n - 1 \in Nat /\ (n - 1) + 1 = n /\ n <= n BY <1>1, <1>4, SMT
      <3>2. n - 1 \in S BY <3>1, <2>4
      <3> QED BY <3>1, <3>2
    <2> QED BY <2>1, <2>5
  <1> QED BY <1>3, <1>4

-----------------------------------------------------------------------------
(* insert_sorted().                                                          *)

LEMMA InsertedSorted ==
    ASSUME NEW rs \in Arrays, NEW value \in HoleRange, value.first < value.end,
           \A i \in 1 .. Len(rs) : ~Touches(rs[i], value)
    PROVE  /\ InsertSorted(rs, value) \in Arrays
           /\ Len(InsertSorted(rs, value)) = Len(rs) + 1
           /\ NumbersOf(InsertSorted(rs, value)) = NumbersOf(rs) \cup Numbers(value)
PROOF
  <1>1. rs \in Seq(HoleRange) /\ Canonical(rs) /\ Len(rs) \in Nat /\ DOMAIN rs = 1 .. Len(rs)
        BY DEF Arrays
  <1>2. \A i \in 1 .. Len(rs) :
           rs[i].first \in Nat /\ rs[i].end \in Nat /\ rs[i].first < rs[i].end
    <2>1. \A i \in 1 .. Len(rs) : rs[i] \in HoleRange /\ ~Empty(rs[i]) BY <1>1 DEF Canonical
    <2> QED BY <2>1, SMT DEF HoleRange, Empty
  <1>3. value.first \in Nat /\ value.end \in Nat BY DEF HoleRange
  <1> DEFINE n == Len(rs)
             places == {i \in 1 .. n + 1 : i \in DOMAIN rs => ~(rs[i].first < value.first)}
             at == Min(places)
             before == SubSeq(rs, 1, at - 1)
             after == SubSeq(rs, at, n)
             one == <<value>>
  <1>4. at \in places /\ \A i \in places : at <= i
    <2>1. n + 1 \in places BY <1>1, SMT
    <2>2. places \in SUBSET Nat BY <1>1, SMT
    <2>3. PICK x \in places : \A y \in places : x <= y
      <3> HIDE DEF places
      <3> QED BY <2>1, <2>2, LeastNumber
    <2> HIDE DEF places
    <2> QED BY <2>3, Zenon DEF Min
  <1> HIDE DEF at
  <1>5. /\ at \in 1 .. n + 1
        /\ \A i \in 1 .. n : i < at => rs[i].first < value.first
        /\ at \in 1 .. n => ~(rs[at].first < value.first)
    <2>1. at \in 1 .. n + 1 /\ (at \in 1 .. n => ~(rs[at].first < value.first)) BY <1>1, <1>4
    <2>2. ASSUME NEW i \in 1 .. n, i < at PROVE rs[i].first < value.first
      <3>1. i \notin places /\ i \in 1 .. n + 1 BY <1>1, <1>4, <2>1, <2>2, SMT
      <3> QED BY <3>1, <1>1
    <2> QED BY <2>1, <2>2
  <1> HIDE DEF places
  <1>6. \A i \in 1 .. n : i < at => rs[i].end < value.first
    <2> TAKE i \in 1 .. n
    <2>1. i < at => rs[i].first < value.first BY <1>5
    <2>2. ~Touches(rs[i], value) OBVIOUS
    <2> QED BY <2>1, <2>2, <1>2, <1>3, SMT DEF Touches, Overlaps, AdjacentTo, Empty
  <1>7. \A i \in 1 .. n : at <= i => value.end < rs[i].first
    <2> TAKE i \in 1 .. n
    <2>1. at <= i => value.first <= rs[i].first
      <3>1. CASE i = at BY <3>1, <1>2, <1>3, <1>5, SMT
      <3>2. CASE at < i
        <4>1. at \in 1 .. n BY <3>2, <1>1, <1>5, SMT
        <4>2. rs[at].end < rs[i].first BY <4>1, <3>2, <1>1 DEF Canonical
        <4> QED BY <4>1, <4>2, <1>2, <1>3, <1>5, SMT
      <3> QED BY <3>1, <3>2, <1>1, <1>5, SMT
    <2>2. ~Touches(rs[i], value) OBVIOUS
    <2> QED BY <2>1, <2>2, <1>2, <1>3, SMT DEF Touches, Overlaps, AdjacentTo, Empty
  <1>8. /\ before \in Arrays /\ Len(before) = at - 1
        /\ \A i \in 1 .. at - 1 : before[i] = rs[i]
    <2>1. at - 1 \in 0 .. n /\ 1 \in 1 .. n + 1 /\ 1 <= (at - 1) + 1 /\ (at - 1) + 1 - 1 = at - 1
          BY <1>1, <1>5, SMT
    <2>2. /\ before \in Arrays /\ Len(before) = (at - 1) + 1 - 1
          /\ \A i \in 1 .. (at - 1) + 1 - 1 : before[i] = rs[i + 1 - 1]
          BY <2>1, Cut
    <2>3. \A i \in 1 .. at - 1 : i + 1 - 1 = i BY SMT
    <2> QED BY <2>1, <2>2, <2>3
  <1>9. /\ after \in Arrays /\ Len(after) = n + 1 - at
        /\ \A i \in 1 .. n + 1 - at : after[i] = rs[i + at - 1]
    <2>1. n \in 0 .. n /\ at \in 1 .. n + 1 /\ at <= n + 1 BY <1>1, <1>5, SMT
    <2> QED BY <2>1, Cut
  <1>10. one \in Arrays /\ Len(one) = 1 /\ one[1] = value /\ NumbersOf(one) = Numbers(value)
        BY NumbersOfOne DEF Arrays
  <1> HIDE DEF before, after, one
  <1>11. NumbersOf(rs) = NumbersOf(before) \cup NumbersOf(after) /\ rs = before \o after
    <2>1. rs = before \o after
      <3>1. before \in Seq(HoleRange) /\ after \in Seq(HoleRange) BY <1>8, <1>9 DEF Arrays
      <3>2. /\ before \o after \in Seq(HoleRange) /\ Len(before \o after) = Len(before) + Len(after)
            /\ \A i \in 1 .. Len(before) + Len(after) :
                  (before \o after)[i] = IF i <= Len(before) THEN before[i]
                                         ELSE after[i - Len(before)]
            BY <3>1, ConcatProperties
      <3>3. Len(before) + Len(after) = n BY <1>1, <1>5, <1>8, <1>9, SMT
      <3>4. ASSUME NEW i \in 1 .. n PROVE (before \o after)[i] = rs[i]
        <4>1. CASE i <= at - 1
          <5>1. i \in 1 .. at - 1 BY <4>1
          <5> QED BY <5>1, <4>1, <3>2, <3>3, <1>8
        <4>2. CASE ~(i <= at - 1)
          <5>1. i - (at - 1) \in 1 .. n + 1 - at /\ (i - (at - 1)) + at - 1 = i
                BY <4>2, <1>1, <1>5, SMT
          <5>2. after[i - (at - 1)] = rs[i] BY <5>1, <1>9
          <5> QED BY <5>2, <4>2, <3>2, <3>3, <1>8
        <4> QED BY <4>1, <4>2
      <3> QED BY <3>2, <3>3, <3>4, <1>1, SeqEqual
    <2>2. \A i \in 1 .. Len(before), j \in 1 .. Len(after) : before[i].end < after[j].first
      <3> TAKE i \in 1 .. Len(before), j \in 1 .. Len(after)
      <3>1. i \in 1 .. n /\ i < at /\ j + at - 1 \in 1 .. n /\ at <= j + at - 1
            BY <1>1, <1>5, <1>8, <1>9, SMT
      <3>2. rs[i].end < value.first /\ value.end < rs[j + at - 1].first BY <3>1, <1>6, <1>7
      <3>3. /\ i \in 1 .. at - 1 /\ before[i] = rs[i]
            /\ j \in 1 .. n + 1 - at /\ after[j] = rs[j + at - 1]
            BY <1>8, <1>9
      <3> QED BY <3>1, <3>2, <3>3, <1>2, <1>3, SMT
    <2>3. NumbersOf(before \o after) = NumbersOf(before) \cup NumbersOf(after)
          BY <2>2, <1>8, <1>9, Joined
    <2> QED BY <2>1, <2>3
  <1> DEFINE left == before \o one
  <1>12. left \in Arrays /\ Len(left) = at /\ NumbersOf(left) = NumbersOf(before) \cup Numbers(value)
         /\ \A i \in 1 .. at : left[i].end <= value.end
    <2>1. \A i \in 1 .. Len(before), j \in 1 .. Len(one) : before[i].end < one[j].first
      <3> TAKE i \in 1 .. Len(before), j \in 1 .. Len(one)
      <3>1. i \in 1 .. n /\ i < at /\ j = 1 BY <1>1, <1>5, <1>8, <1>10, SMT
      <3> QED BY <3>1, <1>6, <1>8, <1>10
    <2>2. left \in Arrays /\ Len(left) = Len(before) + Len(one)
          /\ NumbersOf(left) = NumbersOf(before) \cup NumbersOf(one)
          BY <2>1, <1>8, <1>10, Joined
    <2>3. Len(left) = at BY <2>2, <1>5, <1>8, <1>10, SMT
    <2>4. ASSUME NEW i \in 1 .. at PROVE left[i].end <= value.end
      <3>1. before \in Seq(HoleRange) /\ one \in Seq(HoleRange) BY <1>8, <1>10 DEF Arrays
      <3>2. left[i] = IF i <= at - 1 THEN before[i] ELSE one[i - (at - 1)]
        <4>1. \A k \in 1 .. Len(before) + Len(one) :
                 left[k] = IF k <= Len(before) THEN before[k] ELSE one[k - Len(before)]
              BY <3>1, ConcatProperties
        <4> QED BY <4>1, <2>2, <2>3, <1>8
      <3>3. CASE i <= at - 1
        <4>1. i \in 1 .. at - 1 /\ i \in 1 .. n /\ i < at BY <3>3, <1>1, <1>5, SMT
        <4>2. left[i] = rs[i] /\ rs[i].end < value.first BY <4>1, <3>2, <3>3, <1>6, <1>8
        <4>3. rs[i].end \in Nat BY <4>1, <1>2
        <4>4. rs[i].end <= value.end BY <4>2, <4>3, <1>3, SMT
        <4> QED BY <4>2, <4>4, Zenon
      <3>4. CASE ~(i <= at - 1)
        <4>1. i - (at - 1) = 1 BY <3>4, <1>5, SMT
        <4>2. left[i] = value BY <4>1, <3>2, <3>4, <1>10
        <4>3. value.end <= value.end BY <1>3, SMT
        <4> QED BY <4>2, <4>3, Zenon
      <3> QED BY <3>3, <3>4
    <2> QED BY <2>2, <2>3, <2>4, <1>10
  <1>13. InsertSorted(rs, value) = left \o after
        BY <1>1, Zenon DEF InsertSorted, InsertAt, at, places, before, after, left, one
  <1> HIDE DEF left, n
  <1>14. \A i \in 1 .. Len(left), j \in 1 .. Len(after) : left[i].end < after[j].first
    <2> TAKE i \in 1 .. Len(left), j \in 1 .. Len(after)
    <2>1. i \in 1 .. at /\ j \in 1 .. n + 1 - at /\ j + at - 1 \in 1 .. n /\ at <= j + at - 1
          BY <1>1, <1>5, <1>9, <1>12, SMT DEF n
    <2>2. value.end < after[j].first /\ after[j].first \in Nat /\ left[i].end <= value.end
      <3>1. after[j] = rs[j + at - 1] BY <2>1, <1>9
      <3>2. value.end < rs[j + at - 1].first /\ rs[j + at - 1].first \in Nat
            BY <2>1, <1>2, <1>7 DEF n
      <3> QED BY <3>1, <3>2, <2>1, <1>12
    <2>3. left[i].end \in Nat
      <3>1. left[i] \in HoleRange BY <1>12 DEF Arrays
      <3> QED BY <3>1 DEF HoleRange
    <2> QED BY <2>2, <2>3, <1>3, SMT
  <1>15. /\ left \o after \in Arrays /\ Len(left \o after) = Len(left) + Len(after)
         /\ NumbersOf(left \o after) = NumbersOf(left) \cup NumbersOf(after)
        BY <1>9, <1>12, <1>14, Joined
  <1>16. Len(left) + Len(after) = Len(rs) + 1 BY <1>1, <1>5, <1>9, <1>12, SMT DEF n
  <1> QED BY <1>11, <1>12, <1>13, <1>15, <1>16

-----------------------------------------------------------------------------
(* The scan of open(): what does not touch the growing hole stays.           *)

Scans == [merged : HoleRange, kept : Seq(HoleRange)]

ScanStep(scan, rs, hole) ==
    scan = [s \in SUBSET DOMAIN rs |->
              IF s = {} THEN [merged |-> hole, kept |-> <<>>]
              ELSE Absorb(scan[s \ {Max(s)}], rs[Max(s)])]

LEMMA AbsorbKeepsTypes ==
    ASSUME NEW acc \in Scans, NEW r \in HoleRange
    PROVE  /\ Absorb(acc, r) \in Scans
           /\ Absorb(acc, r) = IF Touches(r, acc.merged)
                               THEN [merged |-> Merge(acc.merged, r), kept |-> acc.kept]
                               ELSE [merged |-> acc.merged, kept |-> Append(acc.kept, r)]
PROOF
  <1>1. acc.merged \in HoleRange /\ acc.kept \in Seq(HoleRange) BY DEF Scans
  <1>2. Merge(acc.merged, r) \in HoleRange
        BY <1>1 DEF HoleRange, Merge, SequenceRange, Lesser, Greater, Empty
  <1>3. Append(acc.kept, r) \in Seq(HoleRange) BY <1>1
  <1>4. Absorb(acc, r) = IF Touches(r, acc.merged)
                         THEN [merged |-> Merge(acc.merged, r), kept |-> acc.kept]
                         ELSE [merged |-> acc.merged, kept |-> Append(acc.kept, r)]
    <2> DEFINE m == acc.merged
               s == acc.kept
               union == Merge(m, r)
               more == Append(s, r)
    <2>1. acc = [merged |-> m, kept |-> s] BY DEF Scans
    <2> HIDE DEF m, s, union, more
    <2>2. [acc EXCEPT !.merged = union] = [merged |-> union, kept |-> s] BY ONLY <2>1
    <2>3. [acc EXCEPT !.kept = more] = [merged |-> m, kept |-> more] BY ONLY <2>1
    <2> QED BY <2>2, <2>3, Zenon DEF Absorb, m, s, union, more
  <1>5. [merged |-> Merge(acc.merged, r), kept |-> acc.kept] \in Scans BY <1>1, <1>2 DEF Scans
  <1>6. [merged |-> acc.merged, kept |-> Append(acc.kept, r)] \in Scans BY <1>1, <1>3 DEF Scans
  <1> QED BY <1>4, <1>5, <1>6, Zenon

LEMMA ScanInSteps ==
    ASSUME NEW rs \in Seq(HoleRange), NEW hole \in HoleRange
    PROVE  \E scan : /\ Scan(rs, hole) = scan[1 .. Len(rs)]
                     /\ scan[1 .. 0] = [merged |-> hole, kept |-> <<>>]
                     /\ \A k \in 1 .. Len(rs) : scan[1 .. k] = Absorb(scan[1 .. k - 1], rs[k])
PROOF
  <1> DEFINE n == Len(rs)
             base == [merged |-> hole, kept |-> <<>>]
             f == [p \in Scans \X HoleRange |-> Absorb(p[1], p[2])]
             scan == CHOOSE iter : ScanStep(iter, rs, hole)
  <1>1. n \in Nat /\ DOMAIN rs = 1 .. n /\ rs \in [1 .. n -> HoleRange] OBVIOUS
  <1>2. f \in [Scans \X HoleRange -> Scans]
        /\ \A a \in Scans, r \in HoleRange : f[<<a, r>>] = Absorb(a, r)
    <2>1. \A p \in Scans \X HoleRange : Absorb(p[1], p[2]) \in Scans BY AbsorbKeepsTypes
    <2> QED BY <2>1
  <1>3. base \in Scans BY DEF Scans
  <1> HIDE DEF f, n
  <1>4. PICK h : FoldsInto(h, Scans, f, base, rs, n) BY <1>1, <1>2, <1>3, FoldExists
  <1>5. \A s \in SUBSET (1 .. n) : s # {} => Max(s) \in s /\ s \ {Max(s)} \in SUBSET (1 .. n)
        BY <1>1, GreatestNumber
  <1>6. ScanStep(h, rs, hole)
    <2>1. ASSUME NEW s \in SUBSET (1 .. n)
          PROVE  h[s] = IF s = {} THEN base ELSE Absorb(h[s \ {Max(s)}], rs[Max(s)])
      <3> HIDE DEF base
      <3>1. h \in [SUBSET (1 .. n) -> Scans]
            /\ h[s] = IF s = {} THEN base ELSE f[<<h[s \ {Max(s)}], rs[Max(s)]>>]
            BY <1>4 DEF FoldsInto
      <3>2. CASE s # {}
        <4>1. h[s \ {Max(s)}] \in Scans /\ rs[Max(s)] \in HoleRange BY <3>1, <3>2, <1>1, <1>5
        <4> QED BY <4>1, <3>1, <3>2, <1>2
      <3> QED BY <3>1, <3>2
    <2>2. h = [s \in SUBSET (1 .. n) |-> h[s]] BY <1>4 DEF FoldsInto
    <2> QED BY <2>1, <2>2, <1>1 DEF ScanStep
  <1>7. ScanStep(scan, rs, hole) BY <1>6, Zenon
  <1>8. Scan(rs, hole) = scan[1 .. n]
        BY <1>1, Zenon DEF Scan, ScanStep, FoldLeft, MapThenFoldSet
  <1> HIDE DEF scan
  <1>9. \A s \in SUBSET (1 .. n) :
           scan[s] = IF s = {} THEN base ELSE Absorb(scan[s \ {Max(s)}], rs[Max(s)])
    <2>1. scan = [s \in SUBSET (1 .. n) |->
                     IF s = {} THEN base ELSE Absorb(scan[s \ {Max(s)}], rs[Max(s)])]
          BY <1>1, <1>7, Zenon DEF ScanStep
    <2> QED BY <2>1
  <1>10. scan[1 .. 0] = base
    <2>1. 1 .. 0 = {} /\ 1 .. 0 \in SUBSET (1 .. n) BY SMT
    <2> QED BY <2>1, <1>9
  <1>11. \A k \in 1 .. n : scan[1 .. k] = Absorb(scan[1 .. k - 1], rs[k])
    <2> TAKE k \in 1 .. n
    <2>1. 1 .. k \in SUBSET (1 .. n) /\ 1 .. k # {} /\ Max(1 .. k) = k
          /\ (1 .. k) \ {k} = 1 .. k - 1
          BY <1>1, FirstIndices
    <2> QED BY <2>1, <1>9
  <1> QED BY <1>8, <1>10, <1>11 DEF n

\* What the scan has made of the first k ranges and the hole.
ScannedTo(acc, rs, k, hole) ==
    /\ acc \in Scans /\ acc.merged.first < acc.merged.end
    /\ acc.kept \in Arrays /\ Len(acc.kept) <= k
    /\ \A i \in 1 .. Len(acc.kept) :
          /\ ~Touches(acc.kept[i], acc.merged)
          /\ \A j \in 1 .. Len(rs) : j > k => acc.kept[i].end < rs[j].first
    /\ NumbersOf(acc.kept) \cup Numbers(acc.merged) =
          (UNION {Numbers(rs[i]) : i \in 1 .. k}) \cup Numbers(hole)
    /\ Len(acc.kept) = k => acc.merged = hole /\ \A i \in 1 .. k : acc.kept[i] = rs[i]

\* The union of two ranges that touch, and what touches it.
LEMMA Merged ==
    ASSUME NEW m \in HoleRange, NEW r \in HoleRange, m.first < m.end, r.first < r.end,
           Touches(r, m)
    PROVE  /\ Merge(m, r) \in HoleRange /\ Merge(m, r).first < Merge(m, r).end
           /\ Numbers(Merge(m, r)) = Numbers(m) \cup Numbers(r)
           /\ \A x \in HoleRange :
                 (x.first < x.end /\ ~Touches(x, m) /\ x.end < r.first) => ~Touches(x, Merge(m, r))
PROOF
  <1>1. m.first \in Nat /\ m.end \in Nat /\ r.first \in Nat /\ r.end \in Nat BY DEF HoleRange
  <1>2. Merge(m, r) = [first |-> Lesser(m.first, r.first), end |-> Greater(m.end, r.end)]
        BY <1>1, SMT DEF Merge, Empty, SequenceRange
  <1>3. r.first <= m.end /\ m.first <= r.end
        BY <1>1, SMT DEF Touches, Overlaps, AdjacentTo, Empty
  <1>4. /\ Merge(m, r).first = Lesser(m.first, r.first)
        /\ Merge(m, r).end = Greater(m.end, r.end) BY <1>2
  <1>5. Merge(m, r) \in HoleRange /\ Merge(m, r).first < Merge(m, r).end
    <2>1. Lesser(m.first, r.first) \in Nat /\ Greater(m.end, r.end) \in Nat
          /\ Lesser(m.first, r.first) < Greater(m.end, r.end)
          BY <1>1, SMT DEF Lesser, Greater
    <2> QED BY <2>1, <1>2, <1>4 DEF HoleRange
  <1>6. Numbers(Merge(m, r)) = Numbers(m) \cup Numbers(r)
    <2> SUFFICES ASSUME NEW n PROVE n \in Numbers(Merge(m, r)) <=> n \in Numbers(m) \/ n \in Numbers(r)
        OBVIOUS
    <2>1. /\ n \in Numbers(Merge(m, r)) <=>
                n \in Nat /\ Lesser(m.first, r.first) <= n /\ n < Greater(m.end, r.end)
          /\ n \in Numbers(m) <=> n \in Nat /\ m.first <= n /\ n < m.end
          /\ n \in Numbers(r) <=> n \in Nat /\ r.first <= n /\ n < r.end
          BY <1>4, <1>5, NumbersMember
    <2> QED BY <2>1, <1>1, <1>3, SMT DEF Lesser, Greater
  <1>7. ASSUME NEW x \in HoleRange, x.first < x.end, ~Touches(x, m), x.end < r.first
        PROVE  ~Touches(x, Merge(m, r))
    <2>1. x.first \in Nat /\ x.end \in Nat BY DEF HoleRange
    <2>2. x.end < m.first BY <2>1, <1>1, <1>3, <1>7, SMT DEF Touches, Overlaps, AdjacentTo, Empty
    <2>3. x.end < Merge(m, r).first BY <2>1, <2>2, <1>1, <1>4, <1>7, SMT DEF Lesser
    <2>4. Merge(m, r).first \in Nat /\ Merge(m, r).end \in Nat BY <1>5 DEF HoleRange
    <2> QED BY <2>1, <2>3, <2>4, <1>5, <1>7, SMT DEF Touches, Overlaps, AdjacentTo, Empty
  <1> QED BY <1>5, <1>6, <1>7

LEMMA ScansOn ==
    ASSUME NEW rs \in Arrays, NEW hole \in HoleRange, NEW k \in 1 .. Len(rs),
           NEW acc, ScannedTo(acc, rs, k - 1, hole)
    PROVE  ScannedTo(Absorb(acc, rs[k]), rs, k, hole)
PROOF
  <1>1. rs \in Seq(HoleRange) /\ Canonical(rs) /\ Len(rs) \in Nat /\ DOMAIN rs = 1 .. Len(rs)
        BY DEF Arrays
  <1> DEFINE r == rs[k]
             n == Len(rs)
             kept == acc.kept
             m == acc.merged
             after == Absorb(acc, r)
             part(p) == UNION {Numbers(rs[i]) : i \in 1 .. p}
  <1>2. r \in HoleRange /\ r.first \in Nat /\ r.end \in Nat /\ r.first < r.end
    <2>1. r \in HoleRange /\ ~Empty(r) BY <1>1 DEF Canonical
    <2> QED BY <2>1, SMT DEF HoleRange, Empty
  <1>3. /\ k \in Nat /\ k - 1 \in Nat /\ k > k - 1 /\ 1 .. k = (1 .. k - 1) \cup {k}
        /\ \A j \in 1 .. n : j > k => j > k - 1
        BY <1>1, SMT
  <1>4. part(k) = part(k - 1) \cup Numbers(r) BY <1>3
  <1>5. /\ acc \in Scans /\ m \in HoleRange /\ kept \in Seq(HoleRange) /\ m.first < m.end
        /\ kept \in Arrays /\ Len(kept) \in Nat /\ Len(kept) <= k - 1
        BY DEF ScannedTo, Scans
  <1>6. \A i \in 1 .. Len(kept) : ~Touches(kept[i], m) /\ kept[i].end < r.first
        /\ \A j \in 1 .. n : j > k => kept[i].end < rs[j].first
    <2>1. \A i \in 1 .. Len(kept) :
             ~Touches(kept[i], m) /\ \A j \in 1 .. n : j > k - 1 => kept[i].end < rs[j].first
          BY Zenon DEF ScannedTo
    <2> HIDE DEF kept, m, n, r
    <2>2. ASSUME NEW i \in 1 .. Len(kept)
          PROVE  ~Touches(kept[i], m) /\ kept[i].end < r.first
                 /\ \A j \in 1 .. n : j > k => kept[i].end < rs[j].first
      <3>1. ~Touches(kept[i], m) /\ \A j \in 1 .. n : j > k - 1 => kept[i].end < rs[j].first
            BY <2>1
      <3>2. k \in 1 .. n BY DEF n
      <3>3. kept[i].end < rs[k].first BY <3>1, <3>2, <1>3
      <3> QED BY <3>1, <3>3, <1>3 DEF r
    <2> QED BY <2>2
  <1>7. NumbersOf(kept) \cup Numbers(m) = part(k - 1) \cup Numbers(hole) BY DEF ScannedTo
  <1>8. Len(kept) = k - 1 => m = hole /\ \A i \in 1 .. k - 1 : kept[i] = rs[i] BY DEF ScannedTo
  <1>9. \A i \in 1 .. Len(kept) : kept[i] \in HoleRange /\ kept[i].first < kept[i].end
    <2>1. \A i \in 1 .. Len(kept) : kept[i] \in HoleRange BY <1>5
    <2>2. \A i \in 1 .. Len(kept) : ~Empty(kept[i]) BY <1>5 DEF Arrays, Canonical
    <2> QED BY <2>1, <2>2, SMT DEF HoleRange, Empty
  <1>10. /\ after \in Scans
         /\ after = IF Touches(r, m) THEN [merged |-> Merge(m, r), kept |-> kept]
                    ELSE [merged |-> m, kept |-> Append(kept, r)]
        BY <1>2, <1>5, AbsorbKeepsTypes
  <1> HIDE DEF after, part, kept, m, r
  <1>11. ASSUME Touches(r, m) PROVE ScannedTo(after, rs, k, hole)
    <2>1. after.merged = Merge(m, r) /\ after.kept = kept BY <1>10, <1>11
    <2>2. /\ Merge(m, r).first < Merge(m, r).end
          /\ Numbers(Merge(m, r)) = Numbers(m) \cup Numbers(r)
          /\ \A x \in HoleRange :
                (x.first < x.end /\ ~Touches(x, m) /\ x.end < r.first) => ~Touches(x, Merge(m, r))
          BY <1>2, <1>5, <1>11, Merged
    <2>3. \A i \in 1 .. Len(kept) : ~Touches(kept[i], Merge(m, r)) BY <1>6, <1>9, <2>2
    <2>4. NumbersOf(kept) \cup Numbers(Merge(m, r)) = part(k) \cup Numbers(hole)
          BY <1>4, <1>7, <2>2
    <2>5. Len(kept) <= k /\ Len(kept) # k BY <1>3, <1>5, SMT
    <2>6. after.merged.first < after.merged.end BY <2>1, <2>2
    <2>7. after.kept \in Arrays /\ Len(after.kept) <= k /\ Len(after.kept) # k BY <2>1, <2>5, <1>5
    <2>8. \A i \in 1 .. Len(after.kept) :
             /\ ~Touches(after.kept[i], after.merged)
             /\ \A j \in 1 .. Len(rs) : j > k => after.kept[i].end < rs[j].first
          BY <2>1, <2>3, <1>6
    <2>9. NumbersOf(after.kept) \cup Numbers(after.merged) = part(k) \cup Numbers(hole)
          BY <2>1, <2>4
    <2>10. after \in Scans BY <1>10
    <2>11. NumbersOf(after.kept) \cup Numbers(after.merged) =
              (UNION {Numbers(rs[i]) : i \in 1 .. k}) \cup Numbers(hole)
           BY <2>9, Zenon DEF part
    <2> QED BY <2>10, <2>6, <2>7, <2>8, <2>11 DEF ScannedTo
  <1>12. ASSUME ~Touches(r, m) PROVE ScannedTo(after, rs, k, hole)
    <2> DEFINE one == <<r>>
               longer == kept \o one
    <2>1. after.merged = m /\ after.kept = longer
      <3>1. Append(kept, r) = longer BY <1>2, <1>5
      <3> QED BY <3>1, <1>10, <1>12
    <2>2. one \in Arrays /\ Len(one) = 1 /\ one[1] = r /\ NumbersOf(one) = Numbers(r)
          BY <1>2, NumbersOfOne DEF Arrays
    <2> HIDE DEF one
    <2>3. \A i \in 1 .. Len(kept), j \in 1 .. Len(one) : kept[i].end < one[j].first
      <3>1. \A j \in 1 .. Len(one) : j = 1 BY <2>2, SMT
      <3> QED BY <3>1, <2>2, <1>6
    <2>4. /\ longer \in Arrays /\ Len(longer) = Len(kept) + 1
          /\ NumbersOf(longer) = NumbersOf(kept) \cup Numbers(r)
      <3>1. /\ longer \in Arrays /\ Len(longer) = Len(kept) + Len(one)
            /\ NumbersOf(longer) = NumbersOf(kept) \cup NumbersOf(one)
            BY <2>2, <2>3, <1>5, Joined
      <3> QED BY <3>1, <2>2
    <2>5. /\ \A i \in 1 .. Len(kept) : longer[i] = kept[i]
          /\ longer[Len(kept) + 1] = r
          /\ \A i \in 1 .. Len(longer) : i \in 1 .. Len(kept) \/ i = Len(kept) + 1
      <3>1. \A i \in 1 .. Len(kept) + 1 :
               longer[i] = IF i <= Len(kept) THEN kept[i] ELSE one[i - Len(kept)]
        <4>1. one \in Seq(HoleRange) BY <2>2 DEF Arrays
        <4>2. kept \in Seq(HoleRange) BY <1>5 DEF Arrays
        <4> HIDE DEF longer
        <4>3. \A i \in 1 .. Len(kept) + Len(one) :
                 (kept \o one)[i] = IF i <= Len(kept) THEN kept[i] ELSE one[i - Len(kept)]
              BY ONLY <4>1, <4>2, ConcatProperties
        <4>4. longer = kept \o one BY DEF longer
        <4> QED BY <4>3, <4>4, <2>2
      <3>2. \A i \in 1 .. Len(kept) : i \in 1 .. Len(kept) + 1 /\ i <= Len(kept) BY <1>5, SMT
      <3>3. /\ Len(kept) + 1 \in 1 .. Len(kept) + 1 /\ ~(Len(kept) + 1 <= Len(kept))
            /\ (Len(kept) + 1) - Len(kept) = 1 BY <1>5, SMT
      <3>4. \A i \in 1 .. Len(kept) + 1 : i \in 1 .. Len(kept) \/ i = Len(kept) + 1 BY <1>5, SMT
      <3> QED BY <3>1, <3>2, <3>3, <3>4, <2>2, <2>4
    <2> HIDE DEF longer
    <2>6. \A i \in 1 .. Len(longer) :
             ~Touches(longer[i], m) /\ \A j \in 1 .. n : j > k => longer[i].end < rs[j].first
      <3>1. \A j \in 1 .. n : j > k => r.end < rs[j].first BY <1>1, <1>3 DEF Canonical, r
      <3> QED BY <3>1, <2>5, <1>6, <1>12
    <2>7. NumbersOf(longer) \cup Numbers(m) = part(k) \cup Numbers(hole)
          BY <1>4, <1>7, <2>4
    <2>8. Len(longer) <= k BY <1>3, <1>5, <2>4, SMT
    <2>9. ASSUME Len(longer) = k PROVE m = hole /\ \A i \in 1 .. k : longer[i] = rs[i]
      <3>1. Len(kept) = k - 1 BY <2>9, <2>4, <1>3, <1>5, SMT
      <3>2. \A i \in 1 .. k : i \in 1 .. k - 1 \/ i = k BY <1>3
      <3>3. Len(kept) + 1 = k BY <3>1, <1>3, SMT
      <3> QED BY <3>1, <3>2, <3>3, <2>5, <1>8 DEF r
    <2>10. after.merged.first < after.merged.end BY <2>1, <1>5
    <2>11. after.kept \in Arrays /\ Len(after.kept) <= k BY <2>1, <2>4, <2>8
    <2>12. \A i \in 1 .. Len(after.kept) :
              /\ ~Touches(after.kept[i], after.merged)
              /\ \A j \in 1 .. Len(rs) : j > k => after.kept[i].end < rs[j].first
           BY <2>1, <2>6
    <2>13. NumbersOf(after.kept) \cup Numbers(after.merged) = part(k) \cup Numbers(hole)
           BY <2>1, <2>7
    <2>14. Len(after.kept) = k =>
              after.merged = hole /\ \A i \in 1 .. k : after.kept[i] = rs[i]
           BY <2>1, <2>9
    <2>15. after \in Scans BY <1>10
    <2>16. NumbersOf(after.kept) \cup Numbers(after.merged) =
              (UNION {Numbers(rs[i]) : i \in 1 .. k}) \cup Numbers(hole)
           BY <2>13, Zenon DEF part
    <2> QED BY <2>15, <2>10, <2>11, <2>12, <2>14, <2>16 DEF ScannedTo
  <1> QED BY <1>11, <1>12 DEF r, after

LEMMA Scanned ==
    ASSUME NEW rs \in Arrays, NEW hole \in HoleRange, hole.first < hole.end
    PROVE  ScannedTo(Scan(rs, hole), rs, Len(rs), hole)
PROOF
  <1>1. rs \in Seq(HoleRange) /\ Len(rs) \in Nat BY DEF Arrays
  <1>2. PICK scan : /\ Scan(rs, hole) = scan[1 .. Len(rs)]
                    /\ scan[1 .. 0] = [merged |-> hole, kept |-> <<>>]
                    /\ \A k \in 1 .. Len(rs) : scan[1 .. k] = Absorb(scan[1 .. k - 1], rs[k])
        BY <1>1, ScanInSteps
  <1> DEFINE n == Len(rs)
             Good(k) == ScannedTo(scan[1 .. k], rs, k, hole)
             S == {k \in Nat : k <= n => Good(k)}
  <1>3. 0 \in S
    <2> DEFINE base == [merged |-> hole, kept |-> <<>>]
    <2>1. base.merged = hole /\ base.kept = <<>> /\ base \in Scans BY DEF Scans
    <2>2. <<>> \in Arrays /\ Len(<<>>) = 0 BY DEF Arrays, Canonical
    <2>3. 1 .. 0 = {} BY SMT
    <2>4. UNION {Numbers(rs[i]) : i \in 1 .. 0} = {} BY <2>3
    <2> HIDE DEF base
    <2>7. base.kept \in Arrays /\ Len(base.kept) <= 0 /\ 1 .. Len(base.kept) = {}
          /\ NumbersOf(base.kept) = {}
          BY <2>1, <2>2, <2>3, NumbersOfEmpty
    <2>8. NumbersOf(base.kept) \cup Numbers(base.merged) =
             (UNION {Numbers(rs[i]) : i \in 1 .. 0}) \cup Numbers(hole)
      <3>1. NumbersOf(base.kept) \cup Numbers(base.merged) = {} \cup Numbers(hole) BY <2>1, <2>7
      <3> QED BY <3>1, <2>4, Zenon
    <2>9. base.merged.first < base.merged.end BY <2>1
    <2>5. ScannedTo(base, rs, 0, hole) BY <2>1, <2>3, <2>7, <2>8, <2>9 DEF ScannedTo
    <2>6. Good(0) BY <2>5, <1>2 DEF base
    <2> QED BY <2>6
  <1>4. ASSUME NEW k \in Nat, k <= n => Good(k), k + 1 <= n PROVE Good(k + 1)
    <2>1. k <= n /\ k + 1 \in 1 .. n /\ (k + 1) - 1 = k BY <1>1, <1>4, SMT
    <2>2. ScannedTo(scan[1 .. k], rs, (k + 1) - 1, hole) BY <2>1, <1>4
    <2>3. ScannedTo(Absorb(scan[1 .. k], rs[k + 1]), rs, k + 1, hole) BY <2>1, <2>2, ScansOn
    <2> QED BY <2>1, <2>3, <1>2
  <1>5. S = Nat
    <2>1. S \in SUBSET Nat OBVIOUS
    <2>2. \A k \in S : k + 1 \in S
      <3> HIDE DEF Good
      <3> QED BY <1>4
    <2> HIDE DEF S
    <2> QED BY <1>3, <2>1, <2>2, NumbersByInduction
  <1>6. Good(n)
    <2> HIDE DEF Good
    <2>1. n \in S /\ n <= n BY <1>5, <1>1
    <2> QED BY <2>1
  <1> QED BY <1>2, <1>6

-----------------------------------------------------------------------------
(* What each hole leaves behind.                                             *)

LEMMA IfAnyIsArray ==
    ASSUME NEW r \in HoleRange
    PROVE  /\ IfAny(r) \in Arrays /\ Len(IfAny(r)) <= 1 /\ Len(IfAny(r)) \in Nat
           /\ \A j \in 1 .. Len(IfAny(r)) : IfAny(r)[j] = r /\ r.first < r.end
           /\ NumbersOf(IfAny(r)) = Numbers(r)
PROOF
  <1>1. r.first \in Nat /\ r.end \in Nat BY DEF HoleRange
  <1>2. CASE r.first >= r.end
    <2>1. IfAny(r) = <<>> BY <1>2 DEF IfAny, Empty
    <2>2. Numbers(r) = {}
      <3>1. \A n : n \notin Numbers(r) BY <1>1, <1>2, NumbersMember, SMT
      <3> QED BY <3>1
    <2>3. <<>> \in Arrays /\ Len(<<>>) = 0 /\ 1 .. 0 = {} BY DEF Arrays, Canonical
    <2> QED BY <2>1, <2>2, <2>3, NumbersOfEmpty
  <1>3. CASE ~(r.first >= r.end)
    <2>1. IfAny(r) = <<r>> BY <1>3 DEF IfAny, Empty
    <2>2. r.first < r.end BY <1>1, <1>3, SMT
    <2>3. <<r>> \in Arrays /\ Len(<<r>>) = 1 /\ <<r>>[1] = r /\ NumbersOf(<<r>>) = Numbers(r)
          BY <2>2, NumbersOfOne DEF Arrays
    <2>4. \A j \in 1 .. 1 : j = 1 BY SMT
    <2> QED BY <2>1, <2>2, <2>3, <2>4
  <1> QED BY <1>2, <1>3

LEMMA SidesOfHole ==
    ASSUME NEW hole \in HoleRange, hole.first < hole.end, NEW filled \in HoleRange
    PROVE  /\ Sides(hole, filled) \in Arrays /\ Within(Sides(hole, filled), hole)
           /\ NumbersOf(Sides(hole, filled)) = Numbers(hole) \ Numbers(filled)
PROOF
  <1> DEFINE left == Subtract(hole, filled)
             a == IfAny(left.before)
             b == IfAny(left.after)
  <1>1. hole.first \in Nat /\ hole.end \in Nat /\ filled.first \in Nat /\ filled.end \in Nat
        BY DEF HoleRange
  <1>2. NoRange \in HoleRange /\ NoRange.first = 0 /\ NoRange.end = 0
        BY DEF NoRange, SequenceRange, HoleRange
  <1>3. \A x, y \in Nat :
           SequenceRange(x, y) \in HoleRange /\ SequenceRange(x, y).first = x /\ SequenceRange(x, y).end = y
        BY DEF SequenceRange, HoleRange
  <1>4. ~Overlaps(hole, filled) => left.before = hole /\ left.after = NoRange
        BY DEF Subtract
  <1>5. Overlaps(hole, filled) =>
           /\ left.before = IF filled.first > hole.first
                            THEN SequenceRange(hole.first, filled.first) ELSE NoRange
           /\ left.after = IF filled.end < hole.end
                           THEN SequenceRange(filled.end, hole.end) ELSE NoRange
        BY DEF Subtract
  <1>6. Overlaps(hole, filled) <=> filled.first < filled.end /\ hole.first < filled.end
                                   /\ filled.first < hole.end
        BY <1>1, SMT DEF Overlaps, Empty
  <1> HIDE DEF left
  <1>7. left.before \in HoleRange /\ left.after \in HoleRange
        BY <1>1, <1>2, <1>3, <1>4, <1>5
  <1>8. /\ a \in Arrays /\ NumbersOf(a) = Numbers(left.before)
        /\ \A j \in 1 .. Len(a) : a[j] = left.before /\ left.before.first < left.before.end
        /\ b \in Arrays /\ NumbersOf(b) = Numbers(left.after)
        /\ \A j \in 1 .. Len(b) : b[j] = left.after /\ left.after.first < left.after.end
        BY <1>7, IfAnyIsArray
  <1> HIDE DEF a, b
  <1>9. /\ left.before.first < left.before.end =>
              hole.first <= left.before.first /\ left.before.end <= hole.end
        /\ left.after.first < left.after.end =>
              hole.first <= left.after.first /\ left.after.end <= hole.end
        /\ (left.before.first < left.before.end /\ left.after.first < left.after.end) =>
              left.before.end < left.after.first
        /\ \A n \in Nat :
              (n \in Numbers(left.before) \/ n \in Numbers(left.after)) <=>
                 (n \in Numbers(hole) /\ n \notin Numbers(filled))
    <2>1. \A n \in Nat :
             /\ n \in Numbers(left.before) <=> left.before.first <= n /\ n < left.before.end
             /\ n \in Numbers(left.after) <=> left.after.first <= n /\ n < left.after.end
             /\ n \in Numbers(hole) <=> hole.first <= n /\ n < hole.end
             /\ n \in Numbers(filled) <=> filled.first <= n /\ n < filled.end
          BY <1>7, NumbersMember
    <2>2. CASE ~Overlaps(hole, filled)
      <3>1. left.before.first = hole.first /\ left.before.end = hole.end
            /\ left.after.first = 0 /\ left.after.end = 0 BY <2>2, <1>2, <1>4
      <3> QED BY <2>1, <2>2, <3>1, <1>1, <1>6, SMT
    <2>3. CASE Overlaps(hole, filled)
      <3>1. /\ left.before.first = IF filled.first > hole.first THEN hole.first ELSE 0
            /\ left.before.end = IF filled.first > hole.first THEN filled.first ELSE 0
            /\ left.after.first = IF filled.end < hole.end THEN filled.end ELSE 0
            /\ left.after.end = IF filled.end < hole.end THEN hole.end ELSE 0
            BY <2>3, <1>1, <1>2, <1>3, <1>5
      <3> QED BY <2>1, <2>3, <3>1, <1>1, <1>6, SMT
    <2> QED BY <2>2, <2>3
  <1>10. \A i \in 1 .. Len(a), j \in 1 .. Len(b) : a[i].end < b[j].first BY <1>8, <1>9
  <1>11. a \o b \in Arrays /\ NumbersOf(a \o b) = NumbersOf(a) \cup NumbersOf(b)
         /\ Len(a \o b) = Len(a) + Len(b)
        BY <1>8, <1>10, Joined
  <1>12. Within(a \o b, hole)
    <2>1. ASSUME NEW j \in 1 .. Len(a \o b)
          PROVE  hole.first <= (a \o b)[j].first /\ (a \o b)[j].end <= hole.end
      <3>1. /\ Len(a) \in Nat /\ Len(b) \in Nat
            /\ (a \o b)[j] = IF j <= Len(a) THEN a[j] ELSE b[j - Len(a)]
        <4>1. a \in Seq(HoleRange) /\ b \in Seq(HoleRange) BY <1>8 DEF Arrays
        <4> QED BY <4>1, <1>11, ConcatProperties
      <3>2. CASE j <= Len(a)
        <4>1. j \in 1 .. Len(a) BY <3>1, <3>2, SMT
        <4> QED BY <4>1, <3>1, <3>2, <1>8, <1>9
      <3>3. CASE ~(j <= Len(a))
        <4>1. j - Len(a) \in 1 .. Len(b) BY <3>1, <3>3, <1>11, SMT
        <4> QED BY <4>1, <3>1, <3>3, <1>8, <1>9
      <3> QED BY <3>2, <3>3
    <2> QED BY <2>1 DEF Within
  <1>13. NumbersOf(a \o b) = Numbers(hole) \ Numbers(filled)
    <2>1. \A n : n \in Numbers(left.before) \/ n \in Numbers(left.after) \/ n \in Numbers(hole)
                    => n \in Nat
          BY <1>7, NumbersMember
    <2> QED BY <2>1, <1>8, <1>9, <1>11
  <1>14. Sides(hole, filled) = a \o b BY DEF Sides, a, b, left
  <1> QED BY <1>11, <1>12, <1>13, <1>14

LEMMA KeptFromHole ==
    ASSUME NEW hole \in HoleRange, hole.first < hole.end, NEW sequence \in Nat
    PROVE  /\ KeptFrom(hole, sequence) \in Arrays /\ Within(KeptFrom(hole, sequence), hole)
           /\ Len(KeptFrom(hole, sequence)) <= 1
           /\ NumbersOf(KeptFrom(hole, sequence)) = {n \in Numbers(hole) : n >= sequence}
PROOF
  <1> DEFINE cut == [first |-> Greater(hole.first, sequence), end |-> hole.end]
  <1>1. hole.first \in Nat /\ hole.end \in Nat BY DEF HoleRange
  <1>2. [hole EXCEPT !.first = Greater(@, sequence)] = cut BY DEF HoleRange
  <1>3. CASE hole.end <= sequence
    <2>1. KeptFrom(hole, sequence) = <<>> BY <1>3 DEF KeptFrom
    <2>2. {n \in Numbers(hole) : n >= sequence} = {}
      <3>1. \A n \in Numbers(hole) : ~(n >= sequence) BY <1>1, <1>3, NumbersMember, SMT
      <3> QED BY <3>1
    <2>3. <<>> \in Arrays /\ Len(<<>>) = 0 /\ 1 .. 0 = {} BY DEF Arrays, Canonical
    <2>4. Within(<<>>, hole) BY <2>3 DEF Within
    <2> QED BY <2>1, <2>2, <2>3, <2>4, NumbersOfEmpty
  <1>4. CASE ~(hole.end <= sequence)
    <2>1. KeptFrom(hole, sequence) = <<cut>> BY <1>2, <1>4 DEF KeptFrom
    <2>2. cut \in HoleRange /\ cut.first < cut.end /\ hole.first <= cut.first /\ cut.end <= hole.end
          /\ cut.end = hole.end /\ cut.first = Greater(hole.first, sequence)
          BY <1>1, <1>4, SMT DEF Greater, HoleRange
    <2> HIDE DEF cut
    <2>3. <<cut>> \in Arrays /\ Len(<<cut>>) = 1 /\ <<cut>>[1] = cut
          /\ NumbersOf(<<cut>>) = Numbers(cut)
          BY <2>2, NumbersOfOne DEF Arrays
    <2>4. Within(<<cut>>, hole)
      <3>1. \A j \in 1 .. 1 : j = 1 BY SMT
      <3> QED BY <3>1, <2>2, <2>3 DEF Within
    <2>5. Numbers(cut) = {n \in Numbers(hole) : n >= sequence}
      <3>1. \A n : /\ n \in Numbers(cut) <=> n \in Nat /\ cut.first <= n /\ n < cut.end
                   /\ n \in Numbers(hole) <=> n \in Nat /\ hole.first <= n /\ n < hole.end
            BY <2>2, NumbersMember
      <3>2. \A n \in Nat : Greater(hole.first, sequence) <= n <=> hole.first <= n /\ n >= sequence
            BY <1>1, SMT DEF Greater
      <3> QED BY <3>1, <3>2, <2>2
    <2> QED BY <2>1, <2>3, <2>4, <2>5
  <1> QED BY <1>3, <1>4

LEMMA ClipOfHole ==
    ASSUME NEW hole \in HoleRange, hole.first < hole.end, NEW came \in HoleRange
    PROVE  /\ Clip(hole, came) \in Arrays /\ Within(Clip(hole, came), hole)
           /\ NumbersOf(Clip(hole, came)) = Numbers(hole) \cap Numbers(came)
PROOF
  <1> DEFINE part == SequenceRange(Greater(hole.first, came.first),
                                   Lesser(hole.end, came.end))
  <1>1. hole.first \in Nat /\ hole.end \in Nat /\ came.first \in Nat /\ came.end \in Nat
        BY DEF HoleRange
  <1>2. Overlaps(hole, came) <=> came.first < came.end /\ hole.first < came.end
                                    /\ came.first < hole.end
        BY <1>1, SMT DEF Overlaps, Empty
  <1>3. \A n : /\ n \in Numbers(hole) <=> n \in Nat /\ hole.first <= n /\ n < hole.end
               /\ n \in Numbers(came) <=> n \in Nat /\ came.first <= n /\ n < came.end
        BY NumbersMember
  <1>4. CASE ~Overlaps(hole, came)
    <2>1. Clip(hole, came) = <<>> BY <1>4 DEF Clip
    <2>2. Numbers(hole) \cap Numbers(came) = {}
      <3>1. \A n \in Nat : ~(hole.first <= n /\ n < hole.end /\ came.first <= n /\ n < came.end)
            BY <1>1, <1>2, <1>4, SMT
      <3> QED BY <3>1, <1>3
    <2>3. <<>> \in Arrays /\ Len(<<>>) = 0 /\ 1 .. 0 = {} BY DEF Arrays, Canonical
    <2>4. Within(<<>>, hole) BY <2>3 DEF Within
    <2> QED BY <2>1, <2>2, <2>3, <2>4, NumbersOfEmpty
  <1>5. CASE Overlaps(hole, came)
    <2>1. Clip(hole, came) = <<part>> BY <1>5 DEF Clip
    <2>2. part.first = Greater(hole.first, came.first) /\ part.end = Lesser(hole.end, came.end)
          BY DEF SequenceRange
    <2>3. /\ Greater(hole.first, came.first) \in Nat /\ Lesser(hole.end, came.end) \in Nat
          /\ Greater(hole.first, came.first) < Lesser(hole.end, came.end)
          /\ hole.first <= Greater(hole.first, came.first)
          /\ Lesser(hole.end, came.end) <= hole.end
          BY <1>1, <1>2, <1>5, SMT DEF Greater, Lesser
    <2>4. part \in HoleRange BY <2>3 DEF HoleRange, SequenceRange
    <2> HIDE DEF part
    <2>5. <<part>> \in Arrays /\ Len(<<part>>) = 1 /\ <<part>>[1] = part
          /\ NumbersOf(<<part>>) = Numbers(part)
          BY <2>2, <2>3, <2>4, NumbersOfOne DEF Arrays
    <2>6. Within(<<part>>, hole)
      <3>1. \A j \in 1 .. 1 : j = 1 BY SMT
      <3> QED BY <3>1, <2>2, <2>3, <2>5 DEF Within
    <2>7. Numbers(part) = Numbers(hole) \cap Numbers(came)
      <3>1. \A n : n \in Numbers(part) <=> n \in Nat /\ part.first <= n /\ n < part.end
            BY <2>4, NumbersMember
      <3>2. \A n \in Nat :
               Greater(hole.first, came.first) <= n /\ n < Lesser(hole.end, came.end) <=>
                  hole.first <= n /\ n < hole.end /\ came.first <= n /\ n < came.end
            BY <1>1, SMT DEF Greater, Lesser
      <3> QED BY <3>1, <3>2, <2>2, <1>3
    <2> QED BY <2>1, <2>5, <2>6, <2>7
  <1> QED BY <1>4, <1>5

-----------------------------------------------------------------------------
(* The arrays that fill(), discard_below() and intersect() build.            *)

RestOfFill(rs, came) == FlattenSeq([i \in DOMAIN rs |-> Sides(rs[i], came)])
RestFrom(rs, sequence) == FlattenSeq([i \in DOMAIN rs |-> KeptFrom(rs[i], sequence)])
PartOf(rs, came) == FlattenSeq([i \in DOMAIN rs |-> Clip(rs[i], came)])

LEMMA ArrayFacts ==
    ASSUME NEW rs \in Arrays
    PROVE  /\ rs \in Seq(HoleRange) /\ Len(rs) \in Nat /\ DOMAIN rs = 1 .. Len(rs)
           /\ \A i \in 1 .. Len(rs) : rs[i] \in HoleRange /\ rs[i].first < rs[i].end
           /\ NumbersOf(rs) = UNION {Numbers(rs[i]) : i \in 1 .. Len(rs)}
PROOF
  <1>1. rs \in Seq(HoleRange) /\ Canonical(rs) /\ Len(rs) \in Nat /\ DOMAIN rs = 1 .. Len(rs)
        BY DEF Arrays
  <1>2. \A i \in 1 .. Len(rs) : rs[i] \in HoleRange /\ rs[i].first < rs[i].end
    <2>1. \A i \in 1 .. Len(rs) : rs[i] \in HoleRange /\ ~Empty(rs[i]) BY <1>1 DEF Canonical
    <2> QED BY <2>1, SMT DEF HoleRange, Empty
  <1> QED BY <1>1, <1>2 DEF NumbersOf

LEMMA FillRest ==
    ASSUME NEW rs \in Arrays, NEW came \in HoleRange
    PROVE  /\ RestOfFill(rs, came) \in Arrays
           /\ NumbersOf(RestOfFill(rs, came)) = NumbersOf(rs) \ Numbers(came)
PROOF
  <1> DEFINE parts == [i \in 1 .. Len(rs) |-> Sides(rs[i], came)]
  <1>1. /\ DOMAIN rs = 1 .. Len(rs)
        /\ \A i \in 1 .. Len(rs) : rs[i] \in HoleRange /\ rs[i].first < rs[i].end
        /\ NumbersOf(rs) = UNION {Numbers(rs[i]) : i \in 1 .. Len(rs)}
        BY ArrayFacts
  <1>2. \A i \in 1 .. Len(rs) :
           /\ parts[i] \in Arrays /\ Within(parts[i], rs[i])
           /\ NumbersOf(parts[i]) = Numbers(rs[i]) \ Numbers(came)
        BY <1>1, SidesOfHole
  <1>3. parts \in [1 .. Len(rs) -> Arrays] BY <1>2
  <1>4. RestOfFill(rs, came) = FlattenSeq(parts) BY <1>1, Zenon DEF RestOfFill
  <1> HIDE DEF parts
  <1>5. /\ FlattenSeq(parts) \in Arrays
        /\ NumbersOf(FlattenSeq(parts)) = UNION {NumbersOf(parts[i]) : i \in 1 .. Len(rs)}
        BY <1>2, <1>3, FlattenedInOrder
  <1>6. UNION {NumbersOf(parts[i]) : i \in 1 .. Len(rs)} = NumbersOf(rs) \ Numbers(came)
        BY <1>1, <1>2
  <1> QED BY <1>4, <1>5, <1>6

LEMMA DiscardRest ==
    ASSUME NEW rs \in Arrays, NEW sequence \in Nat
    PROVE  /\ RestFrom(rs, sequence) \in Arrays /\ Len(RestFrom(rs, sequence)) <= Len(rs)
           /\ NumbersOf(RestFrom(rs, sequence)) = {n \in NumbersOf(rs) : n >= sequence}
PROOF
  <1> DEFINE parts == [i \in 1 .. Len(rs) |-> KeptFrom(rs[i], sequence)]
  <1>1. /\ DOMAIN rs = 1 .. Len(rs)
        /\ \A i \in 1 .. Len(rs) : rs[i] \in HoleRange /\ rs[i].first < rs[i].end
        /\ NumbersOf(rs) = UNION {Numbers(rs[i]) : i \in 1 .. Len(rs)}
        BY ArrayFacts
  <1>2. \A i \in 1 .. Len(rs) :
           /\ parts[i] \in Arrays /\ Within(parts[i], rs[i]) /\ Len(parts[i]) <= 1
           /\ NumbersOf(parts[i]) = {n \in Numbers(rs[i]) : n >= sequence}
        BY <1>1, KeptFromHole
  <1>3. parts \in [1 .. Len(rs) -> Arrays] BY <1>2
  <1>4. RestFrom(rs, sequence) = FlattenSeq(parts) BY <1>1, Zenon DEF RestFrom
  <1> HIDE DEF parts
  <1>5. /\ FlattenSeq(parts) \in Arrays /\ Len(FlattenSeq(parts)) <= Len(rs)
        /\ NumbersOf(FlattenSeq(parts)) = UNION {NumbersOf(parts[i]) : i \in 1 .. Len(rs)}
        BY <1>2, <1>3, FlattenedInOrder
  <1>6. UNION {NumbersOf(parts[i]) : i \in 1 .. Len(rs)} = {n \in NumbersOf(rs) : n >= sequence}
        BY <1>1, <1>2
  <1> QED BY <1>4, <1>5, <1>6

LEMMA IntersectionPart ==
    ASSUME NEW rs \in Arrays, NEW came \in HoleRange
    PROVE  NumbersOf(PartOf(rs, came)) = NumbersOf(rs) \cap Numbers(came)
PROOF
  <1> DEFINE parts == [i \in 1 .. Len(rs) |-> Clip(rs[i], came)]
  <1>1. /\ DOMAIN rs = 1 .. Len(rs)
        /\ \A i \in 1 .. Len(rs) : rs[i] \in HoleRange /\ rs[i].first < rs[i].end
        /\ NumbersOf(rs) = UNION {Numbers(rs[i]) : i \in 1 .. Len(rs)}
        BY ArrayFacts
  <1>2. \A i \in 1 .. Len(rs) :
           /\ parts[i] \in Arrays /\ Within(parts[i], rs[i])
           /\ NumbersOf(parts[i]) = Numbers(rs[i]) \cap Numbers(came)
        BY <1>1, ClipOfHole
  <1>3. parts \in [1 .. Len(rs) -> Arrays] BY <1>2
  <1>4. PartOf(rs, came) = FlattenSeq(parts) BY <1>1, Zenon DEF PartOf
  <1> HIDE DEF parts
  <1>5. NumbersOf(FlattenSeq(parts)) = UNION {NumbersOf(parts[i]) : i \in 1 .. Len(rs)}
        BY <1>2, <1>3, FlattenedInOrder
  <1>6. UNION {NumbersOf(parts[i]) : i \in 1 .. Len(rs)} = NumbersOf(rs) \cap Numbers(came)
        BY <1>1, <1>2
  <1> QED BY <1>4, <1>5, <1>6

\* What total_missing() of two arrays differs by, one being part of the other.
LEMMA TotalOfPart ==
    ASSUME NEW rs \in Arrays, NEW rest \in Arrays, NumbersOf(rest) \in SUBSET NumbersOf(rs)
    PROVE  TotalMissing(rs) - TotalMissing(rest) = Cardinality(NumbersOf(rs) \ NumbersOf(rest))
PROOF
  <1> DEFINE s == NumbersOf(rs)
             r == NumbersOf(rest)
  <1>1. /\ IsFiniteSet(s) /\ TotalMissing(rs) = Cardinality(s)
        /\ IsFiniteSet(r) /\ TotalMissing(rest) = Cardinality(r)
        BY TotalIsCardinality
  <1> HIDE DEF s, r
  <1>2. s \ r \in SUBSET s /\ s = (s \ r) \cup r /\ (s \ r) \cap r = {} BY DEF s, r
  <1>3. IsFiniteSet(s \ r) BY <1>1, <1>2, FS_Subset
  <1>4. Cardinality((s \ r) \cup r) =
           Cardinality(s \ r) + Cardinality(r) - Cardinality((s \ r) \cap r)
        BY <1>1, <1>3, FS_Union
  <1>5. Cardinality((s \ r) \cap r) = 0 BY <1>2, FS_EmptySet
  <1>6. Cardinality(s) \in Nat /\ Cardinality(r) \in Nat /\ Cardinality(s \ r) \in Nat
        BY <1>1, <1>3, FS_CardinalityType
  <1>7. Cardinality(s) = Cardinality(s \ r) + Cardinality(r)
    <2>1. Cardinality(s) = Cardinality((s \ r) \cup r) BY <1>2, Zenon
    <2> QED BY <2>1, <1>4, <1>5, <1>6, SMT
  <1>8. Cardinality(s) - Cardinality(r) = Cardinality(s \ r) BY <1>6, <1>7, SMT
  <1> QED BY <1>1, <1>8, Zenon DEF s, r

-----------------------------------------------------------------------------
(* The invariant, and what a step does to the set.                           *)

GapSetInv == ranges \in Arrays /\ Len(ranges) <= MaxOutstandingGaps

Reply == [error |-> result.error, count |-> result.count, part |-> NumbersOf(result.part)]

\* The operators of the abstract module are those of this one.
LEMMA SameCardinality == ASSUME NEW s PROVE Abstract!Cardinality(s) = Cardinality(s)
PROOF BY Zenon DEF Abstract!Cardinality, Cardinality, Abstract!IsFiniteSet, IsFiniteSet

LEMMA SameOperators ==
    /\ \A s, r : /\ Abstract!Opened(s, r) = s \cup Numbers(r)
                 /\ Abstract!Filled(s, r) = s \ Numbers(r)
                 /\ s \cap Abstract!Numbers(r) = s \cap Numbers(r)
    /\ \A s, n : /\ Abstract!From(s, n) = {m \in s : m >= n}
                 /\ Abstract!Below(s, n) = {m \in s : m < n}
    /\ \A s : Abstract!Describable(s) <=> Holes(s) <= MaxOutstandingGaps
    /\ \A s : Abstract!Counted(s) = [error |-> "ok", count |-> Cardinality(s), part |-> {}]
    /\ Abstract!Ok = [error |-> "ok", count |-> 0, part |-> {}]
    /\ Abstract!Refusal = [error |-> "capacity_exceeded", count |-> 0, part |-> {}]
    /\ \A op, r : Abstract!Called(op, r) = Called(op, r)
    /\ \A a, b : Abstract!SequenceRange(a, b) = SequenceRange(a, b)
    /\ Abstract!NoRange = NoRange /\ Abstract!Ranges = Inputs
PROOF
  <1>1. \A r : Abstract!Numbers(r) = Numbers(r) BY DEF Abstract!Numbers, Numbers
  <1>2. \A s : Abstract!Holes(s) = Holes(s) BY SameCardinality DEF Abstract!Holes, Holes
  <1>3. \A s, r : /\ Abstract!Opened(s, r) = s \cup Numbers(r)
                  /\ Abstract!Filled(s, r) = s \ Numbers(r)
                  /\ s \cap Abstract!Numbers(r) = s \cap Numbers(r)
        BY <1>1 DEF Abstract!Opened, Abstract!Filled
  <1>4. \A s, n : /\ Abstract!From(s, n) = {m \in s : m >= n}
                  /\ Abstract!Below(s, n) = {m \in s : m < n}
        BY DEF Abstract!From, Abstract!Below
  <1>5. \A s : Abstract!Describable(s) <=> Holes(s) <= MaxOutstandingGaps
        BY <1>2 DEF Abstract!Describable
  <1>6. Abstract!Ok = [error |-> "ok", count |-> 0, part |-> {}] BY DEF Abstract!Ok
  <1>7. \A s : Abstract!Counted(s) = [error |-> "ok", count |-> Cardinality(s), part |-> {}]
        BY SameCardinality DEF Abstract!Counted, Abstract!Ok
  <1>8. Abstract!Refusal = [error |-> "capacity_exceeded", count |-> 0, part |-> {}]
        BY DEF Abstract!Refusal, Abstract!Ok
  <1>9. \A op, r : Abstract!Called(op, r) = Called(op, r) BY DEF Abstract!Called, Called
  <1>10. \A a, b : Abstract!SequenceRange(a, b) = SequenceRange(a, b)
         BY DEF Abstract!SequenceRange, SequenceRange
  <1>11. Abstract!NoRange = NoRange BY <1>10 DEF Abstract!NoRange, NoRange
  <1>12. Abstract!Ranges = Inputs BY DEF Abstract!Ranges, Inputs
  <1> QED BY <1>3, <1>4, <1>5, <1>6, <1>7, <1>8, <1>9, <1>10, <1>11, <1>12

LEMMA Described ==
    ASSUME NEW rs \in Arrays
    PROVE  Abstract!Describable(NumbersOf(rs)) <=> Len(rs) <= MaxOutstandingGaps
PROOF
  BY HolesAreRanges, SameOperators

LEMMA InputsAreRanges == Inputs \in SUBSET HoleRange
PROOF
  BY GapSetAssumption, SMT DEF Inputs, HoleRange

\* What a result stands for.
LEMMA Replies ==
    /\ result' = Ok => Reply' = Abstract!Ok
    /\ result' = Refusal => Reply' = Abstract!Refusal
    /\ \A n : result' = Counted(n) => Reply' = [error |-> "ok", count |-> n, part |-> {}]
    /\ \A p : result' = [Ok EXCEPT !.part = p] =>
                Reply' = [error |-> "ok", count |-> 0, part |-> NumbersOf(p)]
PROOF
  <1>1. \A e, c, p : result' = [error |-> e, count |-> c, part |-> p] =>
           Reply' = [error |-> e, count |-> c, part |-> NumbersOf(p)]
        BY DEF Reply
  <1>2. Ok = [error |-> "ok", count |-> 0, part |-> <<>>] BY DEF Ok
  <1>3. Refusal = [error |-> "capacity_exceeded", count |-> 0, part |-> <<>>]
        BY DEF Ok, Refusal
  <1>4. \A n : Counted(n) = [error |-> "ok", count |-> n, part |-> <<>>] BY DEF Ok, Counted
  <1>5. \A p : [Ok EXCEPT !.part = p] = [error |-> "ok", count |-> 0, part |-> p] BY DEF Ok
  <1> QED BY <1>1, <1>2, <1>3, <1>4, <1>5, NumbersOfEmpty, SameOperators

LEMMA OpenImplements ==
    ASSUME GapSetInv, NEW hole \in Inputs, Open(hole)
    PROVE  GapSetInv' /\ Abstract!Open(hole)
PROOF
  <1> DEFINE scan == Scan(ranges, hole)
             missing == NumbersOf(ranges)
  <1>1. ranges \in Arrays /\ Len(ranges) <= MaxOutstandingGaps /\ hole \in HoleRange
        BY InputsAreRanges DEF GapSetInv
  <1>2. Len(ranges) \in Nat /\ MaxOutstandingGaps \in Nat
        BY <1>1, ArrayFacts, HoleSetAssumption
  <1>3. hole.first \in Nat /\ hole.end \in Nat BY <1>1 DEF HoleRange
  <1>4. call' = Abstract!Called("open", hole) BY SameOperators DEF Open
  <1>5. Abstract!Opened(missing, hole) = missing \cup Numbers(hole) BY SameOperators
  <1>6. CASE Empty(hole)
    <2>1. ranges' = ranges /\ result' = Ok BY <1>6, Zenon DEF Open
    <2>2. Numbers(hole) = {}
      <3>1. \A n : n \notin Numbers(hole) BY <1>1, <1>3, <1>6, NumbersMember, SMT DEF Empty
      <3> QED BY <3>1
    <2>3. Abstract!Describable(missing) BY <1>1, Described
    <2>4. missing \cup Numbers(hole) = missing BY <2>2
    <2>5. NumbersOf(ranges') = missing /\ Reply' = Abstract!Ok BY <2>1, Replies
    <2>6. Abstract!Open(hole)
          BY <1>4, <1>5, <2>3, <2>4, <2>5, Zenon DEF Abstract!Open, Reply
    <2> QED BY <1>1, <2>1, <2>6 DEF GapSetInv
  <1>7. CASE ~Empty(hole)
    <2>1. ScannedTo(scan, ranges, Len(ranges), hole)
      <3>1. hole.first < hole.end BY <1>3, <1>7, SMT DEF Empty
      <3> QED BY <3>1, <1>1, Scanned
    <2> HIDE DEF scan
    <2>2. /\ scan.merged \in HoleRange /\ scan.merged.first < scan.merged.end
          /\ scan.kept \in Arrays /\ Len(scan.kept) <= Len(ranges) /\ Len(scan.kept) \in Nat
          /\ \A i \in 1 .. Len(scan.kept) : ~Touches(scan.kept[i], scan.merged)
          /\ Len(scan.kept) = Len(ranges) =>
                scan.merged = hole /\ \A i \in 1 .. Len(ranges) : scan.kept[i] = ranges[i]
      <3>1. scan \in Scans /\ scan.kept \in Arrays BY <2>1 DEF ScannedTo
      <3>2. Len(scan.kept) \in Nat BY <3>1, ArrayFacts
      <3> QED BY <2>1, <3>1, <3>2 DEF ScannedTo, Scans
    <2>3. NumbersOf(scan.kept) \cup Numbers(scan.merged) = missing \cup Numbers(hole)
      <3>1. missing = UNION {Numbers(ranges[i]) : i \in 1 .. Len(ranges)} BY <1>1, ArrayFacts
      <3> QED BY <3>1, <2>1, Zenon DEF ScannedTo
    <2>4. /\ InsertSorted(scan.kept, scan.merged) \in Arrays
          /\ Len(InsertSorted(scan.kept, scan.merged)) = Len(scan.kept) + 1
          /\ NumbersOf(InsertSorted(scan.kept, scan.merged)) = missing \cup Numbers(hole)
          BY <2>2, <2>3, InsertedSorted
    <2>5. Abstract!Describable(missing \cup Numbers(hole)) <=>
             Len(scan.kept) + 1 <= MaxOutstandingGaps
          BY <2>4, Described
    <2>6. CASE Len(scan.kept) >= MaxOutstandingGaps
      <3>1. result' = Refusal /\ ranges' = scan.kept
            BY <1>7, <2>6, Zenon DEF Open, scan
      <3>2. Len(scan.kept) = Len(ranges) BY <2>2, <2>6, <1>1, <1>2, SMT
      <3>3. scan.kept = ranges
        <4>1. scan.kept \in Seq(HoleRange) /\ ranges \in Seq(HoleRange)
              BY <2>2, <1>1 DEF Arrays
        <4> QED BY <4>1, <3>2, <2>2, SeqEqual
      <3>4. ~Abstract!Describable(missing \cup Numbers(hole))
            BY <2>2, <2>5, <2>6, <1>2, SMT
      <3>5. NumbersOf(ranges') = missing /\ Reply' = Abstract!Refusal
            BY <3>1, <3>3, Replies
      <3>6. Abstract!Open(hole)
            BY <1>4, <1>5, <3>4, <3>5, Zenon DEF Abstract!Open, Reply
      <3> QED BY <1>1, <3>1, <3>3, <3>6 DEF GapSetInv
    <2>7. CASE ~(Len(scan.kept) >= MaxOutstandingGaps)
      <3>1. result' = Ok /\ ranges' = InsertSorted(scan.kept, scan.merged)
            BY <1>7, <2>7, Zenon DEF Open, scan
      <3>2. Len(scan.kept) + 1 <= MaxOutstandingGaps BY <2>2, <2>7, <1>2, SMT
      <3>3. NumbersOf(ranges') = missing \cup Numbers(hole) /\ Reply' = Abstract!Ok
            BY <3>1, <2>4, Replies
      <3>4. Abstract!Open(hole)
            BY <1>4, <1>5, <2>5, <3>2, <3>3, Zenon DEF Abstract!Open, Reply
      <3> QED BY <2>4, <3>1, <3>2, <3>4 DEF GapSetInv
    <2> QED BY <2>6, <2>7
  <1> QED BY <1>6, <1>7

LEMMA FillImplements ==
    ASSUME GapSetInv, NEW came \in Inputs, Fill(came)
    PROVE  GapSetInv' /\ Abstract!Fill(came)
PROOF
  <1> DEFINE rest == RestOfFill(ranges, came)
             missing == NumbersOf(ranges)
  <1>1. ranges \in Arrays /\ Len(ranges) <= MaxOutstandingGaps /\ came \in HoleRange
        BY InputsAreRanges DEF GapSetInv
  <1>2. Len(ranges) \in Nat /\ MaxOutstandingGaps \in Nat
        BY <1>1, ArrayFacts, HoleSetAssumption
  <1>3. came.first \in Nat /\ came.end \in Nat BY <1>1 DEF HoleRange
  <1>4. call' = Abstract!Called("fill", came) BY SameOperators DEF Fill
  <1>5. /\ Abstract!Filled(missing, came) = missing \ Numbers(came)
        /\ Abstract!Counted(missing \cap Abstract!Numbers(came)) =
              [error |-> "ok", count |-> Cardinality(missing \cap Numbers(came)), part |-> {}]
        BY SameOperators
  <1>6. /\ rest \in Arrays /\ NumbersOf(rest) = missing \ Numbers(came)
        /\ Len(rest) \in Nat
        BY <1>1, FillRest, ArrayFacts
  <1>7. Abstract!Describable(missing \ Numbers(came)) <=> Len(rest) <= MaxOutstandingGaps
        BY <1>6, Described
  <1>8. CASE Empty(came) \/ ranges = <<>>
    <2>1. ranges' = ranges /\ result' = Counted(0) BY <1>8, Zenon DEF Fill
    <2>2. missing \cap Numbers(came) = {}
      <3>1. CASE Empty(came)
        <4>1. \A n : n \notin Numbers(came) BY <1>1, <1>3, <3>1, NumbersMember, SMT DEF Empty
        <4> QED BY <4>1
      <3>2. CASE ranges = <<>> BY <3>2, NumbersOfEmpty
      <3> QED BY <1>8, <3>1, <3>2
    <2>3. missing \ Numbers(came) = missing BY <2>2
    <2>4. Abstract!Describable(missing \ Numbers(came)) BY <1>1, <2>3, Described
    <2>5. NumbersOf(ranges') = missing \ Numbers(came) BY <2>1, <2>3
    <2>6. Reply' = Abstract!Counted(missing \cap Abstract!Numbers(came))
      <3>1. Cardinality(missing \cap Numbers(came)) = 0 BY <2>2, FS_EmptySet
      <3> QED BY <3>1, <1>5, <2>1, Replies
    <2>7. Abstract!Fill(came)
          BY <1>4, <1>5, <2>4, <2>5, <2>6, Zenon DEF Abstract!Fill, Reply
    <2> QED BY <1>1, <2>1, <2>7 DEF GapSetInv
  <1>9. CASE ~(Empty(came) \/ ranges = <<>>)
    <2>1. CASE Len(rest) > MaxOutstandingGaps
      <3>1. ranges' = ranges /\ result' = Refusal
            BY <1>9, <2>1, Zenon DEF Fill, RestOfFill
      <3>2. ~Abstract!Describable(missing \ Numbers(came)) BY <1>2, <1>6, <1>7, <2>1, SMT
      <3>3. NumbersOf(ranges') = missing /\ Reply' = Abstract!Refusal BY <3>1, Replies
      <3>4. Abstract!Fill(came)
            BY <1>4, <1>5, <3>2, <3>3, Zenon DEF Abstract!Fill, Reply
      <3> QED BY <1>1, <3>1, <3>4 DEF GapSetInv
    <2>2. CASE ~(Len(rest) > MaxOutstandingGaps)
      <3>1. ranges' = rest /\ result' = Counted(TotalMissing(ranges) - TotalMissing(rest))
            BY <1>9, <2>2, Zenon DEF Fill, RestOfFill
      <3>2. Len(rest) <= MaxOutstandingGaps BY <1>2, <1>6, <2>2, SMT
      <3>3. TotalMissing(ranges) - TotalMissing(rest) = Cardinality(missing \cap Numbers(came))
        <4>1. missing \ (missing \ Numbers(came)) = missing \cap Numbers(came) OBVIOUS
        <4>2. TotalMissing(ranges) - TotalMissing(rest) = Cardinality(missing \ NumbersOf(rest))
          <5>1. NumbersOf(rest) \in SUBSET missing BY <1>6
          <5> QED BY <5>1, <1>1, <1>6, TotalOfPart
        <4> QED BY <4>1, <4>2, <1>6
      <3>4. NumbersOf(ranges') = missing \ Numbers(came) BY <3>1, <1>6
      <3>5. Reply' = Abstract!Counted(missing \cap Abstract!Numbers(came))
            BY <3>1, <3>3, <1>5, Replies
      <3>6. Abstract!Fill(came)
            BY <1>4, <1>5, <1>7, <3>2, <3>4, <3>5, Zenon DEF Abstract!Fill, Reply
      <3> QED BY <1>6, <3>1, <3>2, <3>6 DEF GapSetInv
    <2> QED BY <2>1, <2>2
  <1> QED BY <1>8, <1>9

LEMMA DiscardBelowImplements ==
    ASSUME GapSetInv, NEW sequence \in 0 .. LastHole, DiscardBelow(sequence)
    PROVE  GapSetInv' /\ Abstract!DiscardBelow(sequence)
PROOF
  <1> DEFINE rest == RestFrom(ranges, sequence)
             missing == NumbersOf(ranges)
             below == {n \in missing : n < sequence}
  <1>1. ranges \in Arrays /\ Len(ranges) <= MaxOutstandingGaps BY DEF GapSetInv
  <1>2. sequence \in Nat BY GapSetAssumption, SMT
  <1>3. Len(ranges) \in Nat /\ MaxOutstandingGaps \in Nat
        BY <1>1, ArrayFacts, HoleSetAssumption
  <1>4. /\ rest \in Arrays /\ Len(rest) <= Len(ranges) /\ Len(rest) \in Nat
        /\ NumbersOf(rest) = {n \in missing : n >= sequence}
        BY <1>1, <1>2, DiscardRest, ArrayFacts
  <1>5. /\ ranges' = rest /\ result' = Counted(TotalMissing(ranges) - TotalMissing(rest))
        /\ call' = Called("discard_below", SequenceRange(0, sequence))
        BY Zenon DEF DiscardBelow, RestFrom
  <1>6. TotalMissing(ranges) - TotalMissing(rest) = Cardinality(below)
    <2>1. \A n \in missing : n \in Nat BY <1>1, NumbersOfMember DEF Arrays
    <2>2. missing \ NumbersOf(rest) = below
      <3>1. \A n \in missing : ~(n >= sequence) <=> n < sequence BY <2>1, <1>2, SMT
      <3> QED BY <3>1, <1>4
    <2>3. NumbersOf(rest) \in SUBSET missing BY <1>4
    <2> QED BY <2>2, <2>3, <1>1, <1>4, TotalOfPart
  <1>7. NumbersOf(ranges') = Abstract!From(missing, sequence) BY <1>4, <1>5, SameOperators
  <1>8. Reply' = Abstract!Counted(Abstract!Below(missing, sequence))
        BY <1>5, <1>6, Replies, SameOperators
  <1>9. call' = Abstract!Called("discard_below", Abstract!SequenceRange(0, sequence))
        BY <1>5, SameOperators
  <1>10. Abstract!DiscardBelow(sequence)
        BY <1>7, <1>8, <1>9, Zenon DEF Abstract!DiscardBelow, Reply
  <1>11. Len(rest) <= MaxOutstandingGaps BY <1>1, <1>3, <1>4, SMT
  <1> QED BY <1>4, <1>5, <1>10, <1>11 DEF GapSetInv

LEMMA IntersectImplements ==
    ASSUME GapSetInv, NEW came \in Inputs, Intersect(came)
    PROVE  GapSetInv' /\ Abstract!Intersect(came)
PROOF
  <1>1. ranges \in Arrays /\ came \in HoleRange BY InputsAreRanges DEF GapSetInv
  <1>2. /\ ranges' = ranges /\ call' = Called("intersect", came)
        /\ result' = [Ok EXCEPT !.part = PartOf(ranges, came)]
        BY Zenon DEF Intersect, PartOf
  <1>3. Reply' = [error |-> "ok", count |-> 0,
                  part |-> NumbersOf(ranges) \cap Abstract!Numbers(came)]
        BY <1>1, <1>2, Replies, IntersectionPart, SameOperators
  <1>4. Reply' = [Abstract!Ok EXCEPT !.part = NumbersOf(ranges) \cap Abstract!Numbers(came)]
    <2>1. \A p : [[error |-> "ok", count |-> 0, part |-> {}] EXCEPT !.part = p] =
                    [error |-> "ok", count |-> 0, part |-> p]
          OBVIOUS
    <2> QED BY <2>1, <1>3, Zenon DEF Abstract!Ok
  <1>5. call' = Abstract!Called("intersect", came) BY <1>2, SameOperators
  <1>6. NumbersOf(ranges') = NumbersOf(ranges) BY <1>2
  <1>7. Abstract!Intersect(came)
        BY <1>4, <1>5, <1>6, Zenon DEF Abstract!Intersect, Reply
  <1> QED BY <1>2, <1>7 DEF GapSetInv

LEMMA ClearImplements ==
    ASSUME GapSetInv, Clear
    PROVE  GapSetInv' /\ Abstract!Clear
PROOF
  <1>1. ranges' = <<>> /\ call' = Called("clear", NoRange) /\ result' = Ok BY DEF Clear
  <1>2. NumbersOf(ranges') = {} /\ Reply' = Abstract!Ok BY <1>1, Replies, NumbersOfEmpty
  <1>3. call' = Abstract!Called("clear", Abstract!NoRange) BY <1>1, SameOperators
  <1>4. Abstract!Clear BY <1>2, <1>3, Zenon DEF Abstract!Clear, Reply
  <1>5. <<>> \in Arrays /\ Len(<<>>) = 0 /\ MaxOutstandingGaps \in Nat
        BY HoleSetAssumption DEF Arrays, Canonical
  <1>6. 0 <= MaxOutstandingGaps BY <1>5, SMT
  <1> QED BY <1>1, <1>4, <1>5, <1>6 DEF GapSetInv

LEMMA GapSetStarts == GapSetInit => GapSetInv /\ Abstract!MissingInit
PROOF
  <1> SUFFICES ASSUME GapSetInit PROVE GapSetInv /\ Abstract!MissingInit OBVIOUS
  <1>1. ranges = <<>> /\ call = Called("none", NoRange) /\ result = Ok BY DEF GapSetInit
  <1>2. <<>> \in Arrays /\ Len(<<>>) = 0 /\ MaxOutstandingGaps \in Nat
        BY HoleSetAssumption DEF Arrays, Canonical
  <1>3. 0 <= MaxOutstandingGaps BY <1>2, SMT
  <1>4. NumbersOf(ranges) = {} BY <1>1, NumbersOfEmpty
  <1>5. Reply = Abstract!Ok
    <2>1. result = [error |-> "ok", count |-> 0, part |-> <<>>] BY <1>1 DEF Ok
    <2> QED BY <2>1, NumbersOfEmpty, SameOperators DEF Reply
  <1>6. call = Abstract!Called("none", Abstract!NoRange) BY <1>1, SameOperators
  <1>7. Abstract!MissingInit BY <1>4, <1>5, <1>6, Zenon DEF Abstract!MissingInit, Reply
  <1> QED BY <1>1, <1>2, <1>3, <1>7 DEF GapSetInv

LEMMA GapSetSteps ==
    ASSUME GapSetInv, [GapSetNext]_gapSetVars
    PROVE  GapSetInv' /\ [Abstract!MissingNext]_(Abstract!missingVars)
PROOF
  <1>1. CASE UNCHANGED gapSetVars
    <2>1. ranges' = ranges /\ call' = call /\ result' = result BY <1>1 DEF gapSetVars
    <2>2. NumbersOf(ranges') = NumbersOf(ranges) /\ Reply' = Reply BY <2>1 DEF Reply
    <2>3. UNCHANGED Abstract!missingVars BY <2>1, <2>2 DEF Abstract!missingVars, Reply
    <2> QED BY <2>1, <2>3 DEF GapSetInv
  <1>2. ASSUME NEW r \in Inputs, Open(r) PROVE GapSetInv' /\ Abstract!MissingNext
        BY <1>2, OpenImplements, SameOperators DEF Abstract!MissingNext
  <1>3. ASSUME NEW r \in Inputs, Fill(r) PROVE GapSetInv' /\ Abstract!MissingNext
        BY <1>3, FillImplements, SameOperators DEF Abstract!MissingNext
  <1>4. ASSUME NEW r \in Inputs, Intersect(r) PROVE GapSetInv' /\ Abstract!MissingNext
        BY <1>4, IntersectImplements, SameOperators DEF Abstract!MissingNext
  <1>5. ASSUME NEW s \in 0 .. LastHole, DiscardBelow(s) PROVE GapSetInv' /\ Abstract!MissingNext
        BY <1>5, DiscardBelowImplements DEF Abstract!MissingNext
  <1>6. ASSUME Clear PROVE GapSetInv' /\ Abstract!MissingNext
        BY <1>6, ClearImplements DEF Abstract!MissingNext
  <1> QED BY <1>1, <1>2, <1>3, <1>4, <1>5, <1>6 DEF GapSetNext

\* Whatever is opened, filled, discarded and intersected in whatever order, the
\* array of gap_set is the set of missing numbers: same set, same answers, and a
\* refusal exactly when the answer would need more holes than there is room for.
THEOREM GapSetImplementsMissingSet == GapSetSpec => ImplementsMissingSet
PROOF
  <1>1. GapSetInit => GapSetInv /\ Abstract!MissingInit BY GapSetStarts
  <1>2. GapSetInv /\ [GapSetNext]_gapSetVars
           => GapSetInv' /\ [Abstract!MissingNext]_(Abstract!missingVars)
        BY GapSetSteps
  <1> QED BY <1>1, <1>2, PTL DEF GapSetSpec, ImplementsMissingSet, Abstract!MissingSpec

\* And the array stays what the code asserts of it: sorted, no range empty, no
\* two of them overlapping or touching, within its capacity.
THEOREM GapSetStaysCanonical == GapSetSpec => []StaysCanonical
PROOF
  <1>1. GapSetInit => GapSetInv BY GapSetStarts
  <1>2. GapSetInv /\ [GapSetNext]_gapSetVars => GapSetInv' BY GapSetSteps
  <1>3. GapSetInv => StaysCanonical BY DEF GapSetInv, Arrays, StaysCanonical
  <1> QED BY <1>1, <1>2, <1>3, PTL DEF GapSetSpec

(***************************************************************************)
(* GapTracker: the account of what is missing is exact and its audit adds  *)
(* up.                                                                     *)
(***************************************************************************)
-----------------------------------------------------------------------------
(* Cardinalities of the sets the account is made of.                         *)

\* The size of a range is the size of the set it stands for.
LEMMA CountIsCardinality ==
    ASSUME NEW f \in Nat, NEW e \in Nat
    PROVE  /\ IsFiniteSet(Numbers(SequenceRange(f, e)))
           /\ Cardinality(Numbers(SequenceRange(f, e))) = Count(SequenceRange(f, e))
           /\ Count(SequenceRange(f, e)) \in Nat
PROOF
  <1>1. f \in Int /\ e - 1 \in Int OBVIOUS
  <1>2. /\ IsFiniteSet(f .. e - 1)
        /\ Cardinality(f .. e - 1) = IF f > e - 1 THEN 0 ELSE (e - 1) - f + 1
    BY <1>1, FS_Interval
  <1> QED BY <1>2 DEF Numbers, SequenceRange, Count, Empty

\* Finite sets with nothing in common add up.
LEMMA DisjointAddUp ==
    ASSUME NEW A, NEW B, IsFiniteSet(A), IsFiniteSet(B), A \cap B = {}
    PROVE  Cardinality(A \cup B) = Cardinality(A) + Cardinality(B)
PROOF
  <1>1. Cardinality(A) \in Nat /\ Cardinality(B) \in Nat BY FS_CardinalityType
  <1>2. Cardinality(A \cup B) =
            Cardinality(A) + Cardinality(B) - Cardinality(A \cap B)
    BY FS_Union
  <1>3. Cardinality(A \cap B) = 0 BY FS_EmptySet
  <1> QED BY <1>1, <1>2, <1>3

\* A part of a finite set and the rest of it add up.
LEMMA PartsAddUp ==
    ASSUME NEW S, NEW T, IsFiniteSet(S)
    PROVE  /\ Cardinality(S \ T) \in Nat /\ Cardinality(S \cap T) \in Nat
           /\ Cardinality(S) = Cardinality(S \ T) + Cardinality(S \cap T)
PROOF
  <1>1. S \ T \in SUBSET S /\ S \cap T \in SUBSET S OBVIOUS
  <1>2. IsFiniteSet(S \ T) /\ IsFiniteSet(S \cap T) BY <1>1, FS_Subset
  <1>3. Cardinality(S \ T) \in Nat /\ Cardinality(S \cap T) \in Nat
    BY <1>2, FS_CardinalityType
  <1>4. (S \ T) \cap (S \cap T) = {} OBVIOUS
  <1>5. Cardinality((S \ T) \cup (S \cap T)) =
            Cardinality(S \ T) + Cardinality(S \cap T)
    BY <1>2, <1>4, DisjointAddUp
  <1>6. (S \ T) \cup (S \cap T) = S OBVIOUS
  <1> QED BY <1>3, <1>5, <1>6

-----------------------------------------------------------------------------
(* The inductive invariant.                                                  *)

\* The account starts at or below the expectation, nothing has arrived beyond
\* it, and before the first packet there is no account.
AccountInv ==
    /\ baseline <= tracker.expected
    /\ \A n \in arrived : n < tracker.expected
    /\ ~tracker.started => tracker.expected = 0 /\ baseline = 0 /\ arrived = {}

TrackerInv == TypeOK /\ MissingIsExact /\ AccountInv /\ AuditBalances

\* What is missing is finite.
LEMMA MissingIsFinite ==
    ASSUME TypeOK, MissingIsExact
    PROVE  /\ IsFiniteSet(tracker.missing)
           /\ Cardinality(tracker.missing) \in Nat
PROOF
  <1>1. baseline \in Int /\ tracker.expected - 1 \in Int BY DEF TypeOK
  <1>2. IsFiniteSet(baseline .. tracker.expected - 1) BY <1>1, FS_Interval
  <1>3. tracker.missing \in SUBSET (baseline .. tracker.expected - 1)
    BY DEF MissingIsExact
  <1>4. IsFiniteSet(tracker.missing) BY <1>2, <1>3, FS_Subset
  <1> QED BY <1>4, FS_CardinalityType

LEMMA InitTracker == Init => TrackerInv
PROOF
  <1> SUFFICES ASSUME Init PROVE TrackerInv OBVIOUS
  <1>1. TypeOK BY DEF Init, TypeOK, Fresh
  <1>2. MissingIsExact BY DEF Init, MissingIsExact, Fresh
  <1>3. AccountInv BY DEF Init, AccountInv, Fresh
  <1>4. AuditBalances BY FS_EmptySet DEF Init, AuditBalances, Fresh
  <1> QED BY <1>1, <1>2, <1>3, <1>4 DEF TrackerInv

-----------------------------------------------------------------------------
(* observe                                                                   *)

\* A packet that starts an account: the first one, or one of a new session.
LEMMA EstablishKeeps ==
    ASSUME TrackerInv, NEW session \in Session, NEW p \in Packets,
           Packet(session, p), ~tracker.started \/ session # tracker.session
    PROVE  TrackerInv'
PROOF
  <1>1. p.first \in Nat /\ p.end \in Nat /\ p.first <= p.end
    BY TrackerAssumption DEF Packets
  <1>2. /\ Cardinality(tracker.missing) \in Nat
        /\ ~tracker.started => tracker.missing = {}
    BY MissingIsFinite DEF TrackerInv, MissingIsExact, AccountInv
  <1> DEFINE given == IF tracker.started THEN Cardinality(tracker.missing) ELSE 0
  <1>3. /\ tracker' = Established(session, p.end)
        /\ baseline' = p.first /\ arrived' = Numbers(p) /\ fed' = fed + 1
        /\ tally' = [missed |-> tally.missed + 0, recovered |-> tally.recovered + 0,
                     abandoned |-> tally.abandoned + given]
    BY DEF Packet, Observe, Observation, Tallied, Count, Empty, NoRange, SequenceRange
  <1>4. given \in Nat /\ given = Cardinality(tracker.missing)
    BY <1>2, FS_EmptySet
  <1> HIDE DEF given
  <1>5. /\ tracker'.missing = {} /\ tracker'.expected = p.end
        /\ tracker'.started /\ session \in Nat
    BY <1>3, TrackerAssumption DEF Established
  <1>6. TypeOK'
    <2>1. tracker' \in [missing : SUBSET Nat, expected : Nat, session : Nat,
                        started : BOOLEAN]
      BY <1>1, <1>3, <1>5 DEF Established
    <2>2. tally' \in [missed : Nat, recovered : Nat, abandoned : Nat]
      BY <1>3, <1>4 DEF TrackerInv, TypeOK
    <2>3. baseline' \in Nat /\ arrived' \in SUBSET Nat /\ fed' \in Nat
      BY <1>1, <1>3 DEF TrackerInv, TypeOK, Numbers
    <2> QED BY <1>5, <2>1, <2>2, <2>3 DEF TypeOK
  <1>7. MissingIsExact' BY <1>3, <1>5 DEF MissingIsExact, Numbers
  <1>8. AccountInv' BY <1>1, <1>3, <1>5 DEF AccountInv, Numbers
  <1>9. AuditBalances'
    <2>1. Cardinality(tracker'.missing) = 0 BY <1>5, FS_EmptySet
    <2> QED BY <1>3, <1>4, <2>1 DEF AuditBalances, TrackerInv, TypeOK
  <1> QED BY <1>6, <1>7, <1>8, <1>9 DEF TrackerInv

\* A packet of the running session at the expectation.
LEMMA InOrderKeeps ==
    ASSUME TrackerInv, NEW session \in Session, NEW p \in Packets,
           Packet(session, p), tracker.started, session = tracker.session,
           p.first = tracker.expected
    PROVE  TrackerInv'
PROOF
  <1>1. p.first \in Nat /\ p.end \in Nat /\ p.first <= p.end
    BY TrackerAssumption DEF Packets
  <1>2. /\ tracker' = [tracker EXCEPT !.expected = p.end]
        /\ baseline' = baseline /\ arrived' = arrived \cup Numbers(p) /\ fed' = fed + 1
        /\ tally' = [missed |-> tally.missed + 0, recovered |-> tally.recovered + 0,
                     abandoned |-> tally.abandoned + 0]
    BY DEF Packet, Observe, Observation, Tallied, Count, Empty, NoRange, SequenceRange
  <1>3. /\ tracker'.missing = tracker.missing /\ tracker'.expected = p.end
        /\ tracker'.started
    BY <1>2 DEF TrackerInv, TypeOK
  <1>4. tally' = tally BY <1>2 DEF TrackerInv, TypeOK
  <1>5. TypeOK'
    <2>1. tracker' \in [missing : SUBSET Nat, expected : Nat, session : Nat,
                        started : BOOLEAN]
      BY <1>1, <1>2 DEF TrackerInv, TypeOK
    <2>2. arrived' \in SUBSET Nat /\ fed' \in Nat
      BY <1>1, <1>2 DEF TrackerInv, TypeOK, Numbers
    <2>3. \A n \in tracker'.missing : n < tracker'.expected
      BY <1>1, <1>3 DEF TrackerInv, TypeOK
    <2> QED BY <1>2, <1>4, <2>1, <2>2, <2>3 DEF TrackerInv, TypeOK
  <1>6. MissingIsExact'
    <2>1. /\ tracker.missing = (baseline .. tracker.expected - 1) \ arrived
          /\ baseline \in Nat /\ tracker.expected \in Nat /\ arrived \in SUBSET Nat
          /\ \A n \in arrived : n < tracker.expected /\ baseline <= tracker.expected
      BY DEF TrackerInv, MissingIsExact, AccountInv, TypeOK
    <2> QED BY <1>1, <1>2, <1>3, <2>1 DEF MissingIsExact, Numbers
  <1>7. AccountInv' BY <1>1, <1>2, <1>3 DEF AccountInv, Numbers, TrackerInv, TypeOK
  <1>8. AuditBalances' BY <1>3, <1>4 DEF AuditBalances, TrackerInv
  <1> QED BY <1>5, <1>6, <1>7, <1>8 DEF TrackerInv

\* A packet the tracker has no room for leaves it alone.
LEMMA RefusalKeeps ==
    ASSUME TrackerInv, tracker' = tracker, tally' = tally, baseline' = baseline,
           arrived' = arrived, fed' \in Nat
    PROVE  TrackerInv'
PROOF BY DEF TrackerInv, TypeOK, MissingIsExact, AccountInv, AuditBalances

\* A packet beyond the expectation opens a hole or is refused.
LEMMA AheadKeeps ==
    ASSUME TrackerInv, NEW session \in Session, NEW p \in Packets,
           Packet(session, p), tracker.started, session = tracker.session,
           p.first > tracker.expected
    PROVE  TrackerInv'
PROOF
  <1> DEFINE hole == SequenceRange(tracker.expected, p.first)
             after == Opened(tracker.missing, hole)
  <1>1. /\ p.first \in Nat /\ p.end \in Nat /\ p.first <= p.end
        /\ tracker.expected \in Nat /\ baseline \in Nat /\ fed \in Nat
    BY TrackerAssumption DEF Packets, TrackerInv, TypeOK
  <1>2. Observe(tracker, session, p) = OpenGap(tracker, p)
    BY <1>1 DEF Observe
  <1>3. CASE ~Describable(after)
    <2>1. /\ tracker' = tracker /\ baseline' = baseline /\ arrived' = arrived
          /\ fed' = fed + 1
          /\ tally' = [missed |-> tally.missed + 0, recovered |-> tally.recovered + 0,
                       abandoned |-> tally.abandoned + 0]
      BY <1>2, <1>3 DEF Packet, OpenGap, Observation, Tallied, Count, Empty, NoRange,
                        SequenceRange
    <2>2. tally' = tally /\ fed' \in Nat BY <1>1, <2>1 DEF TrackerInv, TypeOK
    <2> QED BY <2>1, <2>2, RefusalKeeps
  <1>4. CASE Describable(after)
    <2>1. /\ tracker' = [tracker EXCEPT !.missing = after, !.expected = p.end]
          /\ baseline' = baseline /\ arrived' = arrived \cup Numbers(p) /\ fed' = fed + 1
          /\ tally' = [missed |-> tally.missed + Count(hole),
                       recovered |-> tally.recovered + 0,
                       abandoned |-> tally.abandoned + 0]
      BY <1>2, <1>4 DEF Packet, OpenGap, Observation, Tallied
    <2>2. /\ tracker'.missing = after /\ tracker'.expected = p.end
          /\ tracker'.started
      BY <2>1 DEF TrackerInv, TypeOK
    <2>3. /\ IsFiniteSet(Numbers(hole)) /\ Cardinality(Numbers(hole)) = Count(hole)
          /\ Count(hole) \in Nat
      BY <1>1, CountIsCardinality
    <2>4. Numbers(hole) = tracker.expected .. p.first - 1
      BY DEF Numbers, SequenceRange
    <2>5. after = tracker.missing \cup Numbers(hole)
      BY DEF Opened
    <2> HIDE DEF hole, after
    <2>6. \A n \in tracker.missing : n \in Nat /\ n < tracker.expected
      BY DEF TrackerInv, TypeOK
    <2>7. \A n \in after : n \in Nat /\ n < p.end
      BY <1>1, <2>4, <2>5, <2>6
    <2>8. TypeOK'
      <3>1. tracker' \in [missing : SUBSET Nat, expected : Nat, session : Nat,
                          started : BOOLEAN]
        BY <1>1, <2>1, <2>7 DEF TrackerInv, TypeOK
      <3>2. tally' \in [missed : Nat, recovered : Nat, abandoned : Nat]
        BY <2>1, <2>3 DEF TrackerInv, TypeOK
      <3>3. arrived' \in SUBSET Nat /\ fed' \in Nat
        BY <1>1, <2>1 DEF TrackerInv, TypeOK, Numbers
      <3> QED BY <1>1, <2>1, <2>2, <2>7, <3>1, <3>2, <3>3 DEF TypeOK
    <2>9. MissingIsExact'
      <3>1. /\ tracker.missing = (baseline .. tracker.expected - 1) \ arrived
            /\ baseline <= tracker.expected
            /\ \A n \in arrived : n \in Nat /\ n < tracker.expected
        BY DEF TrackerInv, MissingIsExact, AccountInv, TypeOK
      <3>2. Numbers(p) = p.first .. p.end - 1 BY DEF Numbers
      <3>3. after = (baseline .. p.end - 1) \ (arrived \cup Numbers(p))
        BY <1>1, <2>4, <2>5, <3>1, <3>2
      <3> QED BY <2>1, <2>2, <3>3 DEF MissingIsExact
    <2>10. AccountInv'
      BY <1>1, <2>1, <2>2 DEF AccountInv, Numbers, TrackerInv, TypeOK
    <2>11. AuditBalances'
      <3>1. IsFiniteSet(tracker.missing) /\ Cardinality(tracker.missing) \in Nat
        BY MissingIsFinite DEF TrackerInv
      <3>2. tracker.missing \cap Numbers(hole) = {} BY <1>1, <2>4, <2>6
      <3>4. Cardinality(after) = Cardinality(tracker.missing) + Count(hole)
        <4>1. Cardinality(after) =
                  Cardinality(tracker.missing) + Cardinality(Numbers(hole))
          BY <2>3, <2>5, <3>1, <3>2, DisjointAddUp
        <4> QED BY <2>3, <4>1
      <3> QED BY <2>1, <2>2, <2>3, <3>1, <3>4 DEF AuditBalances, TrackerInv, TypeOK
    <2> QED BY <2>8, <2>9, <2>10, <2>11 DEF TrackerInv
  <1> QED BY <1>3, <1>4

\* A packet that starts below the expectation fills holes, is a duplicate, or
\* is refused because it would cut a hole in two.
LEMMA BehindKeeps ==
    ASSUME TrackerInv, NEW session \in Session, NEW p \in Packets,
           Packet(session, p), tracker.started, session = tracker.session,
           p.first < tracker.expected
    PROVE  TrackerInv'
PROOF
  <1> DEFINE after == Filled(tracker.missing, p)
             part == tracker.missing \cap Numbers(p)
             top == Greater(tracker.expected, p.end)
  <1>1. /\ p.first \in Nat /\ p.end \in Nat /\ p.first <= p.end
        /\ tracker.expected \in Nat /\ baseline \in Nat /\ fed \in Nat
    BY TrackerAssumption DEF Packets, TrackerInv, TypeOK
  <1>2. Observe(tracker, session, p) = HandleBehind(tracker, p)
    BY <1>1 DEF Observe
  <1>3. /\ IsFiniteSet(tracker.missing)
        /\ Cardinality(after) \in Nat /\ Cardinality(part) \in Nat
        /\ Cardinality(tracker.missing) = Cardinality(after) + Cardinality(part)
    <2>1. IsFiniteSet(tracker.missing) BY MissingIsFinite DEF TrackerInv
    <2> QED BY <2>1, PartsAddUp DEF Filled
  <1>4. CASE ~Describable(after)
    <2>1. /\ tracker' = tracker /\ baseline' = baseline /\ arrived' = arrived
          /\ fed' = fed + 1
          /\ tally' = [missed |-> tally.missed + 0, recovered |-> tally.recovered + 0,
                       abandoned |-> tally.abandoned + 0]
      BY <1>2, <1>4 DEF Packet, HandleBehind, Observation, Tallied, Count, Empty, NoRange,
                        SequenceRange
    <2>2. tally' = tally /\ fed' \in Nat BY <1>1, <2>1 DEF TrackerInv, TypeOK
    <2> QED BY <2>1, <2>2, RefusalKeeps
  <1>5. CASE Describable(after)
    <2>1. /\ tracker' = [tracker EXCEPT !.missing = after, !.expected = top]
          /\ baseline' = baseline /\ arrived' = arrived \cup Numbers(p) /\ fed' = fed + 1
          /\ tally' = [missed |-> tally.missed + 0,
                       recovered |-> tally.recovered + Cardinality(part),
                       abandoned |-> tally.abandoned + 0]
      <3>1. CASE Cardinality(part) = 0
        BY <1>2, <1>5, <3>1 DEF Packet, HandleBehind, Observation, Tallied, Count, Empty,
                                NoRange, SequenceRange
      <3>2. CASE Cardinality(part) # 0
        BY <1>2, <1>5, <3>2 DEF Packet, HandleBehind, Observation, Tallied, Count, Empty,
                                NoRange, SequenceRange
      <3> QED BY <3>1, <3>2
    <2>2. /\ tracker'.missing = after /\ tracker'.expected = top
          /\ tracker'.started
      BY <2>1 DEF TrackerInv, TypeOK
    <2>3. top \in Nat /\ top >= tracker.expected /\ top >= p.end
          /\ (top = tracker.expected \/ top = p.end)
      BY <1>1 DEF Greater
    <2>4. after = tracker.missing \ Numbers(p) /\ Numbers(p) = p.first .. p.end - 1
      BY DEF Filled, Numbers
    <2> HIDE DEF after, part, top
    <2>5. \A n \in after : n \in Nat /\ n < top
      BY <1>1, <2>3, <2>4 DEF TrackerInv, TypeOK
    <2>6. TypeOK'
      <3>1. tracker' \in [missing : SUBSET Nat, expected : Nat, session : Nat,
                          started : BOOLEAN]
        BY <2>1, <2>3, <2>5 DEF TrackerInv, TypeOK
      <3>2. tally' \in [missed : Nat, recovered : Nat, abandoned : Nat]
        BY <1>3, <2>1 DEF TrackerInv, TypeOK
      <3>3. arrived' \in SUBSET Nat /\ fed' \in Nat
        BY <1>1, <2>1, <2>4 DEF TrackerInv, TypeOK
      <3> QED BY <1>1, <2>1, <2>2, <2>5, <3>1, <3>2, <3>3 DEF TypeOK
    <2>7. MissingIsExact'
      <3>1. /\ tracker.missing = (baseline .. tracker.expected - 1) \ arrived
            /\ baseline <= tracker.expected
            /\ \A n \in arrived : n \in Nat /\ n < tracker.expected
        BY DEF TrackerInv, MissingIsExact, AccountInv, TypeOK
      <3>2. after = (baseline .. top - 1) \ (arrived \cup Numbers(p))
        BY <1>1, <2>3, <2>4, <3>1
      <3> QED BY <2>1, <2>2, <3>2 DEF MissingIsExact
    <2>8. AccountInv'
      BY <1>1, <2>1, <2>2, <2>3, <2>4 DEF AccountInv, TrackerInv, TypeOK
    <2>9. AuditBalances'
      BY <1>3, <2>1, <2>2 DEF AuditBalances, TrackerInv, TypeOK
    <2> QED BY <2>6, <2>7, <2>8, <2>9 DEF TrackerInv
  <1> QED BY <1>4, <1>5

-----------------------------------------------------------------------------
(* snapshot_at                                                               *)

\* A snapshot of another session starts the account again.
LEMMA OtherSnapshotKeeps ==
    ASSUME TrackerInv, NEW session \in Session, NEW s \in 0 .. MaxSequence,
           Snapshot(session, s), tracker.started, session # tracker.session
    PROVE  TrackerInv'
PROOF
  <1>1. s \in Nat /\ session \in Nat /\ Cardinality(tracker.missing) \in Nat
    BY TrackerAssumption, MissingIsFinite DEF TrackerInv
  <1>2. /\ tracker' = Established(session, s) /\ baseline' = s /\ arrived' = {}
        /\ fed' = fed + 1
        /\ tally' = [tally EXCEPT !.abandoned = @ + Cardinality(tracker.missing)]
    BY DEF Snapshot, SnapshotAt
  <1>3. tracker'.missing = {} /\ tracker'.expected = s /\ tracker'.started
    BY <1>2 DEF Established
  <1>4. TypeOK'
    <2>1. tracker' \in [missing : SUBSET Nat, expected : Nat, session : Nat,
                        started : BOOLEAN]
      BY <1>1, <1>2 DEF Established
    <2>2. tally' \in [missed : Nat, recovered : Nat, abandoned : Nat]
      BY <1>1, <1>2 DEF TrackerInv, TypeOK
    <2> QED BY <1>1, <1>2, <1>3, <2>1, <2>2 DEF TrackerInv, TypeOK
  <1>5. MissingIsExact' BY <1>1, <1>2, <1>3 DEF MissingIsExact
  <1>6. AccountInv' BY <1>1, <1>2, <1>3 DEF AccountInv
  <1>7. AuditBalances'
    <2>1. Cardinality(tracker'.missing) = 0 BY <1>3, FS_EmptySet
    <2> QED BY <1>1, <1>2, <2>1 DEF AuditBalances, TrackerInv, TypeOK
  <1> QED BY <1>4, <1>5, <1>6, <1>7 DEF TrackerInv

\* A snapshot of the running session, or the first thing a client sees, makes
\* the holes below it obsolete and never takes the expectation back.
LEMMA SnapshotKeeps ==
    ASSUME TrackerInv, NEW session \in Session, NEW s \in 0 .. MaxSequence,
           Snapshot(session, s), ~tracker.started \/ session = tracker.session
    PROVE  TrackerInv'
PROOF
  <1> DEFINE rest == From(tracker.missing, s)
             gone == Below(tracker.missing, s)
             top == IF ~tracker.started \/ s > tracker.expected THEN s
                    ELSE tracker.expected
  <1>1. /\ s \in Nat /\ session \in Nat /\ tracker.expected \in Nat
        /\ baseline \in Nat /\ fed \in Nat
        /\ \A n \in tracker.missing : n \in Nat /\ n < tracker.expected
    BY TrackerAssumption DEF TrackerInv, TypeOK
  <1>2. /\ tracker' = [missing |-> rest, expected |-> top, session |-> session,
                       started |-> TRUE]
        /\ baseline' = (IF s > baseline THEN s ELSE baseline) /\ arrived' = arrived
        /\ fed' = fed + 1
        /\ tally' = [tally EXCEPT !.abandoned = @ + Cardinality(gone)]
    BY DEF Snapshot, SnapshotAt
  <1>3. /\ Cardinality(rest) \in Nat /\ Cardinality(gone) \in Nat
        /\ Cardinality(tracker.missing) = Cardinality(rest) + Cardinality(gone)
    <2>1. IsFiniteSet(tracker.missing) BY MissingIsFinite DEF TrackerInv
    <2>2. rest = tracker.missing \ gone /\ gone = tracker.missing \cap gone
      BY <1>1 DEF From, Below
    <2> HIDE DEF rest, gone
    <2>3. /\ Cardinality(tracker.missing \ gone) \in Nat
          /\ Cardinality(tracker.missing \cap gone) \in Nat
          /\ Cardinality(tracker.missing) = Cardinality(tracker.missing \ gone)
                                             + Cardinality(tracker.missing \cap gone)
      BY <2>1, PartsAddUp
    <2> QED BY <2>2, <2>3
  <1>4. /\ top \in Nat /\ top >= s /\ top >= tracker.expected
        /\ top = s \/ top = tracker.expected
    BY <1>1 DEF TrackerInv, AccountInv
  <1>5. rest = {n \in tracker.missing : n >= s} BY DEF From
  <1>6. tracker'.missing = rest /\ tracker'.expected = top /\ tracker'.started
    BY <1>2
  <1> HIDE DEF rest, gone, top
  <1>7. \A n \in rest : n \in Nat /\ n < top BY <1>1, <1>4, <1>5
  <1>8. TypeOK'
    <2>1. tracker' \in [missing : SUBSET Nat, expected : Nat, session : Nat,
                        started : BOOLEAN]
      BY <1>1, <1>2, <1>4, <1>7
    <2>2. tally' \in [missed : Nat, recovered : Nat, abandoned : Nat]
      BY <1>2, <1>3 DEF TrackerInv, TypeOK
    <2>3. baseline' \in Nat /\ fed' \in Nat BY <1>1, <1>2
    <2> QED BY <1>2, <1>6, <1>7, <2>1, <2>2, <2>3 DEF TrackerInv, TypeOK
  <1>9. MissingIsExact'
    <2>1. /\ tracker.missing = (baseline .. tracker.expected - 1) \ arrived
          /\ \A n \in arrived : n \in Nat /\ n < tracker.expected
      BY DEF TrackerInv, MissingIsExact, AccountInv, TypeOK
    <2>2. CASE s > baseline
      <3>1. rest = (s .. top - 1) \ arrived BY <1>1, <1>4, <1>5, <2>1, <2>2
      <3> QED BY <1>2, <1>6, <2>2, <3>1 DEF MissingIsExact
    <2>3. CASE ~(s > baseline)
      <3>1. top = tracker.expected
        BY <1>1, <1>4, <2>3 DEF TrackerInv, AccountInv
      <3>2. rest = (baseline .. top - 1) \ arrived BY <1>1, <1>5, <2>1, <2>3, <3>1
      <3> QED BY <1>2, <1>6, <2>3, <3>2 DEF MissingIsExact
    <2> QED BY <2>2, <2>3
  <1>10. AccountInv'
    <2>1. baseline <= tracker.expected /\ \A n \in arrived : n \in Nat /\ n < tracker.expected
      BY DEF TrackerInv, AccountInv, TypeOK
    <2>2. baseline' <= top BY <1>1, <1>2, <1>4, <2>1
    <2>3. \A n \in arrived : n < top BY <1>1, <1>4, <2>1
    <2> QED BY <1>2, <1>6, <2>2, <2>3 DEF AccountInv
  <1>11. AuditBalances'
    BY <1>2, <1>3, <1>6 DEF AuditBalances, TrackerInv, TypeOK
  <1> QED BY <1>8, <1>9, <1>10, <1>11 DEF TrackerInv

-----------------------------------------------------------------------------
LEMMA NextTracker == TrackerInv /\ [Next]_trackerVars => TrackerInv'
PROOF
  <1> SUFFICES ASSUME TrackerInv, [Next]_trackerVars PROVE TrackerInv' OBVIOUS
  <1>1. ASSUME NEW session \in Session, NEW p \in Packets, Packet(session, p)
        PROVE  TrackerInv'
    <2>1. CASE ~tracker.started \/ session # tracker.session
      BY <1>1, <2>1, EstablishKeeps
    <2>2. CASE tracker.started /\ session = tracker.session
      <3>1. p.first \in Nat /\ tracker.expected \in Nat
        BY TrackerAssumption DEF Packets, TrackerInv, TypeOK
      <3>2. \/ p.first = tracker.expected \/ p.first > tracker.expected
            \/ p.first < tracker.expected
        BY <3>1
      <3> QED BY <1>1, <2>2, <3>2, InOrderKeeps, AheadKeeps, BehindKeeps
    <2> QED BY <2>1, <2>2
  <1>2. ASSUME NEW session \in Session, NEW s \in 0 .. MaxSequence, Snapshot(session, s)
        PROVE  TrackerInv'
    BY <1>2, OtherSnapshotKeeps, SnapshotKeeps
  <1>3. CASE UNCHANGED trackerVars
    BY <1>3 DEF trackerVars, TrackerInv, TypeOK, MissingIsExact, AccountInv, AuditBalances
  <1> QED BY <1>1, <1>2, <1>3 DEF Next

LEMMA TrackerInvariant == Spec => []TrackerInv
PROOF BY InitTracker, NextTracker, PTL DEF Spec

\* The tracker's state keeps its types.
THEOREM TrackerTypeOK == Spec => []TypeOK
PROOF BY TrackerInvariant, PTL DEF TrackerInv

\* Whatever packets and snapshots gap_tracker is fed, and however few holes it
\* can describe, what it calls missing is exactly what is missing.
THEOREM TrackerMissingIsExact == Spec => []MissingIsExact
PROOF BY TrackerInvariant, PTL DEF TrackerInv

\* And its counters add up: missed is recovered, abandoned or missing still.
THEOREM TrackerAuditBalances == Spec => []AuditBalances
PROOF BY TrackerInvariant, PTL DEF TrackerInv

\* Within a session no packet and no snapshot moves the expectation back.
THEOREM TrackerExpectationAdvances == Spec => ExpectationAdvances
PROOF
  <1> DEFINE Advances == tracker.started /\ tracker'.session = tracker.session
                             => tracker'.expected >= tracker.expected
  <1>1. TrackerInv /\ [Next]_trackerVars => [Advances]_trackerVars
    <2> SUFFICES ASSUME TrackerInv, Next, tracker.started,
                        tracker'.session = tracker.session
                 PROVE  tracker'.expected >= tracker.expected
      OBVIOUS
    <2>0. /\ tracker.expected \in Nat
          /\ tracker \in [missing : SUBSET Nat, expected : Nat, session : Nat,
                          started : BOOLEAN]
      BY DEF TrackerInv, TypeOK
    <2>1. ASSUME NEW session \in Session, NEW p \in Packets, Packet(session, p)
          PROVE  tracker'.expected >= tracker.expected
      <3>1. p.first \in Nat /\ p.end \in Nat /\ p.first <= p.end
        BY TrackerAssumption DEF Packets
      <3>2. tracker' = Observe(tracker, session, p).tracker BY <2>1 DEF Packet
      <3>3. session = tracker.session
        BY <3>2 DEF Observe, Observation, Established
      <3>4. CASE p.first = tracker.expected
        BY <2>0, <3>1, <3>2, <3>3, <3>4 DEF Observe, Observation
      <3>5. CASE p.first > tracker.expected
        BY <2>0, <3>1, <3>2, <3>3, <3>5 DEF Observe, OpenGap, Observation
      <3>6. CASE p.first < tracker.expected
        BY <2>0, <3>1, <3>2, <3>3, <3>6 DEF Observe, HandleBehind, Observation, Greater
      <3> QED BY <2>0, <3>1, <3>4, <3>5, <3>6
    <2>2. ASSUME NEW session \in Session, NEW s \in 0 .. MaxSequence, Snapshot(session, s)
          PROVE  tracker'.expected >= tracker.expected
      <3>1. s \in Nat BY TrackerAssumption
      <3>2. tracker' = SnapshotAt(tracker, session, s) BY <2>2 DEF Snapshot
      <3>3. session = tracker.session BY <3>2 DEF SnapshotAt, Established
      <3> QED BY <2>0, <3>1, <3>2, <3>3 DEF SnapshotAt
    <2> QED BY <2>1, <2>2 DEF Next
  <1> QED BY <1>1, TrackerInvariant, PTL DEF Spec, ExpectationAdvances, Advances

(***************************************************************************)
(* Arbiter: each message crosses once, and differing lines are caught.     *)
(***************************************************************************)
-----------------------------------------------------------------------------
(* The inductive invariant.                                                  *)

Entries == [range : Copies \cup {NoRange}, digest : Digest \cup {0}]

Streams == [before : Nat, digests : [0 .. DigestHistory - 1 -> Entries],
            next : 0 .. DigestHistory - 1, count : 0 .. DigestHistory]

Received == {p \in Copies : ~Empty(p)} \X Digest

ArbiterTypes ==
    /\ arbiter \in Streams
    /\ outcome \in {"duplicate", "deliver", "partial", "lines_diverged"}
    /\ crossed \in [Number -> Nat] /\ others \in Nat
    /\ recent \in Seq(Received)

\* The slot written `back' packets before the ring's position.
SlotBack(next, back) == IF back <= next THEN next - back ELSE next - back + DigestHistory

EntryOf(packet) == [range |-> packet[1], digest |-> packet[2]]

\* Until two packets differ, the ring is the last DigestHistory packets of the
\* stream: each of them in its slot, and nothing in a counted slot but packets
\* of this stream.
RingInv(a, packets) ==
    LET n == Len(packets)
    IN  /\ a.count = Lesser(n, DigestHistory)
        /\ n < DigestHistory => a.next = n
        /\ \A k \in 1 .. n : n < k + DigestHistory =>
                a.digests[SlotBack(a.next, n + 1 - k)] = EntryOf(packets[k])
        /\ \A i \in 0 .. a.count - 1 :
                \E k \in 1 .. n : a.digests[i] = EntryOf(packets[k])

ArbiterInv ==
    /\ ArbiterTypes
    /\ CrossesOnce
    /\ DetectDivergence /\ outcome # "lines_diverged" => RingInv(arbiter, recent)
    /\ DivergenceIsCaught
    /\ NoFalseAlarm

-----------------------------------------------------------------------------
(* Remembering a packet.                                                     *)

LEMMA History == DigestHistory \in Nat /\ DigestHistory > 0
PROOF BY ArbiterOpsAssumption, SMT

LEMMA SlotsOfHistory ==
    ASSUME NEW next \in 0 .. DigestHistory - 1, NEW back \in 1 .. DigestHistory
    PROVE  /\ SlotBack(next, back) \in 0 .. DigestHistory - 1
           /\ back # DigestHistory => SlotBack(next, back) # next
PROOF BY History, SMT DEF SlotBack

\* As the ring turns, what was found so far back is found one farther back.
LEMMA RingTurns ==
    ASSUME NEW x \in 0 .. DigestHistory - 1,
           NEW y \in Int, y = IF x + 1 = DigestHistory THEN 0 ELSE x + 1
    PROVE  /\ SlotBack(y, 1) = x
           /\ \A back \in 1 .. DigestHistory - 1 : SlotBack(y, back + 1) = SlotBack(x, back)
PROOF
  <1>1. CASE x + 1 = DigestHistory BY <1>1, History, SMT DEF SlotBack
  <1>2. CASE x + 1 # DigestHistory BY <1>2, History, SMT DEF SlotBack
  <1> QED BY <1>1, <1>2

\* b is a with one more entry, in the place of the oldest once the ring is full.
Turned(a, b, entry) ==
    /\ b.digests = [a.digests EXCEPT ![a.next] = entry]
    /\ b.next = IF a.next + 1 = DigestHistory THEN 0 ELSE a.next + 1
    /\ b.count = Lesser(a.count + 1, DigestHistory)

LEMMA RememberFields ==
    ASSUME NEW a \in Streams, NEW p \in Copies, ~Empty(p), NEW d \in Digest,
           NEW b, b = Remember(a, p, d)
    PROVE  /\ b \in Streams /\ b.before = a.before
           /\ Turned(a, b, [range |-> p, digest |-> d])
PROOF
  <1> DEFINE ds == [a.digests EXCEPT ![a.next] = [range |-> p, digest |-> d]]
             nx == (a.next + 1) % DigestHistory
             ct == Lesser(a.count + 1, DigestHistory)
  <1>1. /\ a.next \in 0 .. DigestHistory - 1 /\ a.count \in 0 .. DigestHistory
        /\ a.digests \in [0 .. DigestHistory - 1 -> Entries]
    BY DEF Streams
  <1>2. ds \in [0 .. DigestHistory - 1 -> Entries]
    <2>1. [range |-> p, digest |-> d] \in Entries BY DEF Entries
    <2> QED BY <2>1, <1>1
  <1>3. nx = IF a.next + 1 = DigestHistory THEN 0 ELSE a.next + 1
    BY <1>1, History, SMT
  <1>4. nx \in 0 .. DigestHistory - 1 BY <1>1, <1>3, History, SMT
  <1>5. ct \in 0 .. DigestHistory BY <1>1, History, SMT DEF Lesser
  <1>6. b = [a EXCEPT !.digests = ds, !.next = nx, !.count = ct]
    BY <1>1 DEF Remember
  <1> HIDE DEF ds, nx, ct
  <1>7. b.digests = ds /\ b.next = nx /\ b.count = ct /\ b.before = a.before
    BY <1>6 DEF Streams
  <1>8. b \in Streams BY <1>2, <1>4, <1>5, <1>6 DEF Streams
  <1> QED BY <1>3, <1>7, <1>8 DEF ds, ct, Turned

\* The ring turns by one: the oldest entry makes room, the rest stay where they
\* are found.
LEMMA RememberKeepsRing ==
    ASSUME NEW a \in Streams, NEW packets \in Seq(Received), RingInv(a, packets),
           NEW p \in Copies, ~Empty(p), NEW d \in Digest,
           NEW b, b = Remember(a, p, d),
           NEW q, q = Append(packets, <<p, d>>)
    PROVE  RingInv(b, q)
PROOF
  <1> DEFINE n == Len(packets)
             e == [range |-> p, digest |-> d]
  <1>1. n \in Nat /\ Len(q) = n + 1 /\ q[n + 1] = <<p, d>>
        /\ \A k \in 1 .. n : q[k] = packets[k]
    OBVIOUS
  <1>2. /\ b.digests = [a.digests EXCEPT ![a.next] = e]
        /\ b.next = IF a.next + 1 = DigestHistory THEN 0 ELSE a.next + 1
        /\ b.count = Lesser(a.count + 1, DigestHistory)
    BY RememberFields DEF Turned
  <1>3. /\ a.next \in 0 .. DigestHistory - 1 /\ a.count \in 0 .. DigestHistory
        /\ a.digests \in [0 .. DigestHistory - 1 -> Entries]
    BY DEF Streams
  <1>4. /\ a.count = Lesser(n, DigestHistory)
        /\ n < DigestHistory => a.next = n
        /\ \A k \in 1 .. n : n < k + DigestHistory =>
                a.digests[SlotBack(a.next, n + 1 - k)] = EntryOf(packets[k])
        /\ \A i \in 0 .. a.count - 1 :
                \E k \in 1 .. n : a.digests[i] = EntryOf(packets[k])
    BY DEF RingInv
  <1>5. EntryOf(<<p, d>>) = e BY DEF EntryOf
  <1> HIDE DEF n, e
  <1>6. \A i \in 0 .. DigestHistory - 1 :
            b.digests[i] = IF i = a.next THEN e ELSE a.digests[i]
    BY <1>2, <1>3
  <1>12. b.next \in Int BY <1>2, <1>3, SMT
  <1>7. b.count = Lesser(n + 1, DigestHistory)
    BY <1>1, <1>2, <1>4, History, SMT DEF Lesser
  <1>8. n + 1 < DigestHistory => b.next = n + 1
    BY <1>1, <1>2, <1>4, History, SMT
  <1>9. ASSUME NEW k \in 1 .. Len(q), Len(q) < k + DigestHistory
        PROVE  b.digests[SlotBack(b.next, Len(q) + 1 - k)] = EntryOf(q[k])
    <2>0. /\ b.next = IF a.next + 1 = DigestHistory THEN 0 ELSE a.next + 1
          /\ Len(q) + 1 - k = n + 2 - k /\ k \in 1 .. n + 1 /\ n + 1 < k + DigestHistory
      BY <1>1, <1>2, <1>9, SMT
    <2>1. CASE k = n + 1
      <3>1. n + 2 - k = 1 BY <2>1, <1>1, SMT
      <3>2. SlotBack(b.next, 1) = a.next
        BY <2>0, <1>3, <1>12, RingTurns
      <3>3. b.digests[a.next] = e BY <1>3, <1>6
      <3>4. q[k] = <<p, d>> /\ Len(q) + 1 - k = 1 BY <1>1, <2>0, <2>1, <3>1
      <3>5. b.digests[SlotBack(b.next, Len(q) + 1 - k)] = e BY <3>2, <3>3, <3>4
      <3> QED BY <1>5, <3>4, <3>5
    <2>2. CASE k # n + 1
      <3>1. k \in 1 .. n /\ n < k + DigestHistory /\ n + 1 - k \in 1 .. DigestHistory
            /\ n + 1 - k # DigestHistory
        BY <1>1, <2>0, <2>2, History, SMT
      <3>2. SlotBack(b.next, n + 2 - k) = SlotBack(a.next, n + 1 - k)
        <4> DEFINE m == n + 1 - k
        <4>1. m \in 1 .. DigestHistory - 1 /\ n + 2 - k = m + 1
          BY <1>1, <2>0, <3>1, History, SMT
        <4> HIDE DEF m
        <4>2. SlotBack(b.next, m + 1) = SlotBack(a.next, m)
          BY <4>1, <2>0, <1>3, <1>12, RingTurns
        <4> QED BY <4>1, <4>2 DEF m
      <3>3. /\ SlotBack(a.next, n + 1 - k) \in 0 .. DigestHistory - 1
            /\ SlotBack(a.next, n + 1 - k) # a.next
        BY <1>3, <3>1, SlotsOfHistory
      <3>4. a.digests[SlotBack(a.next, n + 1 - k)] = EntryOf(packets[k])
        BY <1>4, <3>1
      <3> QED BY <1>1, <1>6, <2>0, <3>1, <3>2, <3>3, <3>4
    <2> QED BY <2>1, <2>2
  <1>10. ASSUME NEW i \in 0 .. b.count - 1
         PROVE  \E k \in 1 .. Len(q) : b.digests[i] = EntryOf(q[k])
    <2>3. i \in 0 .. DigestHistory - 1 BY <1>1, <1>7, History, SMT DEF Lesser
    <2>1. CASE i = a.next
      <3>1. n + 1 \in 1 .. n + 1 BY <1>1, SMT
      <3> QED BY <2>3, <2>1, <3>1, <1>1, <1>5, <1>6
    <2>2. CASE i # a.next
      <3>1. i \in 0 .. a.count - 1
        BY <2>2, <1>1, <1>4, <1>7, History, SMT DEF Lesser
      <3>2. PICK k \in 1 .. n : a.digests[i] = EntryOf(packets[k]) BY <3>1, <1>4
      <3>3. k \in 1 .. Len(q) /\ q[k] = packets[k] BY <1>1
      <3>4. b.digests[i] = a.digests[i] BY <2>2, <2>3, <1>6
      <3> QED BY <3>2, <3>3, <3>4
    <2> QED BY <2>1, <2>2
  <1>11. b.count = Lesser(Len(q), DigestHistory) /\ (Len(q) < DigestHistory => b.next = Len(q))
    BY <1>1, <1>7, <1>8
  <1> QED BY <1>9, <1>10, <1>11 DEF RingInv

\* Only the watermark moves.
LEMMA AdoptFields ==
    ASSUME NEW a \in Streams, NEW s \in Nat, NEW b, b = Adopt(a, s)
    PROVE  /\ b \in Streams /\ b.before = Greater(a.before, s)
           /\ b.digests = a.digests /\ b.next = a.next /\ b.count = a.count
PROOF
  <1>1. Greater(a.before, s) \in Nat BY DEF Streams, Greater
  <1> QED BY <1>1 DEF Streams, Adopt

LEMMA RingIsDigests ==
    ASSUME NEW a, NEW b, NEW packets, RingInv(a, packets),
           b.digests = a.digests, b.next = a.next, b.count = a.count
    PROVE  RingInv(b, packets)
PROOF BY DEF RingInv

-----------------------------------------------------------------------------
(* What check_agreement compares.                                            *)

\* Of the last DigestHistory packets no two say different things of one range.
Agree(packets) ==
    LET n == Len(packets)
        from == IF n > DigestHistory THEN n - DigestHistory + 1 ELSE 1
    IN  \A i, j \in from .. n :
            packets[i][1] = packets[j][1] => packets[i][2] = packets[j][2]

LEMMA CaughtIsAgree ==
    DivergenceIsCaught <=> (DetectDivergence /\ outcome # "lines_diverged" => Agree(recent))
PROOF BY DEF DivergenceIsCaught, Agree

\* Each of the last packets is in a slot the comparison looks at.
LEMMA RingIsCompared ==
    ASSUME NEW a \in Streams, NEW packets \in Seq(Received), RingInv(a, packets),
           NEW p, NEW d, ~Disagrees(a, p, d),
           NEW k \in 1 .. Len(packets), Len(packets) + 1 < k + DigestHistory,
           packets[k][1] = p
    PROVE  packets[k][2] = d
PROOF
  <1> DEFINE n == Len(packets)
             s == SlotBack(a.next, n + 1 - k)
  <1>1. /\ a.count = Lesser(n, DigestHistory)
        /\ n < DigestHistory => a.next = n
        /\ n < k + DigestHistory => a.digests[s] = EntryOf(packets[k])
    BY DEF RingInv
  <1>2. n \in Nat /\ k \in 1 .. n /\ n + 1 < k + DigestHistory OBVIOUS
  <1>3. a.next \in 0 .. DigestHistory - 1 BY DEF Streams
  <1> HIDE DEF n
  <1>4. s \in 0 .. a.count - 1
    BY <1>1, <1>2, <1>3, History, SMT DEF SlotBack, Lesser
  <1>5. n < k + DigestHistory BY <1>2, History, SMT
  <1> HIDE DEF s
  <1>6. a.digests[s] = EntryOf(packets[k]) BY <1>1, <1>5
  <1>7. a.digests[s].range = p BY <1>6 DEF EntryOf
  <1>8. a.digests[s].digest = d BY <1>4, <1>7 DEF Disagrees
  <1> QED BY <1>6, <1>8 DEF EntryOf

LEMMA AgreementGrows ==
    ASSUME NEW a \in Streams, NEW packets \in Seq(Received), RingInv(a, packets),
           Agree(packets), NEW p, NEW d, ~Disagrees(a, p, d), <<p, d>> \in Received
    PROVE  Agree(Append(packets, <<p, d>>))
PROOF
  <1> DEFINE n == Len(packets)
             q == Append(packets, <<p, d>>)
             from(m) == IF m > DigestHistory THEN m - DigestHistory + 1 ELSE 1
  <1>1. /\ n \in Nat /\ Len(q) = n + 1 /\ q[n + 1] = <<p, d>>
        /\ \A k \in 1 .. n : q[k] = packets[k]
    OBVIOUS
  <1>2. \A i, j \in from(n) .. n :
            packets[i][1] = packets[j][1] => packets[i][2] = packets[j][2]
    BY DEF Agree
  <1>3. \A k \in 1 .. n : n + 1 < k + DigestHistory /\ packets[k][1] = p => packets[k][2] = d
    BY RingIsCompared
  <1> HIDE DEF n, q
  <1>4. ASSUME NEW k \in from(n + 1) .. n + 1, k # n + 1
        PROVE  /\ k \in from(n) .. n /\ k \in 1 .. n /\ n + 1 < k + DigestHistory
               /\ q[k] = packets[k]
    <2>1. k \in from(n) .. n /\ k \in 1 .. n /\ n + 1 < k + DigestHistory
      BY <1>1, <1>4, History, SMT
    <2> QED BY <2>1, <1>1
  <1> HIDE DEF from
  <1>5. ASSUME NEW i \in from(n + 1) .. n + 1, NEW j \in from(n + 1) .. n + 1,
               q[i][1] = q[j][1]
        PROVE  q[i][2] = q[j][2]
    <2>1. CASE i = n + 1 /\ j = n + 1 BY <2>1
    <2>2. CASE i = n + 1 /\ j # n + 1 BY <1>1, <1>3, <1>4, <1>5, <2>2
    <2>3. CASE i # n + 1 /\ j = n + 1 BY <1>1, <1>3, <1>4, <1>5, <2>3
    <2>4. CASE i # n + 1 /\ j # n + 1 BY <1>2, <1>4, <1>5, <2>4
    <2> QED BY <2>1, <2>2, <2>3, <2>4
  <1>6. \A i, j \in from(Len(q)) .. Len(q) : q[i][1] = q[j][1] => q[i][2] = q[j][2]
    BY <1>1, <1>5
  <1> QED BY <1>6 DEF Agree, from, q

-----------------------------------------------------------------------------
(* The steps.                                                                *)

LEMMA InitArbiter == ArbiterInit => ArbiterInv
PROOF
  <1> SUFFICES ASSUME ArbiterInit PROVE ArbiterInv OBVIOUS
  <1> USE DEF ArbiterInit
  <1>1. FreshStream \in Streams
    <2>1. [range |-> NoRange, digest |-> 0] \in Entries BY DEF Entries
    <2>2. [i \in 0 .. DigestHistory - 1 |-> [range |-> NoRange, digest |-> 0]]
          \in [0 .. DigestHistory - 1 -> Entries]
      BY <2>1
    <2> QED BY <2>2, History DEF FreshStream, Streams
  <1>2. ArbiterTypes BY <1>1 DEF ArbiterTypes
  <1>3. CrossesOnce
    <2>1. \A n \in Number : n \in Nat
      BY ArbiterAssumption, SMT DEF Number
    <2> QED BY <2>1 DEF CrossesOnce
  <1>4. RingInv(arbiter, recent)
    BY History DEF RingInv, FreshStream, Lesser
  <1>5. DivergenceIsCaught BY History DEF DivergenceIsCaught
  <1>6. NoFalseAlarm BY DEF NoFalseAlarm
  <1> QED BY <1>2, <1>3, <1>4, <1>5, <1>6 DEF ArbiterInv

\* What is delivered is new, and the watermark is above all of it.
LEMMA DeliveryIsNovel ==
    ASSUME CrossesOnce, arbiter \in Streams, crossed \in [Number -> Nat], others \in Nat,
           NEW r \in Copies \cup {NoRange}, Empty(r) \/ r.first >= arbiter.before,
           others' = others, arbiter'.before = Greater(arbiter.before, r.end),
           crossed' = [n \in Number |-> IF n \in Numbers(r) THEN crossed[n] + 1
                                                           ELSE crossed[n]]
    PROVE  CrossesOnce' /\ crossed' \in [Number -> Nat]
PROOF
  <1>1. crossed' \in [Number -> Nat] OBVIOUS
  <1>2. r.first \in Int /\ r.end \in Int /\ arbiter.before \in Int
    BY ArbiterAssumption, SMT DEF Copies, NoRange, SequenceRange, Streams
  <1>3. ASSUME NEW n \in Number
        PROVE  /\ crossed'[n] <= 1
               /\ n >= arbiter'.before => crossed'[n] = 0 /\ n >= others
    <2>1. n \in Int BY DEF Number
    <2>2. crossed[n] <= 1 /\ (n >= arbiter.before => crossed[n] = 0 /\ n >= others)
      BY DEF CrossesOnce
    <2>3. n >= arbiter'.before => n >= arbiter.before /\ n >= r.end
      BY <1>2, <2>1, SMT DEF Greater
    <2>4. CASE n \in Numbers(r)
      <3>1. r.first <= n /\ n < r.end BY <2>1, <2>4, <1>2, SMT DEF Numbers
      <3>2. n >= arbiter.before BY <3>1, <2>1, <1>2, SMT DEF Empty
      <3>3. crossed'[n] = 1 BY <2>2, <2>4, <3>2
      <3>4. ~(n >= arbiter'.before) BY <2>1, <2>3, <3>1, <1>2, SMT
      <3> QED BY <3>3, <3>4
    <2>5. CASE n \notin Numbers(r)
      <3>1. crossed'[n] = crossed[n] BY <2>5
      <3> QED BY <3>1, <2>2, <2>3
    <2> QED BY <2>4, <2>5
  <1> QED BY <1>1, <1>3 DEF CrossesOnce

\* The packet that differs: it is reported, and another of this stream is why.
LEMMA DivergedKeeps ==
    ASSUME ArbiterInv, NEW p \in Copies, NEW d \in Digest, OfferCopy(p, d),
           DetectDivergence, Disagrees(arbiter, p, d)
    PROVE  ArbiterInv'
PROOF
  <1>1. /\ arbiter' = arbiter /\ outcome' = "lines_diverged" /\ others' = others
        /\ crossed' = [n \in Number |-> IF n \in Numbers(NoRange) THEN crossed[n] + 1
                                                                 ELSE crossed[n]]
        /\ recent' = IF Empty(p) THEN recent ELSE Append(recent, <<p, d>>)
        /\ outcome # "lines_diverged"
    BY DEF OfferCopy, Offer, Arbitration, Feeding
  <1>2. /\ arbiter \in Streams /\ recent \in Seq(Received)
        /\ crossed \in [Number -> Nat] /\ others \in Nat
    BY DEF ArbiterInv, ArbiterTypes
  <1>3. RingInv(arbiter, recent) BY <1>1 DEF ArbiterInv
  <1>4. PICK i \in 0 .. arbiter.count - 1 :
            arbiter.digests[i].range = p /\ arbiter.digests[i].digest # d
    BY DEF Disagrees
  <1>5. PICK k \in 1 .. Len(recent) : arbiter.digests[i] = EntryOf(recent[k])
    BY <1>3 DEF RingInv
  <1>6. recent[k][1] = p /\ recent[k][2] # d BY <1>4, <1>5 DEF EntryOf
  <1>7. ~Empty(p) BY <1>2, <1>6 DEF Received
  <1>8. recent' = Append(recent, <<p, d>>) /\ <<p, d>> \in Received
    BY <1>1, <1>7 DEF Received
  <1>9. /\ recent' \in Seq(Received) /\ Len(recent') = Len(recent) + 1
        /\ recent'[Len(recent')] = <<p, d>> /\ recent'[k] = recent[k]
    BY <1>2, <1>8
  <1>10. crossed' = crossed
    <2>1. Numbers(NoRange) = {} BY SMT DEF Numbers, NoRange, SequenceRange
    <2> QED BY <1>1, <1>2, <2>1
  <1>11. ArbiterTypes' BY <1>1, <1>2, <1>9, <1>10 DEF ArbiterTypes
  <1>12. CrossesOnce' BY <1>1, <1>10 DEF ArbiterInv, CrossesOnce
  <1>13. DivergenceIsCaught' BY <1>1 DEF DivergenceIsCaught
  <1>14. NoFalseAlarm'
    <2>1. k \in 1 .. Len(recent') - 1 BY <1>2, <1>9
    <2> QED BY <2>1, <1>6, <1>9 DEF NoFalseAlarm
  <1> QED BY <1>1, <1>11, <1>12, <1>13, <1>14 DEF ArbiterInv

\* What novel_part leaves of a packet starts at the watermark or above it.
LEMMA NovelPartAbove ==
    ASSUME NEW a \in Streams, NEW p \in Copies, NEW r, r = NovelPart(a, p)
    PROVE  /\ r \in Copies \cup {NoRange}
           /\ Empty(r) \/ r.first >= a.before
           /\ r.end \in Nat
PROOF
  <1>1. /\ p.first \in 0 .. LastSequence /\ p.end \in 0 .. LastSequence
        /\ a.before \in Nat /\ LastSequence \in Nat
    BY ArbiterAssumption DEF Copies, Streams
  <1>2. CASE p.end <= a.before
    BY <1>1, <1>2, SMT DEF NovelPart, NoRange, SequenceRange, Empty
  <1>3. CASE ~(p.end <= a.before)
    <2> DEFINE f == Greater(p.first, a.before)
    <2>1. f \in 0 .. LastSequence /\ f <= p.end /\ f >= a.before
      BY <1>1, <1>3, SMT DEF Greater, Copies
    <2>2. r = [first |-> f, end |-> p.end] BY <1>3 DEF NovelPart, SequenceRange
    <2> HIDE DEF f
    <2>3. r \in Copies BY <1>1, <2>1, <2>2 DEF Copies
    <2> QED BY <1>1, <2>1, <2>2, <2>3
  <1> QED BY <1>2, <1>3

\* Any other packet: the ring takes it, and what is new of it goes downstream.
LEMMA MergedKeeps ==
    ASSUME ArbiterInv, NEW p \in Copies, NEW d \in Digest, OfferCopy(p, d),
           ~(DetectDivergence /\ Disagrees(arbiter, p, d))
    PROVE  ArbiterInv'
PROOF
  <1> DEFINE b == IF DetectDivergence THEN Remember(arbiter, p, d) ELSE arbiter
             fresh == NovelPart(b, p)
             old == Empty(p) \/ Empty(fresh)
             r == IF old THEN NoRange ELSE fresh
  <1>1. /\ arbiter \in Streams /\ recent \in Seq(Received)
        /\ crossed \in [Number -> Nat] /\ others \in Nat
        /\ CrossesOnce /\ outcome # "lines_diverged"
    BY DEF ArbiterInv, ArbiterTypes, OfferCopy, Feeding
  <1>2. /\ arbiter' = IF old THEN b ELSE Adopt(b, fresh.end)
        /\ outcome' \in {"duplicate", "deliver", "partial"} /\ others' = others
        /\ crossed' = [n \in Number |-> IF n \in Numbers(r) THEN crossed[n] + 1
                                                           ELSE crossed[n]]
        /\ recent' = IF Empty(p) THEN recent ELSE Append(recent, <<p, d>>)
    <2> DEFINE merged == Offer(arbiter, p, d, DetectDivergence)
    <2>1. merged = IF old THEN Arbitration(b, "duplicate", NoRange)
                   ELSE Arbitration(Adopt(b, fresh.end),
                            IF fresh = p THEN "deliver" ELSE "partial", fresh)
      BY DEF Offer
    <2>2. /\ arbiter' = merged.arbiter /\ outcome' = merged.outcome /\ others' = others
          /\ crossed' = [n \in Number |-> IF n \in Numbers(merged.deliver)
                                          THEN crossed[n] + 1 ELSE crossed[n]]
          /\ recent' = IF Empty(p) THEN recent ELSE Append(recent, <<p, d>>)
      BY DEF OfferCopy
    <2> HIDE DEF merged, b, fresh
    <2>3. CASE old BY <2>1, <2>2, <2>3 DEF Arbitration
    <2>4. CASE ~old BY <2>1, <2>2, <2>4 DEF Arbitration
    <2> QED BY <2>3, <2>4
  <1>3. b \in Streams /\ b.before = arbiter.before
    <2>1. CASE DetectDivergence /\ ~Empty(p) BY <1>1, <2>1, RememberFields
    <2>2. CASE ~DetectDivergence \/ Empty(p) BY <1>1, <2>2 DEF Remember
    <2> QED BY <2>1, <2>2
  <1>4. recent' \in Seq(Received)
    <2>1. ~Empty(p) => <<p, d>> \in Received BY DEF Received
    <2> QED BY <2>1, <1>1, <1>2
  <1>5. DetectDivergence => RingInv(b, recent') /\ Agree(recent')
    <2> SUFFICES ASSUME DetectDivergence PROVE RingInv(b, recent') /\ Agree(recent')
      OBVIOUS
    <2>1. RingInv(arbiter, recent) /\ Agree(recent)
      BY <1>1, CaughtIsAgree DEF ArbiterInv
    <2>2. CASE Empty(p) BY <2>1, <2>2, <1>2 DEF Remember
    <2>3. CASE ~Empty(p)
      <3>1. b = Remember(arbiter, p, d) /\ recent' = Append(recent, <<p, d>>)
        BY <2>3, <1>2
      <3>2. <<p, d>> \in Received BY <2>3 DEF Received
      <3> HIDE DEF b
      <3>3. RingInv(b, recent') BY <2>1, <2>3, <3>1, <1>1, RememberKeepsRing
      <3>4. Agree(recent') BY <2>1, <3>1, <3>2, <1>1, AgreementGrows
      <3> QED BY <3>3, <3>4
    <2> QED BY <2>2, <2>3
  <1>6. /\ fresh \in Copies \cup {NoRange} /\ fresh.end \in Nat
        /\ Empty(fresh) \/ fresh.first >= arbiter.before
    <2> HIDE DEF b
    <2> QED BY <1>3, NovelPartAbove
  <1> HIDE DEF b, fresh
  <1>7. /\ arbiter' \in Streams /\ arbiter'.digests = b.digests
        /\ arbiter'.next = b.next /\ arbiter'.count = b.count
        /\ arbiter'.before = Greater(arbiter.before, r.end)
    <2>1. CASE old
      <3>1. r.end = 0 /\ arbiter.before \in Nat
        BY <2>1, <1>1 DEF NoRange, SequenceRange, Streams
      <3>2. Greater(arbiter.before, 0) = arbiter.before BY <3>1, SMT DEF Greater
      <3> QED BY <2>1, <3>1, <3>2, <1>2, <1>3
    <2>2. CASE ~old
      <3>1. arbiter' = Adopt(b, fresh.end) /\ r = fresh BY <2>2, <1>2
      <3> HIDE DEF r
      <3>2. /\ arbiter' \in Streams /\ arbiter'.before = Greater(b.before, fresh.end)
            /\ arbiter'.digests = b.digests /\ arbiter'.next = b.next
            /\ arbiter'.count = b.count
        BY <3>1, <1>3, <1>6, AdoptFields
      <3> QED BY <3>1, <3>2, <1>3
    <2> QED BY <2>1, <2>2
  <1>8. r \in Copies \cup {NoRange} /\ (Empty(r) \/ r.first >= arbiter.before)
    <2>1. Empty(NoRange) BY SMT DEF Empty, NoRange, SequenceRange
    <2> QED BY <2>1, <1>6
  <1> HIDE DEF r, old
  <1>9. CrossesOnce' /\ crossed' \in [Number -> Nat]
    BY <1>1, <1>2, <1>7, <1>8, DeliveryIsNovel
  <1>10. ArbiterTypes' BY <1>1, <1>2, <1>4, <1>7, <1>9 DEF ArbiterTypes
  <1>11. DetectDivergence => RingInv(arbiter', recent') BY <1>5, <1>7, RingIsDigests
  <1>12. DivergenceIsCaught' BY <1>5 DEF DivergenceIsCaught, Agree
  <1>13. NoFalseAlarm' BY <1>2 DEF NoFalseAlarm
  <1> QED BY <1>9, <1>10, <1>11, <1>12, <1>13 DEF ArbiterInv

LEMMA DeliveredElsewhereKeeps ==
    ASSUME ArbiterInv, NEW s \in 1 .. LastSequence, DeliveredElsewhere(s)
    PROVE  ArbiterInv'
PROOF
  <1>1. /\ arbiter \in Streams /\ others \in Nat /\ s \in Nat
        /\ arbiter' = Adopt(arbiter, s) /\ others' = Greater(others, s)
        /\ UNCHANGED <<outcome, crossed, recent>>
    BY DEF ArbiterInv, ArbiterTypes, DeliveredElsewhere
  <1>2. /\ arbiter' \in Streams /\ arbiter'.before = Greater(arbiter.before, s)
        /\ arbiter'.digests = arbiter.digests /\ arbiter'.next = arbiter.next
        /\ arbiter'.count = arbiter.count
    BY <1>1, AdoptFields
  <1>3. ArbiterTypes' BY <1>1, <1>2 DEF ArbiterInv, ArbiterTypes, Greater
  <1>4. CrossesOnce'
    <2>1. ASSUME NEW n \in Number, n >= arbiter'.before
          PROVE  n >= arbiter.before /\ (n >= others => n >= others')
      BY <2>1, <1>1, <1>2, SMT DEF Number, Greater, Streams
    <2> QED BY <2>1, <1>1 DEF ArbiterInv, CrossesOnce
  <1>5. RingInv(arbiter, recent) => RingInv(arbiter', recent)
    BY <1>2, RingIsDigests
  <1>6. DivergenceIsCaught' /\ NoFalseAlarm'
    BY <1>1 DEF ArbiterInv, DivergenceIsCaught, NoFalseAlarm
  <1> QED BY <1>1, <1>3, <1>4, <1>5, <1>6 DEF ArbiterInv

LEMMA NewSessionKeeps ==
    ASSUME ArbiterInv, NewSession
    PROVE  ArbiterInv'
PROOF
  <1>1. /\ arbiter \in Streams /\ arbiter' = ResetStream(arbiter)
        /\ crossed' = [n \in Number |-> 0] /\ others' = 0 /\ recent' = <<>>
        /\ outcome' = outcome /\ outcome # "lines_diverged"
    BY DEF ArbiterInv, ArbiterTypes, NewSession, Feeding
  <1>2. /\ arbiter' \in Streams /\ arbiter'.before = 0 /\ arbiter'.next = 0
        /\ arbiter'.count = 0
    BY <1>1, History DEF ResetStream, Streams
  <1>3. ArbiterTypes' BY <1>1, <1>2 DEF ArbiterInv, ArbiterTypes
  <1>4. CrossesOnce'
    <2>1. \A n \in Number : n >= 0 BY SMT DEF Number
    <2> QED BY <2>1, <1>1, <1>2 DEF CrossesOnce
  <1>5. RingInv(arbiter', recent') BY <1>1, <1>2, History DEF RingInv, Lesser
  <1>6. DivergenceIsCaught' BY <1>1, History DEF DivergenceIsCaught
  <1>7. NoFalseAlarm' BY <1>1 DEF NoFalseAlarm
  <1> QED BY <1>3, <1>4, <1>5, <1>6, <1>7 DEF ArbiterInv

LEMMA ArbiterStep == ArbiterInv /\ [ArbiterNext]_arbiterVars => ArbiterInv'
PROOF
  <1> SUFFICES ASSUME ArbiterInv, [ArbiterNext]_arbiterVars PROVE ArbiterInv' OBVIOUS
  <1>1. ASSUME NEW p \in Copies, NEW d \in Digest, OfferCopy(p, d) PROVE ArbiterInv'
    BY <1>1, DivergedKeeps, MergedKeeps
  <1>2. CASE UNCHANGED arbiterVars
    <2> USE <1>2 DEF ArbiterInv, arbiterVars
    <2>1. ArbiterTypes' /\ CrossesOnce' BY DEF ArbiterTypes, CrossesOnce
    <2>2. DivergenceIsCaught' /\ NoFalseAlarm' BY DEF DivergenceIsCaught, NoFalseAlarm
    <2> QED BY <2>1, <2>2
  <1> QED BY <1>1, <1>2, DeliveredElsewhereKeeps, NewSessionKeeps DEF ArbiterNext

LEMMA ArbiterAlways == ArbiterSpec => []ArbiterInv
PROOF BY InitArbiter, ArbiterStep, PTL DEF ArbiterSpec

-----------------------------------------------------------------------------
(* What the invariant says.                                                  *)

\* However the packets of the lines, their framings and the snapshots
\* interleave, the arbiter of recovery/arbiter.hpp delivers no message twice.
THEOREM ArbiterCrossesOnce == ArbiterSpec => []CrossesOnce
PROOF
  <1>1. ArbiterInv => CrossesOnce BY DEF ArbiterInv
  <1> QED BY <1>1, ArbiterAlways, PTL

\* check_agreement compares each packet with all of the last DigestHistory ones,
\* also after the ring has wrapped and after a reset.
THEOREM ArbiterDivergenceIsCaught == ArbiterSpec => []DivergenceIsCaught
PROOF
  <1>1. ArbiterInv => DivergenceIsCaught BY DEF ArbiterInv
  <1> QED BY <1>1, ArbiterAlways, PTL

\* ... and reports only lines that differ: a reset leaves nothing of the session
\* before to be compared with.
THEOREM ArbiterNoFalseAlarm == ArbiterSpec => []NoFalseAlarm
PROOF
  <1>1. ArbiterInv => NoFalseAlarm BY DEF ArbiterInv
  <1> QED BY <1>1, ArbiterAlways, PTL
=============================================================================
