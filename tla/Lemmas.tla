------------------------------- MODULE Lemmas -------------------------------
(***************************************************************************)
(* What the proofs of several components need: the least and greatest      *)
(* elements of sets of numbers, the rank of an element, the list of the    *)
(* elements in ascending order (revisions, in Dump); prefixes of sequences *)
(* (paths, in DeltaEditor; addresses and strings, in CritBit), elements    *)
(* put into and taken out of them, and positions in a total order          *)
(* (CritBit).                                                              *)
(*                                                                         *)
(* The facts that would need an induction follow from the well-foundedness *)
(* of the natural numbers (there is a least one), and from the pigeonhole  *)
(* principle (every position of the ascending list is taken).              *)
(***************************************************************************)
EXTENDS Integers, Sequences, SequencesExt, FiniteSets, FiniteSetsExt,
        FiniteSetTheorems, SequenceTheorems, TLAPS

\* The elements up to a number, and how many there are, not counting 0.
Upto(S, r) == {x \in S : x <= r}
Rank(S, r) == Cardinality(Upto(S, r)) - (IF 0 \in S THEN 1 ELSE 0)

LEMMA LeastNat ==
    ASSUME NEW T \in SUBSET Nat, T # {}
    PROVE  \E m \in T : \A n \in T : m <= n
<1> DEFINE R == {ss \in Nat \X Nat : ss[1] < ss[2]}
<1>1. IsWellFoundedOn(R, Nat)
  BY NatLessThanWellFounded DEF OpToRel
<1> HIDE DEF R
<1>2. PICK x \in T : \A y \in T : ~(<<y, x>> \in R)
  BY <1>1, WFMin
<1>3. \A y \in T : ~(y < x)
  BY <1>2 DEF R
<1> QED BY <1>3

LEMMA MinFacts ==
    ASSUME NEW S \in SUBSET Nat, S # {}
    PROVE  Min(S) \in S /\ \A y \in S : Min(S) <= y
<1>1. PICK m \in S : \A y \in S : m <= y
  BY LeastNat
<1> QED BY <1>1 DEF Min

LEMMA MaxFacts ==
    ASSUME NEW S \in SUBSET Int, NEW b \in Int, \A x \in S : x <= b, S # {}
    PROVE  Max(S) \in S /\ \A y \in S : y <= Max(S)
<1> DEFINE T == {n \in Nat : b - n \in S}
<1>1. \A y \in S : b - y \in T
  <2> TAKE y \in S
  <2>1. y \in Int /\ y <= b
    OBVIOUS
  <2>2. b - y \in Nat /\ b - (b - y) = y
    BY <2>1
  <2> QED BY <2>2
<1>2. T \in SUBSET Nat /\ T # {}
  <2>1. PICK y : y \in S
    OBVIOUS
  <2> QED BY <1>1, <2>1
<1>3. PICK m \in T : \A n \in T : m <= n
  BY <1>2, LeastNat
<1>4. b - m \in S /\ m \in Nat
  OBVIOUS
<1>5. \A y \in S : b - m >= y
  <2> TAKE y \in S
  <2>1. y \in Int /\ m <= b - y
    BY <1>1, <1>3
  <2> QED BY <1>4, <2>1
<1>6. PICK x \in S : \A y \in S : x >= y
  BY <1>4, <1>5
<1>7. Max(S) \in S /\ \A y \in S : Max(S) >= y
  BY <1>6 DEF Max
<1> QED BY <1>7

LEMMA UptoFacts ==
    ASSUME NEW S \in SUBSET Nat, NEW r \in Nat
    PROVE  IsFiniteSet(Upto(S, r)) /\ Cardinality(Upto(S, r)) \in Nat
<1>1. Upto(S, r) \in SUBSET Nat /\ \A x \in Upto(S, r) : x <= r
  BY DEF Upto
<1> QED BY <1>1, FS_BoundedSetOfNaturals, FS_CardinalityType

LEMMA RankType ==
    ASSUME NEW S \in SUBSET Nat, NEW r \in Nat
    PROVE  Rank(S, r) \in Int
BY UptoFacts DEF Rank

LEMMA UptoNext ==
    ASSUME NEW S \in SUBSET Nat, NEW r \in S, NEW s \in S, r < s,
           \A x \in S : ~(r < x /\ x < s)
    PROVE  Cardinality(Upto(S, s)) = Cardinality(Upto(S, r)) + 1
<1>0. \A x \in S : x \in Nat
  OBVIOUS
<1>1. s \notin Upto(S, r)
  BY <1>0 DEF Upto
<1>2. ASSUME NEW x PROVE x \in Upto(S, s) <=> x \in Upto(S, r) \cup {s}
  <2>1. CASE x \in S
    <3>1. x \in Nat /\ r \in Nat /\ s \in Nat /\ ~(r < x /\ x < s)
      BY <1>0, <2>1
    <3>2. x <= s <=> x <= r \/ x = s
      BY <3>1
    <3> QED BY <2>1, <3>2 DEF Upto
  <2>2. CASE x \notin S
    BY <2>2 DEF Upto
  <2> QED BY <2>1, <2>2
<1>3. Upto(S, s) = Upto(S, r) \cup {s}
  BY <1>2
<1> QED BY <1>1, <1>3, UptoFacts, FS_AddElement

LEMMA UptoMono ==
    ASSUME NEW S \in SUBSET Nat, NEW r \in S, NEW s \in S, r < s
    PROVE  Cardinality(Upto(S, r)) < Cardinality(Upto(S, s))
<1>0. \A x \in S : x \in Nat
  OBVIOUS
<1>1. Upto(S, r) \in SUBSET Upto(S, s) /\ s \in Upto(S, s) /\ s \notin Upto(S, r)
  <2>1. ASSUME NEW x \in Upto(S, r) PROVE x \in Upto(S, s)
    <3>1. x \in S /\ x \in Nat /\ x <= r /\ r \in Nat /\ s \in Nat
      BY <1>0, <2>1 DEF Upto
    <3> QED BY <3>1 DEF Upto
  <2>2. s \in Upto(S, s) /\ s \notin Upto(S, r)
    BY <1>0 DEF Upto
  <2> QED BY <2>1, <2>2
<1>2. /\ IsFiniteSet(Upto(S, s)) /\ Cardinality(Upto(S, s)) \in Nat
      /\ Cardinality(Upto(S, r)) \in Nat
  BY UptoFacts
<1>3. /\ Cardinality(Upto(S, r)) <= Cardinality(Upto(S, s))
      /\ Cardinality(Upto(S, s)) = Cardinality(Upto(S, r)) => Upto(S, s) = Upto(S, r)
  BY <1>1, <1>2, FS_Subset
<1> QED BY <1>1, <1>2, <1>3

LEMMA RankNext ==
    ASSUME NEW S \in SUBSET Nat, NEW r \in S, NEW s \in S, r < s,
           \A x \in S : ~(r < x /\ x < s)
    PROVE  Rank(S, s) = Rank(S, r) + 1
<1>1. Cardinality(Upto(S, r)) \in Nat
  BY UptoFacts
<1> QED BY <1>1, UptoNext DEF Rank

LEMMA RankMono ==
    ASSUME NEW S \in SUBSET Nat, NEW r \in S, NEW s \in S
    PROVE  /\ r < s <=> Rank(S, r) < Rank(S, s)
           /\ r = s <=> Rank(S, r) = Rank(S, s)
<1>1. Cardinality(Upto(S, r)) \in Nat /\ Cardinality(Upto(S, s)) \in Nat
  BY UptoFacts
<1>2. r < s => Cardinality(Upto(S, r)) < Cardinality(Upto(S, s))
  BY UptoMono
<1>3. s < r => Cardinality(Upto(S, s)) < Cardinality(Upto(S, r))
  BY UptoMono
<1>4. r < s \/ r = s \/ s < r
  OBVIOUS
<1> QED BY <1>1, <1>2, <1>3, <1>4 DEF Rank

LEMMA RankFirst ==
    ASSUME NEW S \in SUBSET Nat, NEW r \in S, \A x \in S : r <= x
    PROVE  Rank(S, r) = IF r = 0 THEN 0 ELSE 1
<1>0. \A x \in S : x \in Nat
  OBVIOUS
<1>1. Upto(S, r) = {r}
  <2>1. ASSUME NEW x PROVE x \in Upto(S, r) <=> x = r
    <3>1. r \in Nat /\ r \in Upto(S, r)
      BY <1>0 DEF Upto
    <3>2. x \in Upto(S, r) => x \in Nat /\ x <= r /\ r <= x
      BY <1>0 DEF Upto
    <3> QED BY <3>1, <3>2
  <2> QED BY <2>1
<1>2. Cardinality(Upto(S, r)) = 1
  BY <1>1, FS_Singleton
<1>3. 0 \in S <=> r = 0
  BY <1>0
<1> QED BY <1>2, <1>3 DEF Rank

LEMMA SortedFacts ==
    ASSUME NEW S \in SUBSET Nat, IsFiniteSet(S)
    PROVE  LET s == [i \in 1 .. Cardinality(S) |->
                       CHOOSE r \in S : Cardinality({x \in S : x <= r}) = i]
           IN  /\ s \in Seq(S) /\ Len(s) = Cardinality(S) /\ Cardinality(S) \in Nat
               /\ \A i \in 1 .. Cardinality(S) : s[i] \in S /\ Cardinality(Upto(S, s[i])) = i
               /\ \A r \in S : \E i \in 1 .. Cardinality(S) : s[i] = r
<1> DEFINE n == Cardinality(S)
           f == [r \in S |-> Cardinality(Upto(S, r))]
           s == [i \in 1 .. n |-> CHOOSE r \in S : Cardinality({x \in S : x <= r}) = i]
<1>1. n \in Nat
  BY FS_CardinalityType
<1>2. \A r \in S : Cardinality(Upto(S, r)) \in 1 .. n
  <2> TAKE r \in S
  <2>1. Upto(S, r) \in SUBSET S /\ r \in Upto(S, r)
    BY DEF Upto
  <2>2. /\ IsFiniteSet(Upto(S, r)) /\ Cardinality(Upto(S, r)) \in Nat
    BY UptoFacts
  <2>3. Cardinality(Upto(S, r)) <= n
    BY <2>1, FS_Subset
  <2>4. Cardinality(Upto(S, r)) # 0
    BY <2>1, <2>2, FS_EmptySet
  <2> QED BY <1>1, <2>2, <2>3, <2>4
<1>3. \A r, t \in S : f[r] = f[t] => r = t
  <2> TAKE r, t \in S
  <2>1. f[r] = Cardinality(Upto(S, r)) /\ f[t] = Cardinality(Upto(S, t))
    OBVIOUS
  <2>2. f[r] \in Nat /\ f[t] \in Nat
    BY <2>1, UptoFacts
  <2>3. r < t => f[r] < f[t]
    BY <2>1, UptoMono
  <2>4. t < r => f[t] < f[r]
    BY <2>1, UptoMono
  <2>5. r < t \/ t < r \/ r = t
    OBVIOUS
  <2> HIDE DEF f
  <2> QED BY <2>2, <2>3, <2>4, <2>5
<1>4. f \in Injection(S, 1 .. n)
  BY <1>2, <1>3 DEF Injection, IsInjective
<1>5. IsFiniteSet(1 .. n) /\ Cardinality(1 .. n) = n
  BY <1>1, FS_Interval
<1>6. f \in Surjection(S, 1 .. n)
  BY <1>4, <1>5, FS_Injection
<1>7. \A i \in 1 .. n : \E r \in S : f[r] = i
  BY <1>6 DEF Surjection
<1>8. \A i \in 1 .. n : s[i] \in S /\ Cardinality(Upto(S, s[i])) = i
  <2> TAKE i \in 1 .. n
  <2>1. PICK r \in S : f[r] = i
    BY <1>7
  <2>2. r \in S /\ Cardinality({x \in S : x <= r}) = i
    BY <2>1 DEF Upto
  <2>3. s[i] = CHOOSE t \in S : Cardinality({x \in S : x <= t}) = i
    OBVIOUS
  <2>4. s[i] \in S /\ Cardinality({x \in S : x <= s[i]}) = i
    BY <2>2, <2>3
  <2> QED BY <2>4 DEF Upto
<1>9. s \in Seq(S) /\ Len(s) = n
  <2>1. s \in [1 .. n -> S]
    BY <1>8
  <2> HIDE DEF s
  <2> QED BY <1>1, <2>1
<1>10. \A r \in S : \E i \in 1 .. n : s[i] = r
  <2> TAKE r \in S
  <2>1. f[r] \in 1 .. n
    BY <1>2
  <2>2. s[f[r]] \in S /\ f[s[f[r]]] = f[r]
    BY <1>8, <2>1
  <2>3. s[f[r]] = r
    BY <1>3, <2>2
  <2> QED BY <2>1, <2>3
<1> HIDE DEF s
<1>11. /\ s \in Seq(S) /\ Len(s) = n /\ n \in Nat
       /\ \A i \in 1 .. n : s[i] \in S /\ Cardinality(Upto(S, s[i])) = i
       /\ \A r \in S : \E i \in 1 .. n : s[i] = r
  BY <1>1, <1>8, <1>9, <1>10
<1> QED BY <1>11 DEF s

-----------------------------------------------------------------------------
(***************************************************************************)
(* Prefixes                                                                *)
(***************************************************************************)

LEMMA PrefixAt ==
    ASSUME NEW c \in Seq(Nat), NEW p \in Seq(Nat)
    PROVE  IsPrefix(c, p) <=> /\ Len(c) <= Len(p)
                              /\ \A i \in 1 .. Len(c) : c[i] = p[i]
<1>1. CASE Len(c) <= Len(p)
  <2> DEFINE x == SubSeq(c, 1, Len(c))
             y == SubSeq(p, 1, Len(c))
  <2>1. /\ x \in Seq(Nat) /\ Len(x) = Len(c)
        /\ \A i \in 1 .. Len(c) : x[i] = c[i]
    OBVIOUS
  <2>2. /\ y \in Seq(Nat) /\ Len(y) = Len(c)
        /\ \A i \in 1 .. Len(c) : y[i] = p[i]
    BY <1>1
  <2> HIDE DEF x, y
  <2>3. x = y <=> \A i \in 1 .. Len(c) : x[i] = y[i]
    BY <2>1, <2>2, SeqEqual
  <2>4. x = y <=> \A i \in 1 .. Len(c) : c[i] = p[i]
    BY <2>1, <2>2, <2>3
  <2> QED BY <1>1, <2>4 DEF IsPrefix, x, y
<1>2. CASE ~(Len(c) <= Len(p))
  BY <1>2 DEF IsPrefix
<1> QED BY <1>1, <1>2

LEMMA PrefixSelf == \A p \in Seq(Nat) : IsPrefix(p, p)
<1> TAKE p \in Seq(Nat)
<1>1. Len(p) \in Nat
  OBVIOUS
<1>2. Len(p) <= Len(p)
  BY <1>1
<1> QED BY <1>2, PrefixAt

LEMMA PrefixTrans ==
    ASSUME NEW c \in Seq(Nat), NEW d \in Seq(Nat), NEW p \in Seq(Nat),
           IsPrefix(c, d), IsPrefix(d, p)
    PROVE  IsPrefix(c, p)
<1>1. Len(c) <= Len(d) /\ Len(d) <= Len(p)
      /\ Len(c) \in Nat /\ Len(d) \in Nat /\ Len(p) \in Nat
  BY PrefixAt
<1>2. \A i \in 1 .. Len(c) : c[i] = d[i]
  BY PrefixAt
<1>3. \A i \in 1 .. Len(d) : d[i] = p[i]
  BY PrefixAt
<1>4. \A i \in 1 .. Len(c) : c[i] = p[i]
  BY <1>1, <1>2, <1>3
<1>5. Len(c) <= Len(p)
  BY <1>1
<1> QED BY <1>4, <1>5, PrefixAt

LEMMA PrefixEqual ==
    ASSUME NEW c \in Seq(Nat), NEW p \in Seq(Nat), IsPrefix(c, p), Len(p) <= Len(c)
    PROVE  c = p
<1>1. Len(c) = Len(p)
  <2>1. Len(c) \in Nat /\ Len(p) \in Nat /\ Len(c) <= Len(p)
    BY PrefixAt
  <2> QED BY <2>1
<1>2. \A i \in 1 .. Len(c) : c[i] = p[i]
  BY PrefixAt
<1> QED BY <1>1, <1>2, SeqEqual

\* Of two paths above a third one, one is above the other.
LEMMA PrefixLinear ==
    ASSUME NEW c \in Seq(Nat), NEW d \in Seq(Nat), NEW p \in Seq(Nat),
           IsPrefix(c, p), IsPrefix(d, p)
    PROVE  IsPrefix(c, d) \/ IsPrefix(d, c)
<1>1. Len(c) \in Nat /\ Len(d) \in Nat
  OBVIOUS
<1>2. \A i \in 1 .. Len(c) : c[i] = p[i]
  BY PrefixAt
<1>3. \A i \in 1 .. Len(d) : d[i] = p[i]
  BY PrefixAt
<1>4. CASE Len(c) <= Len(d)
  <2>1. \A i \in 1 .. Len(c) : c[i] = d[i]
    BY <1>1, <1>2, <1>3, <1>4
  <2> QED BY <1>4, <2>1, PrefixAt
<1>5. CASE Len(d) <= Len(c)
  <2>1. \A i \in 1 .. Len(d) : d[i] = c[i]
    BY <1>1, <1>2, <1>3, <1>5
  <2> QED BY <1>5, <2>1, PrefixAt
<1> QED BY <1>1, <1>4, <1>5

\* Strict prefixes, letter by letter.
LEMMA StrictAt ==
    ASSUME NEW c \in Seq(Nat), NEW p \in Seq(Nat)
    PROVE  IsStrictPrefix(c, p) <=> /\ Len(c) < Len(p)
                                    /\ \A i \in 1 .. Len(c) : c[i] = p[i]
<1>1. Len(c) \in Nat /\ Len(p) \in Nat
  OBVIOUS
<1>2. IsPrefix(c, p) /\ Len(p) <= Len(c) => c = p
  BY PrefixEqual
<1>3. Len(c) < Len(p) => c # p
  BY <1>1
<1>4. IsPrefix(c, p) <=> Len(c) <= Len(p) /\ \A i \in 1 .. Len(c) : c[i] = p[i]
  BY PrefixAt
<1> QED BY <1>1, <1>2, <1>3, <1>4 DEF IsStrictPrefix

-----------------------------------------------------------------------------
(*****************************************************************************)
(* Elements put into and taken out of sequences                            *)
(*****************************************************************************)

\* The elements of Append().
LEMMA AppendAt ==
    ASSUME NEW S, NEW x \in Seq(S), NEW d \in S
    PROVE  /\ Append(x, d) \in Seq(S) /\ Len(Append(x, d)) = Len(x) + 1
           /\ \A i \in 1 .. Len(x) : Append(x, d)[i] = x[i]
           /\ Append(x, d)[Len(x) + 1] = d
BY AppendProperties

\* The elements of InsertAt().
LEMMA InsertFacts ==
    ASSUME NEW S, NEW x \in Seq(S), NEW k \in 1 .. Len(x) + 1, NEW d \in S
    PROVE  /\ InsertAt(x, k, d) \in Seq(S)
           /\ Len(InsertAt(x, k, d)) = Len(x) + 1
           /\ \A i \in 1 .. k - 1 : InsertAt(x, k, d)[i] = x[i]
           /\ InsertAt(x, k, d)[k] = d
           /\ \A i \in k .. Len(x) : InsertAt(x, k, d)[i + 1] = x[i]
<1> DEFINE u == SubSeq(x, 1, k - 1)
           w == SubSeq(x, k, Len(x))
           v == u \o <<d>>
<1>1. Len(x) \in Nat /\ k \in Nat /\ k >= 1 /\ k <= Len(x) + 1
  OBVIOUS
<1>2. u \in Seq(S) /\ Len(u) = k - 1 /\ \A i \in 1 .. k - 1 : u[i] = x[i]
  BY <1>1, SubSeqProperties
<1>3. /\ w \in Seq(S) /\ Len(w) = Len(x) - k + 1
      /\ \A i \in 1 .. Len(x) - k + 1 : w[i] = x[k + i - 1]
  BY <1>1, SubSeqProperties
<1>4. <<d>> \in Seq(S) /\ Len(<<d>>) = 1 /\ <<d>>[1] = d
  OBVIOUS
<1> HIDE DEF u, w
<1>5. /\ v \in Seq(S) /\ Len(v) = k
      /\ \A i \in 1 .. k - 1 : v[i] = x[i]
      /\ v[k] = d
  <2>1. /\ v \in Seq(S) /\ Len(v) = Len(u) + 1
        /\ \A i \in 1 .. Len(u) + 1 : v[i] = IF i <= Len(u) THEN u[i] ELSE <<d>>[i - Len(u)]
    BY <1>2, <1>4, ConcatProperties
  <2>2. Len(u) + 1 = k /\ ~(k <= Len(u)) /\ k - Len(u) = 1 /\ k \in 1 .. Len(u) + 1
    BY <1>1, <1>2
  <2> HIDE DEF v
  <2>3. v[k] = d
    BY <1>4, <2>1, <2>2
  <2>4. ASSUME NEW i \in 1 .. k - 1 PROVE v[i] = x[i]
    <3>1. i \in 1 .. Len(u) + 1 /\ i <= Len(u)
      BY <1>1, <1>2
    <3> QED BY <1>2, <2>1, <3>1
  <2> QED BY <2>1, <2>2, <2>3, <2>4
<1> HIDE DEF v
<1> DEFINE m == v \o w
<1>6. /\ m \in Seq(S) /\ Len(m) = Len(x) + 1
      /\ \A i \in 1 .. Len(x) + 1 : m[i] = IF i <= k THEN v[i] ELSE w[i - k]
  <2>1. /\ m \in Seq(S) /\ Len(m) = Len(v) + Len(w)
        /\ \A i \in 1 .. Len(v) + Len(w) : m[i] = IF i <= Len(v) THEN v[i] ELSE w[i - Len(v)]
    BY <1>3, <1>5, ConcatProperties
  <2>2. Len(v) + Len(w) = Len(x) + 1
    BY <1>1, <1>3, <1>5
  <2> QED BY <1>5, <2>1, <2>2
<1>7. InsertAt(x, k, d) = m
  BY DEF InsertAt, u, v, w
<1> HIDE DEF m
<1>8. \A i \in 1 .. k - 1 : m[i] = x[i]
  BY <1>1, <1>5, <1>6
<1>9. m[k] = d
  BY <1>1, <1>5, <1>6
<1>10. ASSUME NEW i \in k .. Len(x) PROVE m[i + 1] = x[i]
  <2>1. i \in Nat /\ i + 1 \in 1 .. Len(x) + 1 /\ ~(i + 1 <= k)
        /\ (i + 1) - k \in 1 .. Len(x) - k + 1 /\ k + ((i + 1) - k) - 1 = i
    BY <1>1
  <2>2. m[i + 1] = w[(i + 1) - k]
    BY <1>6, <2>1
  <2> QED BY <1>3, <2>1, <2>2
<1> QED BY <1>6, <1>7, <1>8, <1>9, <1>10

\* The elements of RemoveAt().
LEMMA RemoveFacts ==
    ASSUME NEW S, NEW x \in Seq(S), NEW k \in 1 .. Len(x)
    PROVE  /\ RemoveAt(x, k) \in Seq(S)
           /\ Len(RemoveAt(x, k)) = Len(x) - 1
           /\ \A i \in 1 .. k - 1 : RemoveAt(x, k)[i] = x[i]
           /\ \A i \in k .. Len(x) - 1 : RemoveAt(x, k)[i] = x[i + 1]
<1> DEFINE u == SubSeq(x, 1, k - 1)
           w == SubSeq(x, k + 1, Len(x))
           m == u \o w
<1>1. Len(x) \in Nat /\ k \in Nat /\ k >= 1 /\ k <= Len(x)
  OBVIOUS
<1>2. u \in Seq(S) /\ Len(u) = k - 1 /\ \A i \in 1 .. k - 1 : u[i] = x[i]
  BY <1>1, SubSeqProperties
<1>3. /\ w \in Seq(S) /\ Len(w) = Len(x) - k
      /\ \A i \in 1 .. Len(x) - k : w[i] = x[k + i]
  BY <1>1, SubSeqProperties
<1> HIDE DEF u, w
<1>4. /\ m \in Seq(S) /\ Len(m) = Len(x) - 1
      /\ \A i \in 1 .. Len(x) - 1 : m[i] = IF i <= k - 1 THEN u[i] ELSE w[i - (k - 1)]
  <2>1. /\ m \in Seq(S) /\ Len(m) = Len(u) + Len(w)
        /\ \A i \in 1 .. Len(u) + Len(w) : m[i] = IF i <= Len(u) THEN u[i] ELSE w[i - Len(u)]
    BY <1>2, <1>3, ConcatProperties
  <2>2. Len(u) + Len(w) = Len(x) - 1
    BY <1>1, <1>2, <1>3
  <2> QED BY <1>2, <2>1, <2>2
<1>5. RemoveAt(x, k) = m
  BY DEF RemoveAt, u, w
<1> HIDE DEF m
<1>6. \A i \in 1 .. k - 1 : m[i] = x[i]
  BY <1>1, <1>2, <1>4
<1>7. ASSUME NEW i \in k .. Len(x) - 1 PROVE m[i] = x[i + 1]
  <2>1. i \in Nat /\ i \in 1 .. Len(x) - 1 /\ ~(i <= k - 1)
        /\ i - (k - 1) \in 1 .. Len(x) - k /\ k + (i - (k - 1)) = i + 1
    BY <1>1
  <2>2. m[i] = w[i - (k - 1)]
    BY <1>4, <2>1
  <2> QED BY <1>3, <2>1, <2>2
<1> QED BY <1>4, <1>5, <1>6, <1>7

\* What was inserted can be removed ...
LEMMA RemoveInsert ==
    ASSUME NEW S, NEW x \in Seq(S), NEW k \in 1 .. Len(x) + 1, NEW d \in S
    PROVE  RemoveAt(InsertAt(x, k, d), k) = x
<1> DEFINE m == InsertAt(x, k, d)
           r == RemoveAt(m, k)
<1>1. /\ m \in Seq(S) /\ Len(m) = Len(x) + 1
      /\ \A i \in 1 .. k - 1 : m[i] = x[i]
      /\ \A i \in k .. Len(x) : m[i + 1] = x[i]
  BY InsertFacts
<1>2. Len(x) \in Nat /\ k \in 1 .. Len(m) /\ k \in Nat
  BY <1>1
<1> HIDE DEF m
<1>3. /\ r \in Seq(S) /\ Len(r) = Len(x)
      /\ \A i \in 1 .. k - 1 : r[i] = m[i]
      /\ \A i \in k .. Len(x) : r[i] = m[i + 1]
  <2>1. Len(m) - 1 = Len(x)
    BY <1>1, <1>2
  <2> QED BY <1>1, <1>2, <2>1, RemoveFacts
<1> HIDE DEF r
<1>4. ASSUME NEW i \in 1 .. Len(x) PROVE r[i] = x[i]
  <2>1. i \in 1 .. k - 1 \/ i \in k .. Len(x)
    BY <1>2
  <2> QED BY <1>1, <1>3, <2>1
<1>5. r = x
  BY <1>3, <1>4, SeqEqual
<1> QED BY <1>5 DEF r, m

\* ... and what was removed put back.
LEMMA InsertRemove ==
    ASSUME NEW S, NEW x \in Seq(S), NEW k \in 1 .. Len(x)
    PROVE  InsertAt(RemoveAt(x, k), k, x[k]) = x
<1> DEFINE r == RemoveAt(x, k)
           m == InsertAt(r, k, x[k])
<1>1. /\ r \in Seq(S) /\ Len(r) = Len(x) - 1
      /\ \A i \in 1 .. k - 1 : r[i] = x[i]
      /\ \A i \in k .. Len(x) - 1 : r[i] = x[i + 1]
  BY RemoveFacts
<1>2. Len(x) \in Nat /\ k \in 1 .. Len(r) + 1 /\ k \in Nat /\ x[k] \in S
  BY <1>1
<1> HIDE DEF r
<1>3. /\ m \in Seq(S) /\ Len(m) = Len(x)
      /\ \A i \in 1 .. k - 1 : m[i] = r[i]
      /\ m[k] = x[k]
      /\ \A i \in k .. Len(x) - 1 : m[i + 1] = r[i]
  <2>1. Len(r) + 1 = Len(x) /\ Len(r) = Len(x) - 1
    BY <1>1, <1>2
  <2>2. /\ m \in Seq(S) /\ Len(m) = Len(r) + 1
        /\ \A i \in 1 .. k - 1 : m[i] = r[i]
        /\ m[k] = x[k]
        /\ \A i \in k .. Len(r) : m[i + 1] = r[i]
    <3>1. PICK e \in S : e = x[k]
      BY <1>2
    <3>2. /\ InsertAt(r, k, e) \in Seq(S) /\ Len(InsertAt(r, k, e)) = Len(r) + 1
          /\ \A i \in 1 .. k - 1 : InsertAt(r, k, e)[i] = r[i]
          /\ InsertAt(r, k, e)[k] = e
          /\ \A i \in k .. Len(r) : InsertAt(r, k, e)[i + 1] = r[i]
      <4>1. r \in Seq(S) /\ k \in 1 .. Len(r) + 1
        BY <1>1, <1>2
      <4> QED BY ONLY <4>1, e \in S, InsertFacts
    <3> QED BY <3>1, <3>2
  <2> HIDE DEF m
  <2> QED BY <2>1, <2>2
<1> HIDE DEF m
<1>4. ASSUME NEW i \in 1 .. Len(x) PROVE m[i] = x[i]
  <2>1. CASE i \in 1 .. k - 1
    BY <1>1, <1>3, <2>1
  <2>2. CASE i = k
    BY <1>3, <2>2
  <2>3. CASE i \in k + 1 .. Len(x)
    <3>1. i - 1 \in k .. Len(x) - 1 /\ (i - 1) + 1 = i
      BY <1>2, <2>3
    <3>2. m[(i - 1) + 1] = r[i - 1] /\ r[i - 1] = x[(i - 1) + 1]
      BY <1>1, <1>3, <3>1
    <3> QED BY <3>1, <3>2
  <2> QED BY <1>2, <2>1, <2>2, <2>3
<1>5. m = x
  BY <1>3, <1>4, SeqEqual
<1> QED BY <1>5 DEF r, m

-----------------------------------------------------------------------------
(*****************************************************************************)
(* Turns                                                                   *)
(*****************************************************************************)

\* The number of elements before one: a strict total order on a finite set
\* gives every element a turn of its own, without gaps.
LEMMA Turns ==
    ASSUME NEW S, IsFiniteSet(S), NEW R,
           \A x \in S : <<x, x>> \notin R,
           \A x, y, z \in S : <<x, y>> \in R /\ <<y, z>> \in R => <<x, z>> \in R,
           \A x, y \in S : x = y \/ <<x, y>> \in R \/ <<y, x>> \in R
    PROVE  LET Turn(x) == Cardinality({y \in S : <<y, x>> \in R})
           IN  /\ Cardinality(S) \in Nat
               /\ \A x, y \in S : Turn(x) = Turn(y) => x = y
               /\ \A x, y \in S : Turn(x) < Turn(y) => <<x, y>> \in R
               /\ \A i \in 1 .. Cardinality(S) : \E x \in S : Turn(x) = i - 1
               /\ \A x \in S : \E i \in 1 .. Cardinality(S) : Turn(x) = i - 1
<1> DEFINE n == Cardinality(S)
           D(x) == {y \in S : <<y, x>> \in R}
           Turn(x) == Cardinality(D(x))
<1>1. n \in Nat
  BY FS_CardinalityType
<1>2. ASSUME NEW x \in S PROVE IsFiniteSet(D(x)) /\ Turn(x) \in Nat /\ Turn(x) < n
  <2>1. D(x) \in SUBSET S /\ x \notin D(x)
    OBVIOUS
  <2> HIDE DEF D
  <2>2. IsFiniteSet(D(x)) /\ Turn(x) \in Nat
    BY <2>1, FS_Subset, FS_CardinalityType
  <2>3. IsFiniteSet(D(x) \cup {x}) /\ Cardinality(D(x) \cup {x}) = Turn(x) + 1
    BY <2>1, <2>2, FS_AddElement
  <2>4. D(x) \cup {x} \in SUBSET S
    BY <2>1
  <2>5. Cardinality(D(x) \cup {x}) <= n
    BY <2>4, FS_Subset
  <2> QED BY <1>1, <2>2, <2>3, <2>5
<1>3. ASSUME NEW x \in S, NEW y \in S, <<x, y>> \in R PROVE Turn(x) < Turn(y)
  <2>1. x \notin D(x) /\ D(x) \cup {x} \in SUBSET D(y)
    BY <1>3
  <2> HIDE DEF D
  <2>2. IsFiniteSet(D(x)) /\ Turn(x) \in Nat /\ IsFiniteSet(D(y)) /\ Turn(y) \in Nat
    BY <1>2
  <2>3. Cardinality(D(x) \cup {x}) = Turn(x) + 1
    BY <2>1, <2>2, FS_AddElement
  <2>4. Cardinality(D(x) \cup {x}) <= Turn(y)
    BY <2>1, <2>2, FS_Subset
  <2> QED BY <2>2, <2>3, <2>4
<1>4. \A x \in S : Turn(x) \in Nat /\ Turn(x) < n
  BY <1>2
<1> HIDE DEF Turn, n
<1>5. \A x, y \in S : Turn(x) = Turn(y) => x = y
  <2> SUFFICES ASSUME NEW x \in S, NEW y \in S, Turn(x) = Turn(y) PROVE x = y
    OBVIOUS
  <2>1. Turn(x) \in Nat /\ Turn(y) \in Nat
    BY <1>4
  <2>2. <<x, y>> \notin R /\ <<y, x>> \notin R
    BY <1>3, <2>1
  <2> QED BY <2>2
<1>6. \A x, y \in S : Turn(x) < Turn(y) => <<x, y>> \in R
  <2> SUFFICES ASSUME NEW x \in S, NEW y \in S, Turn(x) < Turn(y) PROVE <<x, y>> \in R
    OBVIOUS
  <2>1. Turn(x) \in Nat /\ Turn(y) \in Nat
    BY <1>4
  <2>2. x # y
    BY <2>1
  <2>3. <<y, x>> \notin R
    BY <1>3, <2>1
  <2> QED BY <2>2, <2>3
<1> DEFINE f == [x \in S |-> Turn(x) + 1]
<1>7. f \in Injection(S, 1 .. n)
  <2>1. f \in [S -> 1 .. n]
    BY <1>1, <1>4
  <2>2. \A x, y \in S : f[x] = f[y] => x = y
    BY <1>4, <1>5
  <2> HIDE DEF f
  <2> QED BY <2>1, <2>2 DEF Injection, IsInjective
<1>8. IsFiniteSet(1 .. n) /\ Cardinality(1 .. n) = n
  BY <1>1, FS_Interval
<1>9. f \in Surjection(S, 1 .. n)
  BY <1>7, <1>8, FS_Injection DEF n
<1>10. \A i \in 1 .. n : \E x \in S : f[x] = i
  BY <1>9 DEF Surjection
<1>11. \A i \in 1 .. n : \E x \in S : Turn(x) = i - 1
  BY <1>4, <1>10
<1>12. \A x \in S : \E i \in 1 .. n : Turn(x) = i - 1
  <2> TAKE x \in S
  <2>1. Turn(x) \in Nat /\ Turn(x) < n
    BY <1>4
  <2>2. Turn(x) + 1 \in 1 .. n /\ Turn(x) = (Turn(x) + 1) - 1
    BY <1>1, <2>1
  <2> QED BY <2>2
<1> QED BY <1>1, <1>5, <1>6, <1>11, <1>12 DEF Turn, n
=============================================================================
