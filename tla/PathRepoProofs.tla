--------------------------- MODULE PathRepoProofs ---------------------------
(***************************************************************************)
(* Proofs about path_repo.c, for every snapshot interval, cache size, set  *)
(* of paths and number of revisions.                                       *)
(***************************************************************************)
EXTENDS PathRepo, FiniteSetTheorems, TLAPS

(***************************************************************************)
(* The lists of operations                                                 *)
(***************************************************************************)

\* SetToSeq lists exactly the elements of a finite set, each once.
LEMMA SetToSeqRange ==
    ASSUME NEW S, IsFiniteSet(S)
    PROVE  /\ SetToSeq(S) \in Seq(S)
           /\ \A x \in S : \E i \in 1 .. Len(SetToSeq(S)) : SetToSeq(S)[i] = x
           /\ IsInjective(SetToSeq(S))
<1> DEFINE n == Cardinality(S)
           s == SetToSeq(S)
<1>1. n \in Nat /\ ExistsBijection(1 .. n, S)
  BY FS_CardinalityType
<1>2. PICK f \in Bijection(1 .. n, S) : TRUE
  BY <1>1 DEF ExistsBijection
<1>3. f \in [1 .. n -> S] /\ IsInjective(f)
  BY <1>2 DEF Bijection, Injection, IsInjective
<1>4. s \in [1 .. n -> S] /\ IsInjective(s)
  BY <1>3 DEF SetToSeq
<1>5. s \in Injection(1 .. n, S)
  BY <1>4 DEF Injection, IsInjective
<1>6. IsFiniteSet(1 .. n) /\ Cardinality(1 .. n) = n
  <2>1. 1 \in Int /\ n \in Int
    BY <1>1
  <2>2. Cardinality(1 .. n) = IF 1 > n THEN 0 ELSE n - 1 + 1
    BY <2>1, FS_Interval
  <2> QED
    BY <2>1, <2>2, <1>1, FS_Interval
<1>7. s \in Surjection(1 .. n, S)
  BY <1>5, <1>6, FS_Injection
<1>8. \A x \in S : \E i \in 1 .. n : s[i] = x
  BY <1>7 DEF Surjection
<1> QED
  BY <1>1, <1>4, <1>8

\* What the list that path_repo_delete(), pr_encode() and the copies build
\* contains: one operation for each path of the set, and no other.
LEMMA OpsOnFacts ==
    ASSUME NEW S \in SUBSET Path, NEW a \in {"+", "-"}
    PROVE  /\ OpsOn(a, S) \in Seq(Op)
           /\ \A i \in DOMAIN OpsOn(a, S) :
                 OpsOn(a, S)[i].action = a /\ OpsOn(a, S)[i].path \in S
           /\ \A p \in S : \E i \in DOMAIN OpsOn(a, S) : OpsOn(a, S)[i].path = p
           /\ \A i, j \in DOMAIN OpsOn(a, S) :
                 OpsOn(a, S)[i].path = OpsOn(a, S)[j].path => i = j
<1> DEFINE s == SetToSeq(S)
           o == OpsOn(a, S)
<1>1. IsFiniteSet(S)
  BY FiniteAssumption, FS_Subset
<1>2. /\ s \in Seq(S) /\ IsInjective(s)
      /\ \A x \in S : \E i \in 1 .. Len(s) : s[i] = x
  BY <1>1, SetToSeqRange
<1>3. /\ Len(s) \in Nat /\ \A i \in 1 .. Len(s) : s[i] \in S
      /\ \A i, j \in 1 .. Len(s) : s[i] = s[j] => i = j
  BY <1>2 DEF IsInjective
<1>4. o = [i \in 1 .. Len(s) |-> [action |-> a, path |-> s[i]]]
  BY DEF OpsOn
<1> HIDE DEF s, o
<1>5. \A i \in 1 .. Len(s) : [action |-> a, path |-> s[i]] \in Op
  BY <1>3 DEF Op
<1>6. o \in Seq(Op)
  BY <1>3, <1>4, <1>5
<1>7. /\ DOMAIN o = 1 .. Len(s)
      /\ \A i \in 1 .. Len(s) : o[i].action = a /\ o[i].path = s[i]
  BY <1>4
<1>8. /\ \A i \in DOMAIN o : o[i].action = a /\ o[i].path \in S
      /\ \A i, j \in DOMAIN o : o[i].path = o[j].path => i = j
  BY <1>3, <1>7
<1>9. \A p \in S : \E i \in DOMAIN o : o[i].path = p
  BY <1>2, <1>7
<1> QED
  BY <1>6, <1>8, <1>9 DEF o

\* pr_delta_apply() on an empty record: the loop is not entered.
LEMMA ApplyEmpty ==
    ASSUME NEW t \in SUBSET Path
    PROVE  pr_delta_apply(t, <<>>) = t
BY DEF pr_delta_apply, Adds, Touches

\* pr_delta_apply() on a longer record: one more round of the loop.
LEMMA ApplyAppend ==
    ASSUME NEW t \in SUBSET Path, NEW d \in Seq(Op), NEW e \in Op
    PROVE  pr_delta_apply(t, Append(d, e)) =
               IF e.action = "+" THEN pr_delta_apply(t, d) \cup {e.path}
                                 ELSE pr_delta_apply(t, d) \ {e.path}
<1> DEFINE n == Len(d)
           f == Append(d, e)
<1>1. /\ n \in Nat /\ DOMAIN d = 1 .. n /\ DOMAIN f = 1 .. (n + 1)
      /\ f[n + 1] = e
      /\ \A i \in 1 .. n : f[i] = d[i] /\ d[i] \in Op
  OBVIOUS
<1>2. e.path \in Path /\ e.action \in {"+", "-"}
      /\ e = [action |-> e.action, path |-> e.path]
  BY DEF Op
<1> HIDE DEF n, f
<1>3. \A p \in Path : Touches(f, p) <=> Touches(d, p) \/ p = e.path
  BY <1>1 DEF Touches
<1>4. \A p \in Path : p # e.path => (Adds(f, p) <=> Adds(d, p))
  BY <1>1, <1>2 DEF Adds, Op
<1>5. Adds(f, e.path) <=> e.action = "+"
  BY <1>1, <1>2 DEF Adds, Op
<1> QED
  BY <1>2, <1>3, <1>4, <1>5 DEF pr_delta_apply, f

\* A record followed by the same operation on every path of a set.
LEMMA ApplyConcat ==
    ASSUME NEW t \in SUBSET Path, NEW d \in Seq(Op), NEW S \in SUBSET Path,
           NEW a, a = "+" \/ a = "-"
    PROVE  /\ a = "+" => pr_delta_apply(t, d \o OpsOn(a, S)) = pr_delta_apply(t, d) \cup S
           /\ a = "-" => pr_delta_apply(t, d \o OpsOn(a, S)) = pr_delta_apply(t, d) \ S
<1>0. a \in {"+", "-"}
  OBVIOUS
<1> DEFINE n == Len(d)
           o == OpsOn(a, S)
           m == Len(o)
           f == d \o o
<1>1. /\ o \in Seq(Op)
      /\ \A i \in DOMAIN o : o[i].action = a /\ o[i].path \in S
      /\ \A p \in S : \E i \in DOMAIN o : o[i].path = p
      /\ \A i, j \in DOMAIN o : o[i].path = o[j].path => i = j
  BY <1>0, OpsOnFacts
<1> HIDE DEF o
<1>2. /\ n \in Nat /\ m \in Nat
      /\ DOMAIN d = 1 .. n /\ DOMAIN o = 1 .. m /\ DOMAIN f = 1 .. (n + m)
      /\ \A i \in 1 .. n : f[i] = d[i] /\ d[i] \in Op
      /\ \A i \in 1 .. m : f[n + i] = o[i] /\ o[i] \in Op
      /\ f \in Seq(Op)
  BY <1>1
<1> HIDE DEF n, m, f
<1>3. \A i \in 1 .. (n + m) : i \in 1 .. n \/ (i - n \in 1 .. m /\ f[i] = o[i - n])
  BY <1>2
<1>4. \A p \in Path : Touches(f, p) <=> Touches(d, p) \/ p \in S
  <2> TAKE p \in Path
  <2>1. ASSUME Touches(f, p) PROVE Touches(d, p) \/ p \in S
    <3>1. PICK i \in 1 .. (n + m) : f[i].path = p
      BY <1>2, <2>1 DEF Touches
    <3>2. CASE i \in 1 .. n
      BY <1>2, <3>1, <3>2 DEF Touches
    <3>3. CASE i - n \in 1 .. m /\ f[i] = o[i - n]
      BY <1>1, <1>2, <3>1, <3>3
    <3> QED
      BY <1>3, <3>2, <3>3
  <2>2. ASSUME Touches(d, p) PROVE Touches(f, p)
    BY <1>2, <2>2 DEF Touches
  <2>3. ASSUME p \in S PROVE Touches(f, p)
    <3>1. PICK i \in 1 .. m : o[i].path = p
      BY <1>1, <1>2, <2>3
    <3>2. n + i \in DOMAIN f /\ f[n + i].path = p
      BY <1>2, <3>1
    <3> QED
      BY <3>2 DEF Touches
  <2> QED
    BY <2>1, <2>2, <2>3
<1>5. \A p \in Path : p \notin S => (Adds(f, p) <=> Adds(d, p))
  <2> SUFFICES ASSUME NEW p \in Path, p \notin S PROVE Adds(f, p) <=> Adds(d, p)
    OBVIOUS
  <2>1. ASSUME NEW i \in 1 .. (n + m), f[i].path = p PROVE i \in 1 .. n
    <3>1. ASSUME i - n \in 1 .. m, f[i] = o[i - n] PROVE FALSE
      BY <1>1, <1>2, <2>1, <3>1
    <3> QED
      BY <1>3, <3>1
  <2>2. ASSUME Adds(f, p) PROVE Adds(d, p)
    <3>1. PICK i \in 1 .. (n + m) :
            /\ f[i] = [action |-> "+", path |-> p]
            /\ \A j \in 1 .. (n + m) : j > i => f[j].path # p
      BY <1>2, <2>2 DEF Adds
    <3>2. i \in 1 .. n
      BY <2>1, <3>1
    <3> QED
      BY <1>2, <3>1, <3>2 DEF Adds
  <2>3. ASSUME Adds(d, p) PROVE Adds(f, p)
    <3>1. PICK i \in 1 .. n :
            /\ d[i] = [action |-> "+", path |-> p]
            /\ \A j \in 1 .. n : j > i => d[j].path # p
      BY <1>2, <2>3 DEF Adds
    <3>2. i \in 1 .. (n + m) /\ f[i] = [action |-> "+", path |-> p]
      BY <1>2, <3>1
    <3>3. \A j \in 1 .. (n + m) : j > i => f[j].path # p
      BY <1>2, <2>1, <3>1
    <3> QED
      BY <1>2, <3>2, <3>3 DEF Adds
  <2> QED
    BY <2>2, <2>3
<1>6. \A p \in S : Adds(f, p) <=> a = "+"
  <2> TAKE p \in S
  <2>1. PICK i0 \in 1 .. m : o[i0].path = p
    BY <1>1, <1>2
  <2>2. \A j \in 1 .. m : o[j].path = p => j = i0
    BY <1>1, <1>2, <2>1
  <2> DEFINE k == n + i0
  <2>4. /\ k \in 1 .. (n + m) /\ k > n
        /\ f[k].action = a /\ f[k].path = p /\ f[k] \in Op
    <3>1. o[i0].action = a
      BY <1>1, <1>2
    <3>2. f[k] = o[i0] /\ o[i0] \in Op
      BY <1>2
    <3> QED
      BY <1>2, <2>1, <3>1, <3>2
  <2>5. \A j \in 1 .. (n + m) : j > k => f[j].path # p
    BY <1>2, <1>3, <2>1, <2>2
  <2> HIDE DEF k
  <2>6. ASSUME a = "+" PROVE Adds(f, p)
    BY <1>2, <2>4, <2>5, <2>6 DEF Adds, Op
  <2>7. ASSUME Adds(f, p) PROVE a = "+"
    <3>1. PICK i \in 1 .. (n + m) :
            /\ f[i] = [action |-> "+", path |-> p]
            /\ \A j \in 1 .. (n + m) : j > i => f[j].path # p
      BY <1>2, <2>7 DEF Adds
    <3>2. ~(k > i) /\ f[i].path = p
      BY <2>4, <3>1
    <3>3. ~(i > k)
      BY <2>5, <3>2
    <3>4. i = k
      BY <1>2, <2>4, <3>2, <3>3
    <3> QED
      BY <2>4, <3>1, <3>4
  <2> QED
    BY <2>6, <2>7
<1>7. /\ a = "+" => pr_delta_apply(t, f) = pr_delta_apply(t, d) \cup S
      /\ a = "-" => pr_delta_apply(t, f) = pr_delta_apply(t, d) \ S
  BY <1>4, <1>5, <1>6 DEF pr_delta_apply
<1> QED
  BY <1>7 DEF f, o

\* The two cases of it, for additions and for deletions.
LEMMA ApplyAdds ==
    ASSUME NEW t \in SUBSET Path, NEW d \in Seq(Op), NEW S \in SUBSET Path
    PROVE  pr_delta_apply(t, d \o OpsOn("+", S)) = pr_delta_apply(t, d) \cup S
BY ApplyConcat, SMT

LEMMA ApplyDeletes ==
    ASSUME NEW t \in SUBSET Path, NEW d \in Seq(Op), NEW S \in SUBSET Path
    PROVE  pr_delta_apply(t, d \o OpsOn("-", S)) = pr_delta_apply(t, d) \ S
BY ApplyConcat, SMT

(***************************************************************************)
(* Rebuilding a revision                                                   *)
(***************************************************************************)

\* The last snapshot before a revision that is none is that of the revision
\* before it.
LEMMA LastSnapshotStep ==
    ASSUME NEW r \in Nat \ {0}
    PROVE  /\ LastSnapshot(r) \in 0 .. r
           /\ r % SNAPSHOT_INTERVAL = 0 => LastSnapshot(r) = r
           /\ r % SNAPSHOT_INTERVAL # 0 => /\ LastSnapshot(r) = LastSnapshot(r - 1)
                                          /\ LastSnapshot(r) < r
<1> DEFINE I == SNAPSHOT_INTERVAL
<1>1. I \in Nat /\ I > 0
  BY IntervalAssumption
<1>2. r % I \in 0 .. (I - 1) /\ (r - 1) % I \in 0 .. (I - 1)
  BY <1>1
<1>3. r % I # 0 => (r - 1) % I = (r % I) - 1
  <2> DEFINE a == r \div I
             b == (r - 1) \div I
             m == r % I
             k == (r - 1) % I
  <2>1. a \in Int /\ b \in Int /\ m \in 0 .. (I - 1) /\ k \in 0 .. (I - 1)
    BY <1>1
  <2>2. r = I * a + m /\ r - 1 = I * b + k
    BY <1>1
  <2> HIDE DEF a, b, m, k, I
  <2>3. ASSUME m # 0, b < a PROVE FALSE
    <3>1. I * b <= I * (a - 1)
      BY <1>1, <2>1, <2>3
    <3>2. I * (a - 1) = I * a - I
      BY <1>1, <2>1
    <3>3. I * a \in Int /\ I * b \in Int
      BY <1>1, <2>1
    <3> QED
      BY <1>1, <2>1, <2>2, <2>3, <3>1, <3>2, <3>3
  <2>4. ASSUME b > a PROVE FALSE
    <3>1. I * b >= I * (a + 1)
      BY <1>1, <2>1, <2>4
    <3>2. I * (a + 1) = I * a + I
      BY <1>1, <2>1
    <3>3. I * a \in Int /\ I * b \in Int
      BY <1>1, <2>1
    <3> QED
      BY <1>1, <2>1, <2>2, <2>4, <3>1, <3>2, <3>3
  <2>5. m # 0 => b = a
    BY <2>1, <2>3, <2>4
  <2>6. I * a \in Int
    BY <1>1, <2>1
  <2> QED
    BY <2>1, <2>2, <2>5, <2>6 DEF m, k
<1>4. r % I <= r
  BY <1>1
<1> QED
  BY <1>1, <1>2, <1>3, <1>4 DEF LastSnapshot

\* One more round of the loop of pr_reconstruct(): the tree of a revision is
\* that of the revision before it (or, at a snapshot, the empty tree) with
\* the record of the revision, if there is one, applied to it.
LEMMA ReconstructStep ==
    ASSUME NEW store, DOMAIN store \subseteq Nat, NEW r \in Nat \ {0},
           NEW prev, prev = IF r % SNAPSHOT_INTERVAL = 0 THEN {}
                            ELSE pr_reconstruct(store, r - 1)
    PROVE  pr_reconstruct(store, r) =
               IF r \in DOMAIN store THEN pr_delta_apply(prev, store[r]) ELSE prev
<1> DEFINE from == LastSnapshot(r)
           D == DOMAIN store
           In(p, i, k) == /\ i \in D \cap (from .. k)
                          /\ Adds(store[i], p)
                          /\ \A q \in D \cap ((i + 1) .. k) : ~Touches(store[q], p)
<1>1. from \in 0 .. r
  BY LastSnapshotStep
<1>2. pr_reconstruct(store, r) = {p \in Path : \E i \in D : In(p, i, r)}
  BY DEF pr_reconstruct
<1>3. prev = {p \in Path : \E i \in D : In(p, i, r - 1)}
  <2>1. CASE r % SNAPSHOT_INTERVAL = 0
    <3>1. from = r
      BY <2>1, LastSnapshotStep
    <3>2. \A i \in D : i \notin from .. (r - 1)
      BY <3>1
    <3> QED
      BY <2>1, <3>2
  <2>2. CASE r % SNAPSHOT_INTERVAL # 0
    <3>1. from = LastSnapshot(r - 1)
      BY <2>2, LastSnapshotStep
    <3> QED
      BY <2>2, <3>1 DEF pr_reconstruct
  <2> QED
    BY <2>1, <2>2
<1>4. \A p \in Path : \A i \in D :
         i # r => (In(p, i, r) <=> In(p, i, r - 1) /\ (r \in D => ~Touches(store[r], p)))
  <2> SUFFICES ASSUME NEW p \in Path, NEW i \in D, i # r
               PROVE  In(p, i, r) <=> In(p, i, r - 1) /\ (r \in D => ~Touches(store[r], p))
    OBVIOUS
  <2>1. i \in from .. r <=> i \in from .. (r - 1)
    BY <1>1
  <2>2. ASSUME i \in from .. r
        PROVE  \A q \in D : q \in (i + 1) .. r <=> q \in (i + 1) .. (r - 1) \/ q = r
    BY <1>1, <2>2
  <2> QED
    BY <2>1, <2>2
<1>5. \A p \in Path : r \in D => (In(p, r, r) <=> Adds(store[r], p))
  BY <1>1
<1>6. \A p \in Path : r \notin 0 .. (r - 1)
  OBVIOUS
<1> HIDE DEF In
<1>7. \A p \in Path : \A i \in D : In(p, i, r - 1) => i # r
  BY <1>1, <1>6 DEF In
<1>8. CASE r \in D
  <2>1. \A p \in Path : (\E i \in D : In(p, i, r)) <=>
          \/ Adds(store[r], p)
          \/ (\E i \in D : In(p, i, r - 1)) /\ ~Touches(store[r], p)
    BY <1>4, <1>5, <1>7, <1>8
  <2> QED
    BY <1>2, <1>3, <1>8, <2>1 DEF pr_delta_apply
<1>9. CASE r \notin D
  <2>1. \A p \in Path : (\E i \in D : In(p, i, r)) <=> (\E i \in D : In(p, i, r - 1))
    BY <1>4, <1>7, <1>9
  <2> QED
    BY <1>2, <1>3, <1>9, <2>1
<1> QED
  BY <1>8, <1>9

\* Later commits do not change what is rebuilt for a revision: it depends on
\* the records up to the revision only.
LEMMA ReconstructStable ==
    ASSUME NEW r \in Nat, NEW s1, NEW s2,
           DOMAIN s1 \cap (0 .. r) = DOMAIN s2 \cap (0 .. r),
           \A i \in DOMAIN s1 \cap (0 .. r) : s1[i] = s2[i]
    PROVE  pr_reconstruct(s1, r) = pr_reconstruct(s2, r)
<1>1. LastSnapshot(r) \in 0 .. r
  <2>1. CASE r = 0
    BY <2>1, IntervalAssumption DEF LastSnapshot
  <2>2. CASE r # 0
    BY <2>2, LastSnapshotStep
  <2> QED
    BY <2>1, <2>2
<1> DEFINE from == LastSnapshot(r)
           In(s, p, i) == /\ Adds(s[i], p)
                          /\ \A q \in DOMAIN s \cap ((i + 1) .. r) : ~Touches(s[q], p)
<1>2. /\ DOMAIN s1 \cap (from .. r) = DOMAIN s2 \cap (from .. r)
      /\ \A i \in DOMAIN s1 \cap (from .. r) : s1[i] = s2[i]
  <2>1. from .. r \subseteq 0 .. r
    BY <1>1
  <2> QED
    BY <2>1
<1>3. ASSUME NEW p \in Path, NEW i \in DOMAIN s1 \cap (from .. r)
      PROVE  In(s1, p, i) <=> In(s2, p, i)
  <2>1. s1[i] = s2[i]
    BY <1>2
  <2>2. (i + 1) .. r \subseteq 0 .. r
    BY <1>1
  <2>3. /\ DOMAIN s1 \cap ((i + 1) .. r) = DOMAIN s2 \cap ((i + 1) .. r)
        /\ \A q \in DOMAIN s1 \cap ((i + 1) .. r) : s1[q] = s2[q]
    BY <2>2
  <2> QED
    BY <2>1, <2>3, Zenon
<1>4. /\ pr_reconstruct(s1, r) = {p \in Path : \E i \in DOMAIN s1 \cap (from .. r) : In(s1, p, i)}
      /\ pr_reconstruct(s2, r) = {p \in Path : \E i \in DOMAIN s2 \cap (from .. r) : In(s2, p, i)}
  BY DEF pr_reconstruct
<1> HIDE DEF In, from
<1> QED
  BY <1>2, <1>3, <1>4

(***************************************************************************)
(* Type correctness                                                        *)
(***************************************************************************)

\* A rebuilt tree consists of paths.
LEMMA ReconstructType ==
    ASSUME NEW store, NEW r
    PROVE  pr_reconstruct(store, r) \in SUBSET Path
BY DEF pr_reconstruct

\* What a cache hit yields is the content of a slot with the right label.
LEMMA HitSlot ==
    ASSUME NEW r, Hits(r) # {}
    PROVE  \E i \in Slots : cache[i].revision = r /\ pr_tree(r) = cache[i].tree
<1> DEFINE m == CHOOSE i \in Hits(r) : TRUE
<1>1. m \in Hits(r)
  OBVIOUS
<1>2. pr_tree(r) = cache[m].tree
  BY DEF pr_tree
<1> QED
  BY <1>1, <1>2 DEF Hits

\* A lookup or a copy keeps the cache well-formed and yields a set of paths.
LEMMA CacheType ==
    ASSUME TypeOK, NEW r \in Nat, pr_tree_cache(r)
    PROVE  /\ cache' \in [Slots -> [revision : Nat \cup {-1}, tree : SUBSET Path]]
           /\ cache_index' \in Slots
           /\ pr_tree(r) \in SUBSET Path
<1>1. CASE Hits(r) # {}
  <2>1. PICK i \in Slots : pr_tree(r) = cache[i].tree
    BY <1>1, HitSlot
  <2> QED
    BY <1>1, <2>1 DEF TypeOK, pr_tree_cache
<1>2. CASE Hits(r) = {}
  <2> DEFINE e == [revision |-> r, tree |-> pr_reconstruct(db, r)]
  <2>1. pr_tree(r) = pr_reconstruct(db, r) /\ pr_reconstruct(db, r) \in SUBSET Path
    BY <1>2, ReconstructType DEF pr_tree
  <2>2. cache' = [cache EXCEPT ![cache_index] = e]
    BY <1>2 DEF pr_tree_cache
  <2>3. e \in [revision : Nat \cup {-1}, tree : SUBSET Path]
    BY <2>1
  <2>4. cache' \in [Slots -> [revision : Nat \cup {-1}, tree : SUBSET Path]]
    BY <2>2, <2>3 DEF TypeOK
  <2>5. cache_index' \in Slots
    BY <1>2, CacheAssumption DEF pr_tree_cache, TypeOK, Slots
  <2> QED
    BY <2>1, <2>4, <2>5
<1> QED
  BY <1>1, <1>2

\* Scheduling a change keeps delta and tree well-formed.
LEMMA ScheduledType ==
    ASSUME TypeOK, NEW a, NEW p, NEW S \in SUBSET Path, Scheduled(a, p, S)
    PROVE  delta' \in Seq(Op) /\ tree' \in SUBSET Path
<1> DEFINE gone == IF a = "A" THEN {} ELSE pr_tree_to_array(tree, p)
<1>1. gone \in SUBSET Path
  BY DEF TypeOK, pr_tree_to_array
<1>2. OpsOn("-", gone) \in Seq(Op) /\ OpsOn("+", S) \in Seq(Op)
  BY <1>1, OpsOnFacts
<1>3. /\ delta' = (delta \o OpsOn("-", gone)) \o OpsOn("+", S)
      /\ tree' = (tree \ gone) \cup S
  BY DEF Scheduled
<1> HIDE DEF gone
<1> QED
  BY <1>1, <1>2, <1>3 DEF TypeOK

\* A commit stores a well-formed record.
LEMMA CommitType ==
    ASSUME TypeOK, NEW r \in Nat, r >= head, Commit(r)
    PROVE  /\ DOMAIN db' \subseteq 0 .. r
           /\ \A i \in DOMAIN db' : db'[i] \in Seq(Op)
           /\ delta' \in Seq(Op)
<1>1. DOMAIN db \subseteq 0 .. r
  BY DEF TypeOK
<1>2. CASE delta = <<>> /\ ~Snapshot(r)
  BY <1>1, <1>2 DEF Commit, TypeOK
<1>3. CASE ~(delta = <<>> /\ ~Snapshot(r))
  <2>1. OpsOn("+", tree) \in Seq(Op)
    BY OpsOnFacts DEF TypeOK
  <2>2. /\ delta' = <<>>
        /\ db' = [i \in DOMAIN db \cup {r} |->
                    IF i # r THEN db[i]
                    ELSE IF Snapshot(r) THEN OpsOn("+", tree) ELSE delta]
    BY <1>3 DEF Commit, pr_encode
  <2> QED
    BY <1>1, <2>1, <2>2 DEF TypeOK
<1> QED
  BY <1>2, <1>3

\* Every operation of path_repo.c keeps the repository well-formed, in every
\* kind of dump.
LEMMA TypeNext == TypeOK /\ [Next]_vars => TypeOK'
<1> SUFFICES ASSUME TypeOK, [Next]_vars PROVE TypeOK'
  OBVIOUS
<1>0. NoAnswer \in [revision : Nat \cup {-1}, tree : SUBSET Path]
  BY DEF NoAnswer
<1>1. ASSUME NEW p \in Path, path_repo_add(p) PROVE TypeOK'
  <2>1. [action |-> "+", path |-> p] \in Op
    BY DEF Op
  <2> QED
    BY <1>0, <1>1, <2>1 DEF TypeOK, path_repo_add
<1>2. ASSUME NEW p \in Path, path_repo_delete(p) PROVE TypeOK'
  <2>1. pr_tree_to_array(tree, p) \in SUBSET Path
    BY DEF TypeOK, pr_tree_to_array
  <2>2. OpsOn("-", pr_tree_to_array(tree, p)) \in Seq(Op)
    BY <2>1, OpsOnFacts
  <2> QED
    BY <1>0, <1>2, <2>1, <2>2 DEF TypeOK, path_repo_delete
<1>3. ASSUME NEW r \in Nat \cup {-1}, Lookup(r) PROVE TypeOK'
  <2>1. CASE r = -1
    <3>1. [revision |-> r, tree |-> {}] \in [revision : Nat \cup {-1}, tree : SUBSET Path]
      BY <2>1
    <3> QED
      BY <1>3, <2>1, <3>1 DEF TypeOK, Lookup
  <2>2. CASE r \in Nat
    <3>1. pr_tree_cache(r) /\ answer' = [revision |-> r, tree |-> pr_tree(r)]
      BY <1>3, <2>2 DEF Lookup
    <3>2. pr_tree(r) \in SUBSET Path
      BY <2>2, <3>1, CacheType
    <3>3. answer' \in [revision : Nat \cup {-1}, tree : SUBSET Path]
      BY <2>2, <3>1, <3>2
    <3> QED
      BY <1>3, <2>2, <3>1, <3>3, CacheType DEF TypeOK, Lookup
  <2> QED
    BY <2>1, <2>2
<1>4. ASSUME NEW r \in 0 .. MaxRev, path_repo_commit(r) PROVE TypeOK'
  <2>1. r \in Nat /\ r >= head /\ Commit(r)
    BY <1>4, BoundAssumption DEF path_repo_commit, TypeOK
  <2> QED
    BY <1>0, <1>4, <2>1, CommitType DEF TypeOK, path_repo_commit, Commit
<1>5. ASSUME NEW r \in 0 .. MaxRev, path_repo_commit_log(r) PROVE TypeOK'
  BY <1>0, <1>5, BoundAssumption DEF TypeOK, path_repo_commit_log
<1>6. CASE path_repo_discard
  BY <1>0, <1>6, ReconstructType DEF TypeOK, path_repo_discard
<1>7. ASSUME NEW p \in Path, NEW a, log_change(a, p) PROVE TypeOK'
  <2>1. delta' \in Seq(Op) /\ tree' \in SUBSET Path
    <3>1. CASE a = "M"
      BY <1>7, <3>1 DEF log_change, TypeOK
    <3>2. CASE a # "M"
      BY <1>7, <3>2, ScheduledType DEF log_change
    <3> QED
      BY <3>1, <3>2
  <2> QED
    BY <1>0, <1>7, <2>1 DEF TypeOK, log_change, NextChange
<1>8. ASSUME NEW p \in Path, NEW a, log_copy_outside(a, p) PROVE TypeOK'
  <2>1. PICK S \in SUBSET Path : Scheduled(a, p, S)
    BY <1>8 DEF log_copy_outside, Listings, pr_tree_to_array
  <2>2. delta' \in Seq(Op) /\ tree' \in SUBSET Path
    BY <2>1, ScheduledType
  <2> QED
    BY <1>0, <1>8, <2>2 DEF TypeOK, log_copy_outside, NextChange
<1>9. ASSUME NEW p \in Path, NEW a, NEW src, NEW r \in 0 .. head,
             log_copy_inside(a, p, src, r)
      PROVE  TypeOK'
  <2>1. PICK S \in SUBSET Path : Scheduled(a, p, S)
    BY <1>9 DEF log_copy_inside
  <2>2. delta' \in Seq(Op) /\ tree' \in SUBSET Path
    BY <2>1, ScheduledType
  <2>3. r \in Nat /\ pr_tree_cache(r)
    BY <1>9 DEF log_copy_inside, TypeOK
  <2> QED
    BY <1>0, <1>9, <2>2, <2>3, CacheType DEF TypeOK, log_copy_inside, NextChange
<1>10. CASE log_commit
  <2>1. logrev \in Nat /\ logrev >= head /\ Commit(logrev)
    BY <1>10 DEF log_commit, TypeOK
  <2> QED
    BY <1>0, <1>10, <2>1, CommitType DEF TypeOK, log_commit, Commit
<1>11. CASE StartDryRun
  BY <1>0, <1>11 DEF TypeOK, StartDryRun
<1>12. CASE UNCHANGED vars
  BY <1>12 DEF TypeOK, vars
<1>13. ASSUME NEW r \in -1 .. head, path_repo_exists(r) PROVE TypeOK'
  <2>1. r \in Nat \cup {-1}
    BY DEF TypeOK
  <2> QED
    BY <1>3, <1>13, <2>1 DEF path_repo_exists
<1>14. CASE path_repo_exists_in_work
  BY <1>3, <1>14, FirstAssumption DEF path_repo_exists_in_work
<1> QED
  BY <1>1, <1>2, <1>4, <1>5, <1>6, <1>7, <1>8, <1>9, <1>10, <1>11, <1>12,
     <1>13, <1>14 DEF Next

\* path_repo_create() makes a well-formed repository.
LEMMA TypeInit == Init => TypeOK
<1> SUFFICES ASSUME Init PROVE TypeOK
  OBVIOUS
<1>1. \A i \in Slots : [revision |-> -1, tree |-> {}] \in
                          [revision : Nat \cup {-1}, tree : SUBSET Path]
  OBVIOUS
<1>2. cache \in [Slots -> [revision : Nat \cup {-1}, tree : SUBSET Path]]
  BY <1>1 DEF Init
<1>3. 0 \in Slots
  BY CacheAssumption DEF Slots
<1> QED
  BY <1>1, <1>2, <1>3 DEF Init, TypeOK, NoAnswer

\* Type correctness of the path repository: the structure of path_repo_t
\* survives every sequence of calls, for every kind of dump.
THEOREM PathRepoTypeOK == Spec => []TypeOK
BY TypeInit, TypeNext, PTL DEF Spec

(***************************************************************************)
(* The store and the cache                                                 *)
(***************************************************************************)

\* Where the revisions are committed one after the other, which dump() does
\* in the modes "full" and "mid".
Consecutive ==
    /\ mode \in {"full", "mid"}
    /\ phase = "prepare" /\ logrev \in {-1, 0} => delta = <<>>
    /\ logrev # -1 => logrev = head + 1 \/ (logrev = 0 /\ head = 0)

\* The inductive invariant: TreeTracksHead alone is not inductive, because
\* the commit of a log entry (path_repo_commit_log) needs its revision to be
\* the one behind the head, and a copy reads its source through the cache.
Inv == TypeOK /\ Consecutive /\ TreeTracksHead /\ SnapshotsPresent
       /\ CacheCoherent /\ LookupsExact

\* path_repo_commit() stores the working tree under the new revision, whether
\* as a delta, as a snapshot or by storing nothing, and leaves what is
\* rebuilt for the older revisions as it was.
LEMMA CommitReconstruct ==
    ASSUME TypeOK, TreeTracksHead, NEW r \in Nat, Commit(r),
           r = head + 1 \/ (r = 0 /\ head = 0 /\ delta = <<>>)
    PROVE  /\ pr_reconstruct(db', r) = tree
           /\ \A q \in 0 .. head : pr_reconstruct(db', q) = pr_reconstruct(db, q)
           /\ Snapshot(r) => r \in DOMAIN db'
           /\ DOMAIN db \subseteq DOMAIN db'
<1>1. /\ head \in Nat /\ DOMAIN db \subseteq 0 .. head /\ tree \in SUBSET Path
      /\ delta \in Seq(Op)
  BY DEF TypeOK
<1>2. tree = pr_delta_apply(pr_reconstruct(db, head), delta)
  BY DEF TreeTracksHead
<1>3. pr_reconstruct(db, head) \in SUBSET Path
  BY ReconstructType
<1>4. CASE delta = <<>> /\ ~Snapshot(r)
  <2>1. db' = db
    BY <1>4 DEF Commit
  <2>2. tree = pr_reconstruct(db, head)
    BY <1>2, <1>3, <1>4, ApplyEmpty
  <2>3. CASE r = 0 /\ head = 0
    BY <1>4, <2>1, <2>2, <2>3
  <2>4. CASE r = head + 1
    <3>1. r \in Nat \ {0} /\ r - 1 = head /\ r % SNAPSHOT_INTERVAL # 0 /\ r \notin DOMAIN db
      BY <1>1, <1>4, <2>4 DEF Snapshot
    <3>2. DOMAIN db \subseteq Nat
      BY <1>1
    <3>3. pr_reconstruct(db, r) = pr_reconstruct(db, head)
      BY <3>1, <3>2, ReconstructStep
    <3> QED
      BY <1>4, <2>1, <2>2, <3>3
  <2> QED
    BY <1>4, <2>3, <2>4
<1>5. CASE ~(delta = <<>> /\ ~Snapshot(r))
  <2>1. r = head + 1
    BY <1>1, <1>5 DEF Snapshot
  <2>2. db' = [i \in DOMAIN db \cup {r} |->
                 IF i # r THEN db[i]
                 ELSE IF Snapshot(r) THEN OpsOn("+", tree) ELSE delta]
    BY <1>5 DEF Commit, pr_encode
  <2>3. /\ DOMAIN db' = DOMAIN db \cup {r}
        /\ \A i \in DOMAIN db : i # r => db'[i] = db[i]
        /\ db'[r] = IF Snapshot(r) THEN OpsOn("+", tree) ELSE delta
    BY <2>2
  <2>4. ASSUME NEW q \in 0 .. head
        PROVE  pr_reconstruct(db', q) = pr_reconstruct(db, q)
    <3>1. q \in Nat /\ r \notin 0 .. q
      BY <1>1, <2>1
    <3>2. DOMAIN db' \cap (0 .. q) = DOMAIN db \cap (0 .. q)
      BY <2>3, <3>1
    <3>3. \A i \in DOMAIN db' \cap (0 .. q) : db'[i] = db[i]
      BY <2>3, <3>1
    <3> QED
      BY <3>1, <3>2, <3>3, ReconstructStable
  <2>5. r \in Nat \ {0} /\ r - 1 = head /\ DOMAIN db' \subseteq Nat
    BY <1>1, <2>1, <2>3
  <2>6. CASE Snapshot(r)
    <3>1. r % SNAPSHOT_INTERVAL = 0
      BY <2>6 DEF Snapshot
    <3>2. pr_reconstruct(db', r) = pr_delta_apply({}, OpsOn("+", tree))
      BY <2>3, <2>5, <2>6, <3>1, ReconstructStep
    <3>3. pr_delta_apply({}, <<>> \o OpsOn("+", tree)) = pr_delta_apply({}, <<>>) \cup tree
      <4>1. \A d \in Seq(Op) :
              pr_delta_apply({}, d \o OpsOn("+", tree)) = pr_delta_apply({}, d) \cup tree
        BY <1>1, ApplyAdds
      <4>2. <<>> \in Seq(Op)
        OBVIOUS
      <4> QED
        BY <4>1, <4>2, Zenon
    <3>4. <<>> \o OpsOn("+", tree) = OpsOn("+", tree)
      <4>1. OpsOn("+", tree) \in Seq(Op)
        BY <1>1, OpsOnFacts
      <4> QED
        BY <4>1
    <3>5. pr_delta_apply({}, <<>>) = {}
      BY ApplyEmpty
    <3>6. pr_reconstruct(db', r) = tree
      BY <3>2, <3>3, <3>4, <3>5
    <3> QED
      BY <2>3, <2>4, <3>6
  <2>7. CASE ~Snapshot(r)
    <3>1. r % SNAPSHOT_INTERVAL # 0
      BY <2>5, <2>7 DEF Snapshot
    <3>2. pr_reconstruct(db', head) = pr_reconstruct(db, head)
      BY <1>1, <2>4
    <3>3. pr_reconstruct(db', r) = pr_delta_apply(pr_reconstruct(db, head), delta)
      BY <2>3, <2>5, <2>7, <3>1, <3>2, ReconstructStep
    <3> QED
      BY <1>2, <2>3, <2>4, <2>7, <3>3
  <2> QED
    BY <2>6, <2>7
<1> QED
  BY <1>4, <1>5

\* With a coherent cache, a lookup or a copy reads the tree of its revision
\* and leaves the cache coherent.
LEMMA CacheStep ==
    ASSUME TypeOK, CacheCoherent, NEW r \in 0 .. head, pr_tree_cache(r),
           db' = db, head' = head
    PROVE  CacheCoherent' /\ pr_tree(r) = pr_reconstruct(db, r)
<1>1. CASE Hits(r) # {}
  <2>1. PICK i \in Slots : cache[i].revision = r /\ pr_tree(r) = cache[i].tree
    BY <1>1, HitSlot
  <2>2. r # -1
    BY DEF TypeOK
  <2>3. pr_tree(r) = pr_reconstruct(db, r)
    BY <2>1, <2>2 DEF CacheCoherent
  <2> QED
    BY <1>1, <2>3 DEF CacheCoherent, pr_tree_cache
<1>2. CASE Hits(r) = {}
  <2> DEFINE e == [revision |-> r, tree |-> pr_reconstruct(db, r)]
  <2>1. cache' = [cache EXCEPT ![cache_index] = e] /\ cache_index \in Slots
    BY <1>2 DEF pr_tree_cache, TypeOK
  <2>2. \A i \in Slots : cache'[i] = IF i = cache_index THEN e ELSE cache[i]
    BY <2>1 DEF TypeOK
  <2>3. r <= head
    BY DEF TypeOK
  <2>4. ASSUME NEW i \in Slots
        PROVE  \/ cache'[i].revision = -1
               \/ /\ cache'[i].revision <= head'
                  /\ cache'[i].tree = pr_reconstruct(db', cache'[i].revision)
    <3>1. CASE i = cache_index
      BY <2>2, <2>3, <3>1
    <3>2. CASE i # cache_index
      BY <2>2, <3>2 DEF CacheCoherent
    <3> QED
      BY <3>1, <3>2
  <2> QED
    BY <1>2, <2>4 DEF CacheCoherent, pr_tree
<1> QED
  BY <1>1, <1>2

\* Scheduled changes are recorded as they are made: replaying the list gives
\* the working tree.
LEMMA ScheduledTracks ==
    ASSUME TypeOK, TreeTracksHead, NEW a, NEW p, NEW S \in SUBSET Path,
           Scheduled(a, p, S), db' = db, head' = head
    PROVE  TreeTracksHead'
<1> DEFINE gone == IF a = "A" THEN {} ELSE pr_tree_to_array(tree, p)
           base == pr_reconstruct(db, head)
           d1 == delta \o OpsOn("-", gone)
<1>1. gone \in SUBSET Path /\ delta \in Seq(Op)
  BY DEF TypeOK, pr_tree_to_array
<1>2. base \in SUBSET Path
  BY ReconstructType
<1>3. tree = pr_delta_apply(base, delta)
  BY DEF TreeTracksHead
<1>4. delta' = d1 \o OpsOn("+", S) /\ tree' = (tree \ gone) \cup S
  BY DEF Scheduled
<1> HIDE DEF gone, base
<1>5. pr_delta_apply(base, d1) = tree \ gone
  BY <1>1, <1>2, <1>3, ApplyDeletes
<1>6. d1 \in Seq(Op)
  BY <1>1, OpsOnFacts
<1> HIDE DEF d1
<1>7. pr_delta_apply(base, d1 \o OpsOn("+", S)) = (tree \ gone) \cup S
  BY <1>2, <1>5, <1>6, ApplyAdds
<1> QED
  BY <1>4, <1>7 DEF TreeTracksHead, base

\* A commit keeps the store and the cache right.
LEMMA CommitInv ==
    ASSUME Inv, NEW r \in Nat, Commit(r),
           r = head + 1 \/ (r = 0 /\ head = 0 /\ delta = <<>>)
    PROVE  /\ TreeTracksHead' /\ SnapshotsPresent' /\ CacheCoherent'
           /\ LookupsExact' /\ delta' = <<>>
<1>1. /\ pr_reconstruct(db', r) = tree
      /\ \A q \in 0 .. head : pr_reconstruct(db', q) = pr_reconstruct(db, q)
      /\ Snapshot(r) => r \in DOMAIN db'
      /\ DOMAIN db \subseteq DOMAIN db'
  BY CommitReconstruct DEF Inv
<1>2. /\ head' = r /\ tree' = tree /\ cache' = cache /\ delta' = <<>>
      /\ answer' = NoAnswer
  BY DEF Commit
<1>3. TreeTracksHead'
  BY <1>1, <1>2, ApplyEmpty DEF TreeTracksHead, Inv, TypeOK
<1>4. CacheCoherent'
  <2>1. ASSUME NEW i \in Slots, cache[i].revision # -1
        PROVE  /\ cache[i].revision <= r
               /\ cache[i].tree = pr_reconstruct(db', cache[i].revision)
    <3>1. /\ cache[i].revision <= head
          /\ cache[i].tree = pr_reconstruct(db, cache[i].revision)
      BY <2>1 DEF Inv, CacheCoherent
    <3>2. cache[i].revision \in Nat /\ head \in Nat
      BY <2>1 DEF Inv, TypeOK
    <3>3. cache[i].revision \in 0 .. head
      BY <3>1, <3>2
    <3> QED
      BY <1>1, <3>1, <3>2, <3>3
  <2> QED
    BY <1>2, <2>1 DEF CacheCoherent
<1>5. SnapshotsPresent'
  <2>1. \A m \in 1 .. r : m \in 1 .. head \/ m = r
    BY DEF Inv, TypeOK
  <2> QED
    BY <1>1, <1>2, <2>1 DEF SnapshotsPresent, Inv, Snapshot
<1>6. LookupsExact'
  BY <1>2 DEF LookupsExact, NoAnswer, Inv, TypeOK
<1> QED
  BY <1>2, <1>3, <1>4, <1>5, <1>6

\* Operations that neither touch the store nor the cache nor the head.
LEMMA StoreUnchanged ==
    ASSUME Inv, UNCHANGED <<db, head, cache>>, answer' = NoAnswer
    PROVE  SnapshotsPresent' /\ CacheCoherent' /\ LookupsExact'
BY DEF Inv, SnapshotsPresent, CacheCoherent, LookupsExact, NoAnswer, TypeOK

\* The invariant is inductive for dumps that commit consecutively.
LEMMA InvNext == Inv /\ [Next]_vars => Inv'
<1> SUFFICES ASSUME Inv, [Next]_vars PROVE Inv'
  OBVIOUS
<1>0. TypeOK /\ TypeOK'
  BY TypeNext DEF Inv
<1>1. ASSUME NEW p \in Path, path_repo_add(p) PROVE Inv'
  <2> DEFINE e == [action |-> "+", path |-> p]
             base == pr_reconstruct(db, head)
  <2>1. e \in Op /\ e.action = "+" /\ e.path = p
    BY DEF Op
  <2>2. base \in SUBSET Path
    BY ReconstructType
  <2>3. delta' = Append(delta, e) /\ tree' = tree \cup {p} /\ db' = db /\ head' = head
    BY <1>1 DEF path_repo_add
  <2>4. tree = pr_delta_apply(base, delta)
    BY DEF Inv, TreeTracksHead
  <2> HIDE DEF e, base
  <2>5. pr_delta_apply(base, Append(delta, e)) = tree \cup {p}
    BY <1>0, <2>1, <2>2, <2>4, ApplyAppend DEF TypeOK
  <2>6. TreeTracksHead'
    BY <2>3, <2>5 DEF TreeTracksHead, base
  <2>7. SnapshotsPresent' /\ CacheCoherent' /\ LookupsExact'
    BY <1>1, StoreUnchanged DEF path_repo_add
  <2>8. Consecutive'
    BY <1>0, <1>1 DEF path_repo_add, Inv, Consecutive, TypeOK
  <2> QED
    BY <1>0, <2>6, <2>7, <2>8 DEF Inv
<1>2. ASSUME NEW p \in Path, path_repo_delete(p) PROVE Inv'
  <2> DEFINE gone == pr_tree_to_array(tree, p)
             base == pr_reconstruct(db, head)
  <2>1. gone \in SUBSET Path /\ base \in SUBSET Path
    BY <1>0, ReconstructType DEF TypeOK, pr_tree_to_array
  <2>2. /\ delta' = delta \o OpsOn("-", gone) /\ tree' = tree \ gone
        /\ db' = db /\ head' = head
    BY <1>2 DEF path_repo_delete
  <2>3. tree = pr_delta_apply(base, delta)
    BY DEF Inv, TreeTracksHead
  <2> HIDE DEF gone, base
  <2>4. pr_delta_apply(base, delta \o OpsOn("-", gone)) = tree \ gone
    BY <1>0, <2>1, <2>3, ApplyDeletes DEF TypeOK
  <2>5. TreeTracksHead'
    BY <2>2, <2>4 DEF TreeTracksHead, base
  <2>6. SnapshotsPresent' /\ CacheCoherent' /\ LookupsExact'
    BY <1>2, StoreUnchanged DEF path_repo_delete
  <2>7. Consecutive'
    BY <1>2 DEF path_repo_delete, Inv, Consecutive
  <2> QED
    BY <1>0, <2>5, <2>6, <2>7 DEF Inv
<1>3. ASSUME NEW r \in -1 .. head, Lookup(r) PROVE Inv'
  <2>1. db' = db /\ head' = head /\ UNCHANGED <<delta, tree, phase, logrev, mode>>
    BY <1>3 DEF Lookup
  <2>2. TreeTracksHead' /\ SnapshotsPresent' /\ Consecutive'
    BY <2>1 DEF Inv, TreeTracksHead, SnapshotsPresent, Consecutive
  <2>3. CacheCoherent' /\ LookupsExact'
    <3>1. CASE r = -1
      BY <1>0, <1>3, <2>1, <3>1 DEF Lookup, Inv, CacheCoherent, LookupsExact, TypeOK
    <3>2. CASE r \in 0 .. head
      <4>1. pr_tree_cache(r) /\ answer' = [revision |-> r, tree |-> pr_tree(r)]
        BY <1>0, <1>3, <3>2 DEF Lookup, TypeOK
      <4>2. CacheCoherent' /\ pr_tree(r) = pr_reconstruct(db, r)
        BY <1>0, <2>1, <3>2, <4>1, CacheStep DEF Inv
      <4> QED
        BY <2>1, <4>1, <4>2 DEF LookupsExact
    <3> QED
      BY <1>0, <3>1, <3>2 DEF TypeOK
  <2> QED
    BY <1>0, <2>2, <2>3 DEF Inv
<1>4. ASSUME NEW r \in 0 .. MaxRev, path_repo_commit(r) PROVE Inv'
  <2>1. /\ r \in Nat /\ Commit(r)
        /\ r = head + 1 \/ (r = 0 /\ head = 0 /\ delta = <<>>)
    BY <1>4, BoundAssumption DEF path_repo_commit
  <2>2. Consecutive'
    BY <1>0, <1>4, <2>1 DEF path_repo_commit, Commit, Inv, Consecutive, TypeOK
  <2> QED
    BY <1>0, <2>1, <2>2, CommitInv DEF Inv
<1>5. ASSUME NEW r \in 0 .. MaxRev, path_repo_commit_log(r) PROVE Inv'
  <2>1. UNCHANGED <<db, delta, tree, head, cache, phase, mode>> /\ answer' = NoAnswer
    BY <1>5 DEF path_repo_commit_log
  <2>2. TreeTracksHead'
    BY <2>1 DEF Inv, TreeTracksHead
  <2>3. Consecutive'
    BY <1>0, <1>5, <2>1 DEF path_repo_commit_log, Inv, Consecutive, TypeOK
  <2> QED
    BY <1>0, <2>1, <2>2, <2>3, StoreUnchanged DEF Inv
<1>6. CASE path_repo_discard
  <2>1. UNCHANGED <<db, head, cache>> /\ answer' = NoAnswer /\ delta' = <<>>
        /\ tree' = pr_reconstruct(db, head)
    BY <1>6 DEF path_repo_discard
  <2>2. TreeTracksHead'
    BY <2>1, ReconstructType, ApplyEmpty DEF TreeTracksHead
  <2>3. Consecutive'
    BY <1>0, <1>6 DEF path_repo_discard, Inv, Consecutive, TypeOK
  <2> QED
    BY <1>0, <2>1, <2>2, <2>3, StoreUnchanged DEF Inv
<1>7. ASSUME NEW p \in Path, NEW a, log_change(a, p) PROVE Inv'
  <2>1. UNCHANGED <<db, head, cache, phase, logrev, mode>> /\ answer' = NoAnswer /\ logrev > 0
    BY <1>7 DEF log_change, NextChange
  <2>2. TreeTracksHead'
    <3>1. CASE a = "M"
      BY <1>7, <2>1, <3>1 DEF log_change, Inv, TreeTracksHead
    <3>2. CASE a # "M"
      BY <1>0, <1>7, <2>1, <3>2, ScheduledTracks DEF log_change, Inv
    <3> QED
      BY <3>1, <3>2
  <2>3. Consecutive'
    BY <1>0, <2>1 DEF Inv, Consecutive, TypeOK
  <2> QED
    BY <1>0, <2>1, <2>2, <2>3, StoreUnchanged DEF Inv
<1>8. ASSUME NEW p \in Path, NEW a, log_copy_outside(a, p) PROVE Inv'
  <2>1. UNCHANGED <<db, head, cache, phase, logrev, mode>> /\ answer' = NoAnswer /\ logrev > 0
    BY <1>8 DEF log_copy_outside, NextChange
  <2>2. PICK S \in SUBSET Path : Scheduled(a, p, S)
    BY <1>8 DEF log_copy_outside, Listings, pr_tree_to_array
  <2>3. TreeTracksHead'
    BY <1>0, <2>1, <2>2, ScheduledTracks DEF Inv
  <2>4. Consecutive'
    BY <1>0, <2>1 DEF Inv, Consecutive, TypeOK
  <2> QED
    BY <1>0, <2>1, <2>3, <2>4, StoreUnchanged DEF Inv
<1>9. ASSUME NEW p \in Path, NEW a, NEW src, NEW r \in 0 .. head,
             log_copy_inside(a, p, src, r)
      PROVE  Inv'
  <2>1. /\ db' = db /\ head' = head /\ UNCHANGED <<phase, logrev, mode>>
        /\ answer' = NoAnswer /\ logrev > 0 /\ pr_tree_cache(r)
    BY <1>9 DEF log_copy_inside, NextChange
  <2>2. PICK S \in SUBSET Path : Scheduled(a, p, S)
    BY <1>9 DEF log_copy_inside
  <2>3. TreeTracksHead'
    BY <1>0, <2>1, <2>2, ScheduledTracks DEF Inv
  <2>4. Consecutive'
    BY <1>0, <2>1 DEF Inv, Consecutive, TypeOK
  <2>5. CacheCoherent'
    BY <1>0, <2>1, CacheStep DEF Inv
  <2>6. SnapshotsPresent' /\ LookupsExact'
    BY <2>1 DEF Inv, SnapshotsPresent, LookupsExact, NoAnswer
  <2> QED
    BY <1>0, <2>3, <2>4, <2>5, <2>6 DEF Inv
<1>10. CASE log_commit
  <2>1. /\ logrev \in Nat /\ Commit(logrev)
        /\ logrev = head + 1 \/ (logrev = 0 /\ head = 0 /\ delta = <<>>)
    BY <1>0, <1>10 DEF log_commit, Inv, Consecutive, TypeOK
  <2>2. /\ TreeTracksHead' /\ SnapshotsPresent' /\ CacheCoherent'
        /\ LookupsExact' /\ delta' = <<>>
    BY <2>1, CommitInv
  <2>3. Consecutive'
    BY <1>10, <2>2 DEF log_commit, Commit, Inv, Consecutive
  <2> QED
    BY <1>0, <2>2, <2>3 DEF Inv
<1>11. CASE StartDryRun
  <2>1. UNCHANGED <<db, delta, tree, head, cache, logrev, mode>> /\ answer' = NoAnswer
    BY <1>11 DEF StartDryRun
  <2>2. TreeTracksHead' /\ Consecutive'
    BY <1>11, <2>1 DEF Inv, TreeTracksHead, Consecutive, StartDryRun
  <2> QED
    BY <1>0, <2>1, <2>2, StoreUnchanged DEF Inv
<1>12. CASE UNCHANGED vars
  BY <1>0, <1>12 DEF vars, Inv, TreeTracksHead, SnapshotsPresent, CacheCoherent,
                     LookupsExact, Consecutive
<1>13. ASSUME NEW r \in -1 .. head, path_repo_exists(r) PROVE Inv'
  BY <1>3, <1>13 DEF path_repo_exists
<1>14. CASE path_repo_exists_in_work
  BY <1>14 DEF path_repo_exists_in_work, Inv, Consecutive
<1> QED
  BY <1>1, <1>2, <1>4, <1>5, <1>6, <1>7, <1>8, <1>9, <1>10, <1>11, <1>12,
     <1>13, <1>14 DEF Next

\* The empty repository satisfies the invariant.
LEMMA InvInit ==
    ASSUME Modes \subseteq {"full", "mid"}, Init, TypeOK
    PROVE  Inv
<1>1. pr_reconstruct(db, head) = {}
  BY DEF Init, pr_reconstruct
<1>2. TreeTracksHead
  BY <1>1, ApplyEmpty DEF Init, TreeTracksHead
<1>3. Consecutive
  BY DEF Init, Consecutive
<1>4. CacheCoherent /\ SnapshotsPresent /\ LookupsExact
  BY DEF Init, CacheCoherent, SnapshotsPresent, LookupsExact, NoAnswer
<1> QED
  BY <1>2, <1>3, <1>4 DEF Inv

\* In a dump that commits its revisions one after the other (path_repo_commit
\* from dump(), or path_repo_commit_log for every revision up to the start)
\* the file plus the scheduled changes always give the working tree, so that
\* path_repo_discard() restores the head and snapshots are exact.
THEOREM StoreCorrect ==
    ASSUME Modes \subseteq {"full", "mid"}
    PROVE  Spec => [](TreeTracksHead /\ SnapshotsPresent)
<1>1. Init => Inv
  BY InvInit, TypeInit
<1>2. Inv => TreeTracksHead /\ SnapshotsPresent
  BY DEF Inv
<1> QED
  BY <1>1, <1>2, InvNext, PTL DEF Spec

\* In such a dump no cache slot of pr_tree() is ever stale, and every lookup
\* is answered from the tree that was committed for its revision.
THEOREM CacheCorrect ==
    ASSUME Modes \subseteq {"full", "mid"}
    PROVE  Spec => [](CacheCoherent /\ LookupsExact)
<1>1. Init => Inv
  BY InvInit, TypeInit
<1>2. Inv => CacheCoherent /\ LookupsExact
  BY DEF Inv
<1> QED
  BY <1>1, <1>2, InvNext, PTL DEF Spec

(***************************************************************************)
(* Refinement of the abstract versioned tree                               *)
(***************************************************************************)

\* The trees of the committed revisions, as the refinement mapping has them.
Hist == [r \in 0 .. head |-> pr_reconstruct(db, r)]

\* A commit appends the working tree to the history and changes nothing else.
LEMMA CommitRefines ==
    ASSUME Inv, NEW r \in Nat, Commit(r),
           r = head + 1 \/ (r = 0 /\ head = 0 /\ delta = <<>>)
    PROVE  VT!Commit
<1>1. /\ pr_reconstruct(db', r) = tree
      /\ \A q \in 0 .. head : pr_reconstruct(db', q) = pr_reconstruct(db, q)
  BY CommitReconstruct DEF Inv
<1>2. head' = r /\ tree' = tree /\ answer' = NoAnswer /\ head \in Nat
  BY DEF Commit, Inv, TypeOK
<1>3. r = head => tree = pr_reconstruct(db, head)
  BY <1>1, <1>2
<1>4. head \in 0 .. head
  BY <1>2
<1>5. \A q \in 0 .. r : q \in 0 .. head \/ q = r
  BY <1>2
<1>6. [q \in 0 .. head' |-> pr_reconstruct(db', q)] =
      [q \in 0 .. head' |-> IF q <= head THEN Hist[q]
                           ELSE IF q < head' THEN Hist[head] ELSE tree]
  <2>1. ASSUME NEW q \in 0 .. r
        PROVE  pr_reconstruct(db', q) = IF q <= head THEN Hist[q]
                                        ELSE IF q < r THEN Hist[head] ELSE tree
    BY <1>1, <1>2, <1>5, <2>1 DEF Hist
  <2> QED
    BY <1>2, <2>1
<1> QED
  BY <1>2, <1>3, <1>4, <1>6 DEF VT!Commit, VT!NoAnswer, NoAnswer, Hist

\* Scheduling touches the working tree only.
LEMMA ScheduleRefines ==
    ASSUME TypeOK', db' = db, head' = head, answer' = NoAnswer
    PROVE  VT!Schedule
BY DEF VT!Schedule, VT!NoAnswer, NoAnswer, TypeOK

\* A lookup changes the cache, which the abstract tree does not have, and
\* returns what the history holds.
LEMMA LookupRefines ==
    ASSUME Inv, NEW r \in -1 .. head, Lookup(r)
    PROVE  VT!Lookup(r)
<1>1. db' = db /\ head' = head /\ tree' = tree /\ head \in Nat
  BY DEF Lookup, Inv, TypeOK
<1>2. CASE r = -1
  BY <1>1, <1>2 DEF Lookup, VT!Lookup
<1>3. CASE r \in 0 .. head
  <2>1. ~(r < 0)
    BY <1>1, <1>3
  <2>2. pr_tree_cache(r) /\ answer' = [revision |-> r, tree |-> pr_tree(r)]
    BY <2>1 DEF Lookup
  <2>3. pr_tree(r) = pr_reconstruct(db, r)
    BY <1>1, <1>3, <2>2, CacheStep DEF Inv
  <2> QED
    BY <1>1, <1>3, <2>1, <2>2, <2>3 DEF VT!Lookup
<1> QED
  BY <1>1, <1>2, <1>3

\* Every step of the path repository is a step of the versioned tree, or
\* leaves it as it is.
LEMMA StepRefines == Inv /\ [Next]_vars => [VT!VTNext]_VT!vtvars
<1> SUFFICES ASSUME Inv, [Next]_vars PROVE VT!VTNext \/ UNCHANGED VT!vtvars
  OBVIOUS
<1>0. TypeOK /\ TypeOK'
  BY TypeNext DEF Inv
<1>1. ASSUME NEW p \in Path, path_repo_add(p) PROVE VT!Schedule
  BY <1>0, <1>1, ScheduleRefines DEF path_repo_add
<1>2. ASSUME NEW p \in Path, path_repo_delete(p) PROVE VT!Schedule
  BY <1>0, <1>2, ScheduleRefines DEF path_repo_delete
<1>3. ASSUME NEW r \in 0 .. MaxRev, path_repo_commit(r) PROVE VT!Commit
  BY <1>3, BoundAssumption, CommitRefines DEF path_repo_commit
<1>4. ASSUME NEW r \in 0 .. MaxRev, path_repo_commit_log(r) PROVE VT!Schedule
  BY <1>0, <1>4, ScheduleRefines DEF path_repo_commit_log
<1>5. ASSUME path_repo_discard PROVE VT!Discard
  <2>1. head \in 0 .. head
    BY <1>0 DEF TypeOK
  <2> QED
    BY <1>5, <2>1 DEF path_repo_discard, VT!Discard, VT!NoAnswer, NoAnswer
<1>6. ASSUME NEW p \in Path, NEW a, log_change(a, p) PROVE VT!Schedule
  BY <1>0, <1>6, ScheduleRefines DEF log_change, NextChange
<1>7. ASSUME NEW p \in Path, NEW a, log_copy_outside(a, p) PROVE VT!Schedule
  BY <1>0, <1>7, ScheduleRefines DEF log_copy_outside, NextChange
<1>8. ASSUME NEW p \in Path, NEW a, NEW src, NEW r, log_copy_inside(a, p, src, r)
      PROVE  VT!Schedule
  BY <1>0, <1>8, ScheduleRefines DEF log_copy_inside, NextChange
<1>9. ASSUME log_commit PROVE VT!Commit
  <2>1. /\ logrev \in Nat /\ Commit(logrev)
        /\ logrev = head + 1 \/ (logrev = 0 /\ head = 0 /\ delta = <<>>)
    BY <1>0, <1>9 DEF log_commit, Inv, Consecutive, TypeOK
  <2> QED
    BY <2>1, CommitRefines
<1>10. ASSUME StartDryRun PROVE VT!Schedule
  BY <1>0, <1>10, ScheduleRefines DEF StartDryRun
<1>11. CASE UNCHANGED vars
  BY <1>11 DEF vars, VT!vtvars
<1>12. ASSUME NEW r \in -1 .. head, path_repo_exists(r) PROVE VT!Lookup(r)
  BY <1>12, LookupRefines DEF path_repo_exists
<1>13. CASE path_repo_exists_in_work
  BY <1>13 DEF path_repo_exists_in_work, Inv, Consecutive
<1>14. CASE \E p \in Path : path_repo_add(p) \/ path_repo_delete(p)
  BY <1>1, <1>2, <1>14 DEF VT!VTNext
<1>15. CASE \E r \in 0 .. MaxRev : path_repo_commit(r) \/ path_repo_commit_log(r)
  BY <1>3, <1>4, <1>15 DEF VT!VTNext
<1>16. CASE \E r \in -1 .. head : path_repo_exists(r)
  BY <1>12, <1>16 DEF VT!VTNext
<1>17. CASE \E p \in Path :
              \/ \E a \in {"A", "D", "R", "M"} : log_change(a, p)
              \/ \E a \in {"A", "R"} : log_copy_outside(a, p)
              \/ \E a \in {"A", "R"}, src \in Path, r \in 0 .. head :
                    log_copy_inside(a, p, src, r)
  BY <1>6, <1>7, <1>8, <1>17 DEF VT!VTNext
<1> QED
  BY <1>5, <1>9, <1>10, <1>11, <1>13, <1>14, <1>15, <1>16, <1>17 DEF Next, VT!VTNext

\* In a dump that commits consecutively the path repository implements the
\* versioned tree that path_repo.h promises: committed trees are immutable,
\* a commit stores the working tree, a discard returns to the head, lookups
\* are exact.
THEOREM PathRepoRefinesVersionedTree ==
    ASSUME Modes \subseteq {"full", "mid"}
    PROVE  Spec => ImplementsVersionedTree
<1>1. Init => Inv
  BY InvInit, TypeInit
<1>2. Init => VT!VTInit
  <2> SUFFICES ASSUME Init PROVE VT!VTInit
    OBVIOUS
  <2>1. \A r \in 0 .. head : pr_reconstruct(db, r) = {}
    BY DEF Init, pr_reconstruct
  <2> QED
    BY <2>1 DEF Init, VT!VTInit, VT!NoAnswer, NoAnswer
<1> QED
  BY <1>1, <1>2, InvNext, StepRefines, PTL DEF Spec, ImplementsVersionedTree, VT!VTSpec
=============================================================================
