---------------------------- MODULE CritBitProofs ---------------------------
(***************************************************************************)
(* Proofs about CritBit.tla, for any strings and prefixes.                 *)
(*                                                                         *)
(* The invariant Good(tree) says that the addresses form a binary tree, in *)
(* which inner nodes have two children and leaves none, that an inner node *)
(* splits the strings below it (Splits, which is SplitsAtFirstDifference), *)
(* and that the places nodes split at come in order on every way down      *)
(* (Ordered).  The last one is what lets a node be put in at the first     *)
(* place that is later than its own, and what lets the walk stop at the    *)
(* first node beyond the prefix.                                           *)
(*                                                                         *)
(* Nothing is proved by induction on the depth of the tree: a descent is   *)
(* the set of nodes it comes by (Way), which is linear because two nodes   *)
(* that are not above each other are separated by a fork (Forks), and ends *)
(* at a leaf because its longest address cannot be that of an inner node.  *)
(***************************************************************************)
EXTENDS CritBit, Lemmas

-----------------------------------------------------------------------------
(*****************************************************************************)
(* Addresses                                                               *)
(*****************************************************************************)

Addr == Seq({0, 1})

\* Where the node at x goes if a node is put above a and a becomes its child d.
Moved(a, d, x) == InsertAt(x, Len(a) + 1, d)

\* Addresses are sequences of numbers.
LEMMA AddrNat == \A x \in Addr : x \in Seq(Nat) /\ Len(x) \in Nat
                               /\ \A i \in 1 .. Len(x) : x[i] \in {0, 1}
<1>1. Seq({0, 1}) \subseteq Seq(Nat)
  BY SeqMonotonic
<1> QED BY <1>1 DEF Addr

\* The letters of an address that has moved.
LEMMA MovedAt ==
    ASSUME NEW a \in Addr, NEW x \in Addr, NEW d \in {0, 1}, IsPrefix(a, x)
    PROVE  /\ Moved(a, d, x) \in Addr
           /\ Len(Moved(a, d, x)) = Len(x) + 1
           /\ \A i \in 1 .. Len(a) : Moved(a, d, x)[i] = x[i]
           /\ Moved(a, d, x)[Len(a) + 1] = d
           /\ \A i \in Len(a) + 1 .. Len(x) : Moved(a, d, x)[i + 1] = x[i]
           /\ RemoveAt(Moved(a, d, x), Len(a) + 1) = x
<1> DEFINE k == Len(a) + 1
<1>1. Len(a) \in Nat /\ Len(x) \in Nat /\ Len(a) <= Len(x)
  BY AddrNat, PrefixAt
<1>2. k \in 1 .. Len(x) + 1 /\ k - 1 = Len(a) /\ k = Len(a) + 1
  BY <1>1
<1> HIDE DEF k
<1>3. /\ InsertAt(x, k, d) \in Seq({0, 1})
      /\ Len(InsertAt(x, k, d)) = Len(x) + 1
      /\ \A i \in 1 .. k - 1 : InsertAt(x, k, d)[i] = x[i]
      /\ InsertAt(x, k, d)[k] = d
      /\ \A i \in k .. Len(x) : InsertAt(x, k, d)[i + 1] = x[i]
  <2>1. x \in Seq({0, 1}) /\ k \in 1 .. Len(x) + 1
    BY <1>2 DEF Addr
  <2> QED BY ONLY <2>1, d \in {0, 1}, InsertFacts
<1>4. RemoveAt(InsertAt(x, k, d), k) = x
  BY <1>2, RemoveInsert DEF Addr
<1> QED BY <1>2, <1>3, <1>4 DEF Moved, Addr

\* What moves stays below the node it was below.
LEMMA MovedUnder ==
    ASSUME NEW a \in Addr, NEW x \in Addr, NEW d \in {0, 1}, IsPrefix(a, x)
    PROVE  IsStrictPrefix(a, Moved(a, d, x))
<1> DEFINE m == Moved(a, d, x)
<1>1. /\ m \in Addr /\ Len(m) = Len(x) + 1
      /\ \A i \in 1 .. Len(a) : m[i] = x[i]
  BY MovedAt
<1> HIDE DEF m
<1>2. /\ Len(a) \in Nat /\ Len(x) \in Nat /\ Len(a) <= Len(x)
      /\ \A i \in 1 .. Len(a) : a[i] = x[i]
  BY AddrNat, PrefixAt
<1>3. Len(a) < Len(m)
  BY <1>1, <1>2
<1>4. IsStrictPrefix(a, m)
  BY <1>1, <1>2, <1>3, AddrNat, StrictAt
<1> QED BY <1>4 DEF m

\* Of two nodes that move, the upper one stays the upper one, and the lower
\* one is still reached in the same direction.
LEMMA MovedBoth ==
    ASSUME NEW a \in Addr, NEW x \in Addr, NEW y \in Addr, NEW d \in {0, 1},
           IsPrefix(a, x), IsPrefix(a, y)
    PROVE  /\ IsPrefix(Moved(a, d, x), Moved(a, d, y)) <=> IsPrefix(x, y)
           /\ IsStrictPrefix(Moved(a, d, x), Moved(a, d, y)) <=> IsStrictPrefix(x, y)
           /\ IsStrictPrefix(x, y) => Moved(a, d, y)[Len(Moved(a, d, x)) + 1] = y[Len(x) + 1]
<1> DEFINE m == Moved(a, d, x)
           n == Moved(a, d, y)
<1>1. /\ m \in Addr /\ Len(m) = Len(x) + 1
      /\ \A i \in 1 .. Len(a) : m[i] = x[i]
      /\ m[Len(a) + 1] = d
      /\ \A i \in Len(a) + 1 .. Len(x) : m[i + 1] = x[i]
      /\ RemoveAt(m, Len(a) + 1) = x
  BY MovedAt
<1>2. /\ n \in Addr /\ Len(n) = Len(y) + 1
      /\ \A i \in 1 .. Len(a) : n[i] = y[i]
      /\ n[Len(a) + 1] = d
      /\ \A i \in Len(a) + 1 .. Len(y) : n[i + 1] = y[i]
      /\ RemoveAt(n, Len(a) + 1) = y
  BY MovedAt
<1> HIDE DEF m, n
<1>3. /\ Len(a) \in Nat /\ Len(x) \in Nat /\ Len(a) <= Len(x)
      /\ Len(y) \in Nat /\ Len(a) <= Len(y)
      /\ \A i \in 1 .. Len(a) : a[i] = x[i]
      /\ \A i \in 1 .. Len(a) : a[i] = y[i]
  BY AddrNat, PrefixAt
<1>4. IsPrefix(m, n) <=> Len(m) <= Len(n) /\ \A i \in 1 .. Len(m) : m[i] = n[i]
  BY <1>1, <1>2, AddrNat, PrefixAt
<1>5. IsPrefix(x, y) <=> Len(x) <= Len(y) /\ \A i \in 1 .. Len(x) : x[i] = y[i]
  BY AddrNat, PrefixAt
<1>6. Len(m) <= Len(n) <=> Len(x) <= Len(y)
  BY <1>1, <1>2, <1>3
<1>7. ASSUME Len(x) <= Len(y), \A i \in 1 .. Len(x) : x[i] = y[i],
             NEW i \in 1 .. Len(m)
      PROVE  m[i] = n[i]
  <2>1. CASE i \in 1 .. Len(a)
    <3>1. i \in 1 .. Len(x)
      BY <1>3, <2>1
    <3> QED BY <1>1, <1>2, <1>7, <2>1, <3>1
  <2>2. CASE i = Len(a) + 1
    BY <1>1, <1>2, <2>2
  <2>3. CASE i \in Len(a) + 2 .. Len(m)
    <3>1. /\ i - 1 \in Len(a) + 1 .. Len(x) /\ (i - 1) + 1 = i
          /\ i - 1 \in Len(a) + 1 .. Len(y) /\ i - 1 \in 1 .. Len(x)
      BY <1>1, <1>3, <1>7, <2>3
    <3>2. m[(i - 1) + 1] = x[i - 1] /\ n[(i - 1) + 1] = y[i - 1] /\ x[i - 1] = y[i - 1]
      BY <1>1, <1>2, <1>7, <3>1
    <3> QED BY <3>1, <3>2
  <2> QED BY <1>1, <1>3, <2>1, <2>2, <2>3
<1>8. ASSUME Len(m) <= Len(n), \A i \in 1 .. Len(m) : m[i] = n[i],
             NEW i \in 1 .. Len(x)
      PROVE  x[i] = y[i]
  <2>1. CASE i \in 1 .. Len(a)
    BY <1>3, <2>1
  <2>2. CASE i \in Len(a) + 1 .. Len(x)
    <3>1. i + 1 \in 1 .. Len(m) /\ i \in Len(a) + 1 .. Len(y)
      BY <1>1, <1>2, <1>3, <1>6, <1>8, <2>2
    <3> QED BY <1>1, <1>2, <1>8, <2>2, <3>1
  <2> QED BY <1>3, <2>1, <2>2
<1>9. IsPrefix(m, n) <=> IsPrefix(x, y)
  BY <1>4, <1>5, <1>6, <1>7, <1>8
<1>10. m = n <=> x = y
  BY <1>1, <1>2 DEF m, n
<1>11. IsStrictPrefix(m, n) <=> IsStrictPrefix(x, y)
  BY <1>9, <1>10 DEF IsStrictPrefix
<1>12. IsStrictPrefix(x, y) => n[Len(m) + 1] = y[Len(x) + 1]
  <2> SUFFICES ASSUME IsStrictPrefix(x, y) PROVE n[Len(m) + 1] = y[Len(x) + 1]
    OBVIOUS
  <2>1. Len(x) < Len(y)
    BY AddrNat, StrictAt
  <2>2. Len(x) + 1 \in Len(a) + 1 .. Len(y)
    BY <1>3, <2>1
  <2> QED BY <1>1, <1>2, <2>2
<1> QED BY <1>9, <1>11, <1>12 DEF m, n

\* A node that does not move is above the same nodes, in the same direction,
\* and below none that does.
LEMMA MovedOne ==
    ASSUME NEW a \in Addr, NEW x \in Addr, NEW b \in Addr, NEW d \in {0, 1},
           IsPrefix(a, x), ~IsPrefix(a, b)
    PROVE  /\ IsStrictPrefix(b, Moved(a, d, x)) <=> IsStrictPrefix(b, x)
           /\ IsStrictPrefix(b, x) => /\ IsStrictPrefix(b, a)
                                      /\ Moved(a, d, x)[Len(b) + 1] = x[Len(b) + 1]
                                      /\ x[Len(b) + 1] = a[Len(b) + 1]
           /\ ~IsPrefix(Moved(a, d, x), b)
           /\ ~IsPrefix(x, b)
<1> DEFINE m == Moved(a, d, x)
<1>1. /\ m \in Addr /\ Len(m) = Len(x) + 1
      /\ \A i \in 1 .. Len(a) : m[i] = x[i]
  BY MovedAt
<1>2. IsStrictPrefix(a, m)
  BY MovedUnder
<1> HIDE DEF m
<1>3. /\ Len(a) \in Nat /\ Len(x) \in Nat /\ Len(a) <= Len(x) /\ Len(b) \in Nat
      /\ \A i \in 1 .. Len(a) : a[i] = x[i]
  BY AddrNat, PrefixAt
<1>4. ~IsPrefix(m, b) /\ ~IsPrefix(x, b)
  <2>1. IsPrefix(a, m)
    BY <1>2 DEF IsStrictPrefix
  <2> QED BY <1>1, <2>1, AddrNat, PrefixTrans
<1>5. ASSUME NEW z \in Addr, IsPrefix(a, z), IsStrictPrefix(b, z)
      PROVE  IsStrictPrefix(b, a) /\ Len(b) < Len(a)
  <2>1. IsPrefix(b, a)
    BY <1>5, AddrNat, PrefixLinear DEF IsStrictPrefix
  <2>2. b # a
    BY AddrNat, PrefixSelf
  <2>3. IsStrictPrefix(b, a)
    BY <2>1, <2>2 DEF IsStrictPrefix
  <2> QED BY <2>3, AddrNat, StrictAt
<1>6. ASSUME IsStrictPrefix(b, a) PROVE IsStrictPrefix(b, m) /\ IsStrictPrefix(b, x)
  <2>1. Len(b) < Len(a) /\ \A i \in 1 .. Len(b) : b[i] = a[i]
    BY <1>6, AddrNat, StrictAt
  <2>2. Len(b) < Len(m) /\ Len(b) < Len(x)
    BY <1>1, <1>3, <2>1
  <2>3. \A i \in 1 .. Len(b) : i \in 1 .. Len(a)
    BY <1>3, <2>1
  <2>4. \A i \in 1 .. Len(b) : b[i] = m[i] /\ b[i] = x[i]
    BY <1>1, <1>3, <2>1, <2>3
  <2> QED BY <1>1, <2>2, <2>4, AddrNat, StrictAt
<1>7. IsStrictPrefix(b, m) <=> IsStrictPrefix(b, x)
  BY <1>1, <1>2, <1>5, <1>6 DEF IsStrictPrefix
<1>8. ASSUME IsStrictPrefix(b, x)
      PROVE  /\ IsStrictPrefix(b, a)
             /\ m[Len(b) + 1] = x[Len(b) + 1] /\ x[Len(b) + 1] = a[Len(b) + 1]
  <2>1. IsStrictPrefix(b, a) /\ Len(b) < Len(a)
    BY <1>5, <1>8
  <2>2. Len(b) + 1 \in 1 .. Len(a)
    BY <1>3, <2>1
  <2> QED BY <1>1, <1>3, <2>1, <2>2
<1> QED BY <1>4, <1>7, <1>8 DEF m

\* The new leaf is beside the nodes that move, and below what the old node is
\* below.
LEMMA BesideFacts ==
    ASSUME NEW a \in Addr, NEW d \in {0, 1}
    PROVE  /\ Append(a, d) \in Addr /\ Len(Append(a, d)) = Len(a) + 1
           /\ Append(a, d)[Len(a) + 1] = d
           /\ IsStrictPrefix(a, Append(a, d))
           /\ \A b \in Addr : IsStrictPrefix(b, Append(a, d)) <=> IsPrefix(b, a)
           /\ \A b \in Addr : IsStrictPrefix(b, a) => Append(a, d)[Len(b) + 1] = a[Len(b) + 1]
           /\ \A z \in Addr : IsPrefix(Append(a, d), z) <=>
                                IsStrictPrefix(a, z) /\ z[Len(a) + 1] = d
<1> DEFINE c == Append(a, d)
<1>1. /\ c \in Addr /\ Len(c) = Len(a) + 1
      /\ \A i \in 1 .. Len(a) : c[i] = a[i]
      /\ c[Len(a) + 1] = d
  BY AppendAt DEF Addr
<1> HIDE DEF c
<1>2. Len(a) \in Nat
  BY AddrNat
<1>3. IsStrictPrefix(a, c)
  <2>1. Len(a) < Len(c)
    BY <1>1, <1>2
  <2> QED BY <1>1, <2>1, AddrNat, StrictAt
<1>4. ASSUME NEW b \in Addr PROVE IsStrictPrefix(b, c) <=> IsPrefix(b, a)
  <2>1. Len(b) \in Nat
    BY AddrNat
  <2>2. IsStrictPrefix(b, c) <=> Len(b) < Len(c) /\ \A i \in 1 .. Len(b) : b[i] = c[i]
    BY <1>1, AddrNat, StrictAt
  <2>3. IsPrefix(b, a) <=> Len(b) <= Len(a) /\ \A i \in 1 .. Len(b) : b[i] = a[i]
    BY AddrNat, PrefixAt
  <2>4. Len(b) < Len(c) <=> Len(b) <= Len(a)
    BY <1>1, <1>2, <2>1
  <2>5. Len(b) <= Len(a) => \A i \in 1 .. Len(b) : i \in 1 .. Len(a)
    BY <1>2, <2>1
  <2>6. Len(b) <= Len(a) => \A i \in 1 .. Len(b) : c[i] = a[i]
    BY <1>1, <2>5
  <2> QED BY <2>2, <2>3, <2>4, <2>6
<1>5. ASSUME NEW b \in Addr, IsStrictPrefix(b, a) PROVE c[Len(b) + 1] = a[Len(b) + 1]
  <2>1. Len(b) \in Nat /\ Len(b) < Len(a)
    BY <1>5, AddrNat, StrictAt
  <2>2. Len(b) + 1 \in 1 .. Len(a)
    BY <1>2, <2>1
  <2> QED BY <1>1, <2>2
<1>6. ASSUME NEW z \in Addr
      PROVE  IsPrefix(c, z) <=> IsStrictPrefix(a, z) /\ z[Len(a) + 1] = d
  <2>1. Len(z) \in Nat
    BY AddrNat
  <2>2. IsPrefix(c, z) <=> Len(c) <= Len(z) /\ \A i \in 1 .. Len(c) : c[i] = z[i]
    BY <1>1, AddrNat, PrefixAt
  <2>3. IsStrictPrefix(a, z) <=> Len(a) < Len(z) /\ \A i \in 1 .. Len(a) : a[i] = z[i]
    BY AddrNat, StrictAt
  <2>4. Len(c) <= Len(z) <=> Len(a) < Len(z)
    BY <1>1, <1>2, <2>1
  <2>5. \A i : i \in 1 .. Len(c) <=> i \in 1 .. Len(a) \/ i = Len(a) + 1
    BY <1>1, <1>2
  <2> QED BY <1>1, <2>2, <2>3, <2>4, <2>5
<1> QED BY <1>1, <1>3, <1>4, <1>5, <1>6 DEF c

\* An address that is not the root's is that of a child.
LEMMA FrontAt ==
    ASSUME NEW x \in Addr, x # <<>>
    PROVE  /\ Front(x) \in Addr /\ Len(x) = Len(Front(x)) + 1
           /\ Last(x) \in {0, 1} /\ x[Len(x)] = Last(x)
           /\ x = Append(Front(x), Last(x))
<1>1. Len(x) \in Nat /\ Len(x) # 0
  BY DEF Addr
<1> DEFINE n == Len(x) - 1
           f == SubSeq(x, 1, n)
<1>2. n \in Nat /\ n <= Len(x) /\ Len(x) = n + 1
  BY <1>1
<1> HIDE DEF n
<1>3. f \in Addr /\ Len(f) = n /\ \A i \in 1 .. n : f[i] = x[i]
  BY <1>2, SubSeqProperties DEF Addr
<1>4. f = Front(x)
  BY DEF Front, n
<1> HIDE DEF f
<1>5. Last(x) \in {0, 1} /\ x[Len(x)] = Last(x)
  BY <1>1 DEF Last, Addr
<1> DEFINE c == Append(f, Last(x))
<1>6. /\ c \in Addr /\ Len(c) = n + 1
      /\ \A i \in 1 .. n : c[i] = f[i]
      /\ c[n + 1] = Last(x)
  BY <1>3, <1>5, AppendAt DEF Addr
<1> HIDE DEF c
<1>7. ASSUME NEW i \in 1 .. Len(x) PROVE c[i] = x[i]
  <2>1. i \in 1 .. n \/ i = n + 1
    BY <1>2
  <2> QED BY <1>2, <1>3, <1>5, <1>6, <2>1
<1>8. x = c
  BY <1>2, <1>6, <1>7, SeqEqual DEF Addr
<1> QED BY <1>2, <1>3, <1>4, <1>5, <1>8 DEF c

-----------------------------------------------------------------------------
(*****************************************************************************)
(* Bytes, bits and places                                                  *)
(*****************************************************************************)

Bytes == Seq(1 .. 255)

Bit(n, b) == (n \div 2^b) % 2

\* Direction() looks at a bit of a byte.
LEMMA DirectionBit == \A s, B, b : Direction(s, B, b) = Bit(ByteAt(s, B), b)
BY DEF Direction, Bit

\* The bits of a byte.
LEMMA BitOf ==
    ASSUME NEW n \in 0 .. 255
    PROVE  /\ Bit(n, 0) = n % 2 /\ Bit(n, 1) = (n \div 2) % 2
           /\ Bit(n, 2) = (n \div 4) % 2 /\ Bit(n, 3) = (n \div 8) % 2
           /\ Bit(n, 4) = (n \div 16) % 2 /\ Bit(n, 5) = (n \div 32) % 2
           /\ Bit(n, 6) = (n \div 64) % 2 /\ Bit(n, 7) = (n \div 128) % 2
<1>1. /\ 2^0 = 1 /\ 2^1 = 2 /\ 2^2 = 4 /\ 2^3 = 8
      /\ 2^4 = 16 /\ 2^5 = 32 /\ 2^6 = 64 /\ 2^7 = 128
  OBVIOUS
<1>2. n \div 1 = n
  OBVIOUS
<1> QED BY <1>1, <1>2 DEF Bit

\* A bit is 0 or 1.
LEMMA BitType == \A n \in 0 .. 255 : \A b \in 0 .. 7 : Bit(n, b) \in {0, 1}
<1> TAKE n \in 0 .. 255
<1> TAKE b \in 0 .. 7
<1>1. b = 0 \/ b = 1 \/ b = 2 \/ b = 3 \/ b = 4 \/ b = 5 \/ b = 6 \/ b = 7
  OBVIOUS
<1>2. n % 2 \in {0, 1} /\ (n \div 2) % 2 \in {0, 1} /\ (n \div 4) % 2 \in {0, 1}
      /\ (n \div 8) % 2 \in {0, 1}
  OBVIOUS
<1>3. (n \div 16) % 2 \in {0, 1} /\ (n \div 32) % 2 \in {0, 1}
      /\ (n \div 64) % 2 \in {0, 1} /\ (n \div 128) % 2 \in {0, 1}
  OBVIOUS
<1> QED BY <1>1, <1>2, <1>3, BitOf

\* A byte is the sum of its bits.
LEMMA BitSum ==
    ASSUME NEW n \in 0 .. 255
    PROVE  n = Bit(n, 0) + 2 * Bit(n, 1) + 4 * Bit(n, 2) + 8 * Bit(n, 3)
               + 16 * Bit(n, 4) + 32 * Bit(n, 5) + 64 * Bit(n, 6) + 128 * Bit(n, 7)
<1>1. n \in Int /\ n >= 0 /\ n <= 255
  OBVIOUS
<1>2. n = 2 * (n \div 2) + (n % 2)
  BY <1>1
<1>3. n \div 2 = 2 * (n \div 4) + ((n \div 2) % 2)
  BY <1>1
<1>4. n \div 4 = 2 * (n \div 8) + ((n \div 4) % 2)
  BY <1>1
<1>5. n \div 8 = 2 * (n \div 16) + ((n \div 8) % 2)
  BY <1>1
<1>6. n \div 16 = 2 * (n \div 32) + ((n \div 16) % 2)
  BY <1>1
<1>7. n \div 32 = 2 * (n \div 64) + ((n \div 32) % 2)
  BY <1>1
<1>8. n \div 64 = 2 * (n \div 128) + ((n \div 64) % 2)
  BY <1>1
<1>9. n \div 128 = (n \div 128) % 2
  BY <1>1
<1>10. n = (n % 2) + 2 * ((n \div 2) % 2) + 4 * ((n \div 4) % 2) + 8 * ((n \div 8) % 2)
           + 16 * ((n \div 16) % 2) + 32 * ((n \div 32) % 2) + 64 * ((n \div 64) % 2)
           + 128 * ((n \div 128) % 2)
  BY <1>1, <1>2, <1>3, <1>4, <1>5, <1>6, <1>7, <1>8, <1>9
<1> QED BY <1>10, BitOf

\* Of two bytes, the one with the highest bit that differs is greater.
LEMMA BitLess ==
    ASSUME NEW m \in 0 .. 255, NEW n \in 0 .. 255, NEW b \in 0 .. 7,
           \A c \in b + 1 .. 7 : Bit(m, c) = Bit(n, c),
           Bit(m, b) = 0, Bit(n, b) = 1
    PROVE  m < n
<1> DEFINE x(i) == Bit(m, i)
           y(i) == Bit(n, i)
<1>1. m \in Int /\ n \in Int
  OBVIOUS
<1>2. /\ x(0) \in {0, 1} /\ x(1) \in {0, 1} /\ x(2) \in {0, 1} /\ x(3) \in {0, 1}
      /\ x(4) \in {0, 1} /\ x(5) \in {0, 1} /\ x(6) \in {0, 1} /\ x(7) \in {0, 1}
  BY BitType
<1>3. /\ y(0) \in {0, 1} /\ y(1) \in {0, 1} /\ y(2) \in {0, 1} /\ y(3) \in {0, 1}
      /\ y(4) \in {0, 1} /\ y(5) \in {0, 1} /\ y(6) \in {0, 1} /\ y(7) \in {0, 1}
  BY BitType
<1>4. m = x(0) + 2 * x(1) + 4 * x(2) + 8 * x(3)
          + 16 * x(4) + 32 * x(5) + 64 * x(6) + 128 * x(7)
  BY BitSum
<1>5. n = y(0) + 2 * y(1) + 4 * y(2) + 8 * y(3)
          + 16 * y(4) + 32 * y(5) + 64 * y(6) + 128 * y(7)
  BY BitSum
<1>6. x(b) = 0 /\ y(b) = 1 /\ \A c \in b + 1 .. 7 : x(c) = y(c)
  OBVIOUS
<1> HIDE DEF x, y
<1>7. b = 0 \/ b = 1 \/ b = 2 \/ b = 3 \/ b = 4 \/ b = 5 \/ b = 6 \/ b = 7
  OBVIOUS
<1>8. CASE b = 0
  BY <1>1, <1>2, <1>3, <1>4, <1>5, <1>6, <1>8
<1>9. CASE b = 1
  BY <1>1, <1>2, <1>3, <1>4, <1>5, <1>6, <1>9
<1>10. CASE b = 2
  BY <1>1, <1>2, <1>3, <1>4, <1>5, <1>6, <1>10
<1>11. CASE b = 3
  BY <1>1, <1>2, <1>3, <1>4, <1>5, <1>6, <1>11
<1>12. CASE b = 4
  BY <1>1, <1>2, <1>3, <1>4, <1>5, <1>6, <1>12
<1>13. CASE b = 5
  BY <1>1, <1>2, <1>3, <1>4, <1>5, <1>6, <1>13
<1>14. CASE b = 6
  BY <1>1, <1>2, <1>3, <1>4, <1>5, <1>6, <1>14
<1>15. CASE b = 7
  BY <1>1, <1>2, <1>3, <1>4, <1>5, <1>6, <1>15
<1> QED BY <1>7, <1>8, <1>9, <1>10, <1>11, <1>12, <1>13, <1>14, <1>15

\* Different bytes differ in a bit.
LEMMA BitsDiffer ==
    ASSUME NEW m \in 0 .. 255, NEW n \in 0 .. 255, m # n
    PROVE  \E b \in 0 .. 7 : Bit(m, b) # Bit(n, b)
<1> SUFFICES ASSUME \A b \in 0 .. 7 : Bit(m, b) = Bit(n, b) PROVE m = n
  OBVIOUS
<1>1. /\ Bit(m, 0) = Bit(n, 0) /\ Bit(m, 1) = Bit(n, 1) /\ Bit(m, 2) = Bit(n, 2)
      /\ Bit(m, 3) = Bit(n, 3) /\ Bit(m, 4) = Bit(n, 4) /\ Bit(m, 5) = Bit(n, 5)
      /\ Bit(m, 6) = Bit(n, 6) /\ Bit(m, 7) = Bit(n, 7)
  OBVIOUS
<1>2. m = Bit(m, 0) + 2 * Bit(m, 1) + 4 * Bit(m, 2) + 8 * Bit(m, 3)
          + 16 * Bit(m, 4) + 32 * Bit(m, 5) + 64 * Bit(m, 6) + 128 * Bit(m, 7)
  BY BitSum
<1>3. n = Bit(n, 0) + 2 * Bit(n, 1) + 4 * Bit(n, 2) + 8 * Bit(n, 3)
          + 16 * Bit(n, 4) + 32 * Bit(n, 5) + 64 * Bit(n, 6) + 128 * Bit(n, 7)
  BY BitSum
<1> QED BY ONLY <1>1, <1>2, <1>3

\* A byte is 0 behind the end of the string only.
LEMMA ByteAtType ==
    ASSUME NEW s \in Bytes, NEW B \in Nat
    PROVE  /\ ByteAt(s, B) \in 0 .. 255
           /\ ByteAt(s, B) = 0 <=> B >= Len(s)
           /\ B < Len(s) => ByteAt(s, B) = s[B + 1]
           /\ Len(s) \in Nat
<1>1. Len(s) \in Nat
  BY DEF Bytes
<1>2. CASE B < Len(s)
  <2>1. B + 1 \in 1 .. Len(s)
    BY <1>1, <1>2
  <2>2. s[B + 1] \in 1 .. 255
    BY <2>1, ElementOfSeq DEF Bytes
  <2>3. ByteAt(s, B) = s[B + 1] /\ ~(B >= Len(s))
    BY <1>1, <1>2 DEF ByteAt
  <2>4. s[B + 1] \in 0 .. 255 /\ s[B + 1] # 0
    BY <2>2
  <2> QED BY <1>1, <2>3, <2>4
<1>3. CASE ~(B < Len(s))
  BY <1>1, <1>3 DEF ByteAt
<1> QED BY <1>2, <1>3

\* A direction is an index into child[].
LEMMA DirectionType ==
    \A s \in Bytes : \A B \in Nat : \A b \in 0 .. 7 : Direction(s, B, b) \in {0, 1}
BY ByteAtType, BitType, DirectionBit

-----------------------------------------------------------------------------
\* One place is before another one.
Before(byte1, bit1, byte2, bit2) ==
    byte1 < byte2 \/ (byte1 = byte2 /\ bit1 > bit2)

\* To agree up to a place is an equivalence, ...
LEMMA AgreeSym ==
    ASSUME NEW s, NEW t, NEW B, NEW b, AgreeUpTo(s, t, B, b)
    PROVE  AgreeUpTo(t, s, B, b)
BY DEF AgreeUpTo

\* ... which is reflexive ...
LEMMA AgreeSelf == \A s, B, b : AgreeUpTo(s, s, B, b)
BY DEF AgreeUpTo

\* ... and transitive.
LEMMA AgreeTrans ==
    ASSUME NEW s, NEW t, NEW u, NEW B, NEW b,
           AgreeUpTo(s, t, B, b), AgreeUpTo(t, u, B, b)
    PROVE  AgreeUpTo(s, u, B, b)
BY DEF AgreeUpTo

\* Strings that agree up to a place agree at all places before.
LEMMA AgreeBefore ==
    ASSUME NEW s, NEW t, NEW B \in Nat, NEW b \in 0 .. 7, NEW C \in Nat, NEW c \in 0 .. 7,
           AgreeUpTo(s, t, B, b), Before(C, c, B, b)
    PROVE  AgreeUpTo(s, t, C, c) /\ Direction(s, C, c) = Direction(t, C, c)
<1>1. C < B \/ (C = B /\ c > b)
  BY DEF Before
<1>2. \A i \in 0 .. C - 1 : i \in 0 .. B - 1
  BY <1>1
<1>3. \A i \in 0 .. C - 1 : ByteAt(s, i) = ByteAt(t, i)
  BY <1>2 DEF AgreeUpTo
<1>4. CASE C < B
  <2>1. C \in 0 .. B - 1
    BY <1>4
  <2>2. ByteAt(s, C) = ByteAt(t, C)
    BY <2>1 DEF AgreeUpTo
  <2>3. \A e : Direction(s, C, e) = Direction(t, C, e)
    BY <2>2, DirectionBit
  <2> QED BY <1>3, <2>3 DEF AgreeUpTo
<1>5. CASE C = B /\ c > b
  <2>1. \A e \in c .. 7 : e \in b + 1 .. 7
    BY <1>5
  <2>2. \A e \in c .. 7 : Direction(s, C, e) = Direction(t, C, e)
    BY <1>5, <2>1 DEF AgreeUpTo
  <2>3. c \in c .. 7 /\ \A e \in c + 1 .. 7 : e \in c .. 7
    OBVIOUS
  <2> QED BY <1>3, <2>2, <2>3 DEF AgreeUpTo
<1> QED BY <1>1, <1>4, <1>5

\* Two strings differ first where cb_tree_insert() finds them to.
LEMMA FirstDifference ==
    ASSUME NEW s \in Bytes, NEW t \in Bytes, s # t
    PROVE  LET B == FirstByte(s, t)
               b == HighestBit(s, t, B)
           IN  /\ B \in Nat /\ b \in 0 .. 7
               /\ AgreeUpTo(s, t, B, b)
               /\ Direction(s, B, b) # Direction(t, B, b)
<1> DEFINE S == {i \in 0 .. Len(s) : ByteAt(s, i) # ByteAt(t, i)}
           B == FirstByte(s, t)
           T == {c \in 0 .. 7 : Direction(s, B, c) # Direction(t, B, c)}
           b == HighestBit(s, t, B)
<1>1. Len(s) \in Nat /\ Len(t) \in Nat
  BY DEF Bytes
<1>2. S # {}
  <2> SUFFICES ASSUME S = {} PROVE FALSE
    OBVIOUS
  <2>1. \A i \in 0 .. Len(s) : ByteAt(s, i) = ByteAt(t, i)
    OBVIOUS
  <2>2. Len(s) \in 0 .. Len(s)
    BY <1>1
  <2>3. ByteAt(s, Len(s)) = 0
    BY <1>1, ByteAtType
  <2>4. Len(s) >= Len(t)
    BY <1>1, <2>1, <2>2, <2>3, ByteAtType
  <2>5. ~(Len(t) < Len(s))
    <3> SUFFICES ASSUME Len(t) < Len(s) PROVE FALSE
      OBVIOUS
    <3>1. Len(t) \in 0 .. Len(s) /\ ~(Len(t) >= Len(s))
      BY <1>1
    <3>2. ByteAt(t, Len(t)) = 0 /\ ByteAt(s, Len(t)) # 0
      BY <1>1, <3>1, ByteAtType
    <3> QED BY <2>1, <3>1, <3>2
  <2>6. Len(s) = Len(t)
    BY <1>1, <2>4, <2>5
  <2>7. ASSUME NEW i \in 1 .. Len(s) PROVE s[i] = t[i]
    <3>1. i - 1 \in Nat /\ i - 1 \in 0 .. Len(s) /\ i - 1 < Len(s) /\ i - 1 < Len(t)
          /\ (i - 1) + 1 = i
      BY <1>1, <2>6
    <3>2. ByteAt(s, i - 1) = s[(i - 1) + 1] /\ ByteAt(t, i - 1) = t[(i - 1) + 1]
      BY <3>1 DEF ByteAt
    <3>3. ByteAt(s, i - 1) = ByteAt(t, i - 1)
      BY <2>1, <3>1
    <3> QED BY <3>1, <3>2, <3>3
  <2>8. s = t
    BY <2>6, <2>7, SeqEqual DEF Bytes
  <2> QED BY <2>8
<1>3. S \in SUBSET Nat
  BY <1>1
<1>4. B \in S /\ \A i \in S : B <= i
  <2> HIDE DEF S
  <2>1. Min(S) \in S /\ \A i \in S : Min(S) <= i
    BY <1>2, <1>3, MinFacts
  <2> QED BY <2>1 DEF FirstByte, S
<1>5. B \in Nat /\ B <= Len(s) /\ ByteAt(s, B) # ByteAt(t, B)
  BY <1>1, <1>4
<1>6. ASSUME NEW i \in 0 .. B - 1 PROVE ByteAt(s, i) = ByteAt(t, i)
  <2>1. i \in 0 .. Len(s) /\ ~(B <= i)
    BY <1>1, <1>5
  <2>2. i \notin S
    BY <1>4, <2>1
  <2> QED BY <2>1, <2>2
<1> HIDE DEF S, B
<1>7. T # {}
  <2>1. PICK c \in 0 .. 7 : Bit(ByteAt(s, B), c) # Bit(ByteAt(t, B), c)
    BY <1>5, ByteAtType, BitsDiffer
  <2> QED BY <2>1, DirectionBit
<1>8. b \in T /\ \A c \in T : c <= b
  <2>1. T \in SUBSET Int /\ \A c \in T : c <= 7
    OBVIOUS
  <2> HIDE DEF T
  <2>2. Max(T) \in T /\ \A c \in T : c <= Max(T)
    <3>1. 7 \in Int
      OBVIOUS
    <3> QED BY ONLY <1>7, <2>1, <3>1, MaxFacts
  <2> QED BY <2>2 DEF HighestBit, T
<1>9. b \in 0 .. 7 /\ Direction(s, B, b) # Direction(t, B, b)
  BY <1>8
<1>10. ASSUME NEW c \in b + 1 .. 7 PROVE Direction(s, B, c) = Direction(t, B, c)
  <2>1. c \in 0 .. 7 /\ ~(c <= b)
    BY <1>9
  <2> QED BY <1>8, <2>1
<1>11. B \in Nat /\ b \in 0 .. 7 /\ AgreeUpTo(s, t, B, b)
       /\ Direction(s, B, b) # Direction(t, B, b)
  BY <1>5, <1>6, <1>9, <1>10 DEF AgreeUpTo
<1> QED BY <1>11 DEF B

-----------------------------------------------------------------------------
(***************************************************************************)
(* The inductive invariant                                                 *)
(***************************************************************************)

LeafNode == [leaf : {TRUE}, str : Bytes]
InnerNode == [leaf : {FALSE}, byte : Nat, bit : 0 .. 7]

\* Addresses are finitely many and of bounded length, there is a root, and
\* whatever is not the root has a parent.
Shape(t) ==
    /\ DOMAIN t \subseteq Addr
    /\ IsFiniteSet(DOMAIN t)
    /\ \E n \in Nat : \A x \in DOMAIN t : Len(x) <= n
    /\ \A x \in DOMAIN t : t[x] \in LeafNode \cup InnerNode
    /\ DOMAIN t # {} => <<>> \in DOMAIN t
    /\ \A x \in DOMAIN t : x # <<>> => Front(x) \in DOMAIN t

\* Nodes that are not above each other are in different directions of a third.
Forks(t) ==
    \A x, y \in DOMAIN t :
        \/ IsPrefix(x, y) \/ IsPrefix(y, x)
        \/ \E c \in DOMAIN t : /\ IsStrictPrefix(c, x) /\ IsStrictPrefix(c, y)
                               /\ x[Len(c) + 1] # y[Len(c) + 1]

\* Nothing is below a leaf, and an inner node has two children.
LeavesEnd(t) == \A x, y \in DOMAIN t : IsStrictPrefix(x, y) => ~t[x].leaf
Branches(t) ==
    \A x \in DOMAIN t : ~t[x].leaf => \A d \in {0, 1} : Append(x, d) \in DOMAIN t

\* SplitsAtFirstDifference, for any tree.
Splits(t) ==
    \A p, x, y \in DOMAIN t :
        IsStrictPrefix(p, x) /\ IsStrictPrefix(p, y) /\ t[x].leaf /\ t[y].leaf =>
            /\ Direction(t[x].str, t[p].byte, t[p].bit) = x[Len(p) + 1]
            /\ AgreeUpTo(t[x].str, t[y].str, t[p].byte, t[p].bit)

\* Places come in order on every way down.
Ordered(t) ==
    \A p, q \in DOMAIN t :
        IsStrictPrefix(p, q) /\ ~t[q].leaf =>
            Before(t[p].byte, t[p].bit, t[q].byte, t[q].bit)

Good(t) ==
    Shape(t) /\ Forks(t) /\ LeavesEnd(t) /\ Branches(t) /\ Splits(t) /\ Ordered(t)

\* The strings of a tree.
Strings(t) == {t[x].str : x \in {y \in DOMAIN t : t[y].leaf}}

\* What is known of a node, ...
LEMMA NodeTypes ==
    ASSUME Good(tree), NEW x \in Nodes
    PROVE  /\ x \in Addr /\ x \in Seq(Nat) /\ Len(x) \in Nat
           /\ tree[x].leaf \in BOOLEAN
           /\ tree[x].leaf => tree[x].str \in Bytes /\ tree[x] = Leaf(tree[x].str)
           /\ ~tree[x].leaf => tree[x].byte \in Nat /\ tree[x].bit \in 0 .. 7
<1>1. x \in Addr /\ tree[x] \in LeafNode \cup InnerNode
  BY DEF Good, Shape, Nodes
<1>2. x \in Seq(Nat) /\ Len(x) \in Nat
  BY <1>1, AddrNat
<1> QED BY <1>1, <1>2 DEF LeafNode, InnerNode, Leaf

\* ... and of one that has others below it.
LEMMA NodeAbove ==
    ASSUME Good(tree), NEW p \in Nodes, NEW x \in Nodes, IsStrictPrefix(p, x)
    PROVE  ~tree[p].leaf /\ tree[p].byte \in Nat /\ tree[p].bit \in 0 .. 7
BY NodeTypes DEF Good, LeavesEnd, Nodes

-----------------------------------------------------------------------------
(***************************************************************************)
(* The walk from the root to a leaf                                        *)
(***************************************************************************)

\* The way comes by everything above what it comes by,
LEMMA WayUp ==
    ASSUME Good(tree), NEW s, NEW x \in Way(s), NEW p \in Nodes, IsPrefix(p, x)
    PROVE  p \in Way(s)
<1>1. x \in Nodes
  BY DEF Way
<1> SUFFICES ASSUME NEW q \in Nodes, IsStrictPrefix(q, p)
             PROVE  p[Len(q) + 1] = Direction(s, tree[q].byte, tree[q].bit)
  BY DEF Way
<1>2. /\ Len(q) \in Nat /\ Len(p) \in Nat /\ Len(x) \in Nat
      /\ Len(q) < Len(p) /\ \A i \in 1 .. Len(q) : q[i] = p[i]
  BY NodeTypes, StrictAt
<1>3. Len(p) <= Len(x) /\ \A i \in 1 .. Len(p) : p[i] = x[i]
  BY <1>1, NodeTypes, PrefixAt
<1>4. Len(q) < Len(x) /\ Len(q) + 1 \in 1 .. Len(p) /\ \A i \in 1 .. Len(q) : i \in 1 .. Len(p)
  BY <1>2, <1>3
<1>5. IsStrictPrefix(q, x) /\ p[Len(q) + 1] = x[Len(q) + 1]
  BY <1>1, <1>2, <1>3, <1>4, NodeTypes, StrictAt
<1> QED BY <1>5 DEF Way

\* it does not branch,
LEMMA WayLinear ==
    ASSUME Good(tree), NEW s, NEW x \in Way(s), NEW y \in Way(s)
    PROVE  IsPrefix(x, y) \/ IsPrefix(y, x)
<1>1. x \in Nodes /\ y \in Nodes
  BY DEF Way
<1>2. ASSUME NEW c \in Nodes, IsStrictPrefix(c, x), IsStrictPrefix(c, y)
      PROVE  x[Len(c) + 1] = y[Len(c) + 1]
  BY <1>2 DEF Way
<1> QED BY <1>1, <1>2 DEF Good, Forks, Nodes

\* it goes on at an inner node,
LEMMA WayDown ==
    ASSUME Good(tree), NEW s \in Bytes, NEW x \in Way(s), ~tree[x].leaf
    PROVE  LET d == Direction(s, tree[x].byte, tree[x].bit)
           IN  d \in {0, 1} /\ Append(x, d) \in Way(s)
<1> DEFINE d == Direction(s, tree[x].byte, tree[x].bit)
<1>1. x \in Nodes
  BY DEF Way
<1>2. d \in {0, 1}
  BY <1>1, NodeTypes, DirectionType
<1>3. Append(x, d) \in Nodes
  BY <1>1, <1>2 DEF Good, Branches, Nodes
<1>4. ASSUME NEW p \in Nodes, IsStrictPrefix(p, Append(x, d))
      PROVE  Append(x, d)[Len(p) + 1] = Direction(s, tree[p].byte, tree[p].bit)
  <2>1. IsPrefix(p, x)
    BY <1>1, <1>2, <1>4, NodeTypes, BesideFacts
  <2>2. CASE p = x
    BY <1>1, <1>2, <2>2, NodeTypes, BesideFacts
  <2>3. CASE p # x
    <3>1. IsStrictPrefix(p, x)
      BY <2>1, <2>3 DEF IsStrictPrefix
    <3>2. Append(x, d)[Len(p) + 1] = x[Len(p) + 1]
      <4>1. x \in Addr /\ p \in Addr
        BY <1>1, NodeTypes
      <4> HIDE DEF d
      <4>2. \A b \in Addr : IsStrictPrefix(b, x) => Append(x, d)[Len(b) + 1] = x[Len(b) + 1]
        BY ONLY <1>2, <4>1, BesideFacts
      <4> QED BY <3>1, <4>1, <4>2
    <3> QED BY <3>1, <3>2 DEF Way
  <2> QED BY <2>2, <2>3
<1> HIDE DEF d
<1>5. d \in {0, 1} /\ Append(x, d) \in Way(s)
  BY <1>2, <1>3, <1>4 DEF Way
<1> QED BY <1>5 DEF d

\* it begins at the root,
LEMMA RootOnWay ==
    ASSUME Good(tree), NEW s, Nodes # {}
    PROVE  <<>> \in Way(s)
<1>1. <<>> \in Nodes
  BY DEF Good, Shape, Nodes
<1>2. ASSUME NEW p \in Nodes, IsStrictPrefix(p, <<>>) PROVE FALSE
  <2>1. Len(p) \in Nat /\ Len(p) < Len(<<>>) /\ Len(<<>>) = 0
    BY <1>1, <1>2, NodeTypes, StrictAt
  <2> QED BY <2>1
<1> QED BY <1>1, <1>2 DEF Way

\* The walk ends at a leaf.
LEMMA WayEnds ==
    ASSUME Good(tree), NEW s \in Bytes, Nodes # {}
    PROVE  \E x \in Way(s) : tree[x].leaf
<1>1. PICK n \in Nat : \A x \in Nodes : Len(x) <= n
  BY DEF Good, Shape, Nodes
<1> DEFINE L == {Len(x) : x \in Way(s)}
<1>2. L \in SUBSET Int /\ \A i \in L : i <= n
  BY <1>1, NodeTypes DEF Way
<1>3. L # {}
  BY RootOnWay
<1> HIDE DEF L
<1>4. Max(L) \in L /\ \A i \in L : i <= Max(L)
  <2>1. n \in Int
    OBVIOUS
  <2> QED BY ONLY <1>2, <1>3, <2>1, MaxFacts
<1>5. PICK x \in Way(s) : Len(x) = Max(L)
  BY <1>4 DEF L
<1>6. \A y \in Way(s) : Len(y) <= Len(x)
  BY <1>4, <1>5 DEF L
<1>7. x \in Nodes /\ Len(x) \in Nat
  BY NodeTypes DEF Way
<1>8. ASSUME ~tree[x].leaf PROVE FALSE
  <2> DEFINE d == Direction(s, tree[x].byte, tree[x].bit)
  <2>1. d \in {0, 1} /\ Append(x, d) \in Way(s)
    BY <1>8, WayDown
  <2>2. Len(Append(x, d)) = Len(x) + 1
    BY <1>7, <2>1, NodeTypes, BesideFacts
  <2> HIDE DEF d
  <2>3. Len(x) + 1 <= Len(x)
    BY <1>6, <2>1, <2>2
  <2> QED BY <1>7, <2>3
<1> QED BY <1>7, <1>8, NodeTypes

\* The leaf at the end of the way is the only one on it.
LEMMA DescendFacts ==
    ASSUME Good(tree), NEW s \in Bytes, Nodes # {}
    PROVE  /\ Descend(s) \in Way(s) /\ Descend(s) \in Nodes /\ tree[Descend(s)].leaf
           /\ \A y \in Way(s) : IsPrefix(y, Descend(s))
           /\ \A y \in Way(s) : tree[y].leaf => y = Descend(s)
<1> DEFINE x == Descend(s)
<1>1. x \in Way(s) /\ tree[x].leaf
  BY WayEnds DEF Descend
<1> HIDE DEF x
<1>2. x \in Nodes
  BY <1>1 DEF Way
<1>3. ASSUME NEW y \in Way(s) PROVE IsPrefix(y, x)
  <2>1. y \in Nodes
    BY DEF Way
  <2>2. IsPrefix(x, y) => x = y
    BY <1>1, <1>2, <2>1 DEF Good, LeavesEnd, IsStrictPrefix, Nodes
  <2>3. IsPrefix(x, x)
    BY <1>2, NodeTypes, PrefixSelf
  <2> QED BY <1>1, <2>2, <2>3, WayLinear
<1>4. ASSUME NEW y \in Way(s), tree[y].leaf PROVE y = x
  <2>1. y \in Nodes
    BY DEF Way
  <2> QED BY <1>2, <1>3, <1>4, <2>1 DEF Good, LeavesEnd, IsStrictPrefix, Nodes
<1> QED BY <1>1, <1>2, <1>3, <1>4 DEF x

\* The walk for a string of the tree ends at its leaf.
LEMMA OwnWay ==
    ASSUME Good(tree), NEW z \in Nodes, tree[z].leaf
    PROVE  z \in Way(tree[z].str) /\ z = Descend(tree[z].str)
<1>1. z \in Way(tree[z].str)
  BY DEF Way, Good, Splits, Nodes
<1> QED BY <1>1, DescendFacts, NodeTypes

\* The string compared at the end decides about membership.
LEMMA PresentIff ==
    ASSUME Good(tree), NEW s \in Bytes
    PROVE  Present(s) <=> s \in Strings(tree)
<1>1. ASSUME Present(s) PROVE s \in Strings(tree)
  BY <1>1, DescendFacts DEF Present, Strings, Nodes
<1>2. ASSUME s \in Strings(tree) PROVE Present(s)
  <2>1. PICK z \in Nodes : tree[z].leaf /\ tree[z].str = s
    BY <1>2 DEF Strings, Nodes
  <2> QED BY <2>1, OwnWay DEF Present
<1> QED BY <1>1, <1>2

-----------------------------------------------------------------------------
(***************************************************************************)
(* Putting a new node above another one                                    *)
(***************************************************************************)

Outside(a) == Nodes \ Below(a)

\* What is above a node that stays in place stays in place.
LEMMA OutsideAbove ==
    ASSUME Good(tree), NEW a \in Nodes, NEW x \in Outside(a), NEW p \in Nodes,
           IsPrefix(p, x)
    PROVE  p \in Outside(a)
<1>1. x \in Nodes /\ ~IsPrefix(a, x)
  BY DEF Outside, Below
<1>2. ~IsPrefix(a, p)
  BY <1>1, NodeTypes, PrefixTrans
<1> QED BY <1>2 DEF Outside, Below

\* The tree after Link(), node by node.
LEMMA LinkAt ==
    ASSUME Good(tree), NEW a \in Nodes, NEW s, NEW B, NEW b, NEW d \in {0, 1}
    PROVE  LET u == Link(a, s, B, b, d)
           IN  /\ \A z \in DOMAIN u : \/ z \in Outside(a) \/ z = a \/ z = Append(a, 1 - d)
                                      \/ \E x \in Below(a) : z = Moved(a, d, x)
               /\ a \in DOMAIN u /\ u[a] = Node(B, b)
               /\ Append(a, 1 - d) \in DOMAIN u /\ u[Append(a, 1 - d)] = Leaf(s)
               /\ \A x \in Below(a) : Moved(a, d, x) \in DOMAIN u /\ u[Moved(a, d, x)] = tree[x]
               /\ \A x \in Outside(a) : x \in DOMAIN u /\ u[x] = tree[x]
<1> DEFINE k == Len(a) + 1
           x1 == Append(a, 1 - d)
           moved == {InsertAt(x, k, d) : x \in Below(a)}
           u == [x \in (Nodes \ Below(a)) \cup moved \cup {a, x1} |->
                   IF x = a THEN Node(B, b)
                   ELSE IF x = x1 THEN Leaf(s)
                   ELSE IF x \in moved THEN tree[RemoveAt(x, k)]
                   ELSE tree[x]]
<1>1. u = Link(a, s, B, b, d)
  BY DEF Link
<1>2. a \in Addr /\ Len(a) \in Nat /\ 1 - d \in {0, 1} /\ 1 - d # d
  BY NodeTypes
<1>3. moved = {Moved(a, d, x) : x \in Below(a)}
  BY DEF Moved
<1>4. ASSUME NEW x \in Below(a)
      PROVE  /\ Moved(a, d, x) \in Addr
             /\ IsStrictPrefix(a, Moved(a, d, x))
             /\ Moved(a, d, x)[Len(a) + 1] = d
             /\ RemoveAt(Moved(a, d, x), Len(a) + 1) = x
  <2>1. x \in Addr /\ IsPrefix(a, x)
    BY NodeTypes DEF Below
  <2> QED BY <1>2, <2>1, MovedAt, MovedUnder
<1>5. x1 # a /\ IsStrictPrefix(a, x1) /\ x1[Len(a) + 1] = 1 - d
  BY <1>2, BesideFacts DEF IsStrictPrefix
<1>6. ASSUME NEW x \in Below(a)
      PROVE  Moved(a, d, x) # a /\ Moved(a, d, x) # x1 /\ Moved(a, d, x) \in moved
  BY <1>2, <1>3, <1>4, <1>5 DEF IsStrictPrefix
<1>7. ASSUME NEW x \in Outside(a) PROVE x # a /\ x # x1 /\ x \notin moved
  <2>1. ~IsPrefix(a, x)
    BY DEF Outside, Below
  <2>2. IsPrefix(a, a) /\ IsPrefix(a, x1)
    BY <1>2, <1>5, AddrNat, PrefixSelf DEF IsStrictPrefix
  <2>3. \A y \in Below(a) : IsPrefix(a, Moved(a, d, y))
    BY <1>4 DEF IsStrictPrefix
  <2> QED BY <1>3, <2>1, <2>2, <2>3
<1> HIDE DEF x1, moved
<1>8. DOMAIN u = Outside(a) \cup moved \cup {a, x1}
  BY DEF Outside
<1>9. u[a] = Node(B, b) /\ u[x1] = Leaf(s)
  BY <1>5
<1>10. ASSUME NEW x \in Below(a) PROVE u[Moved(a, d, x)] = tree[x]
  BY <1>4, <1>6
<1>11. ASSUME NEW x \in Outside(a) PROVE u[x] = tree[x]
  BY <1>7 DEF Outside
<1> HIDE DEF u
<1>12. /\ \A z \in DOMAIN u : \/ z \in Outside(a) \/ z = a \/ z = x1
                              \/ \E x \in Below(a) : z = Moved(a, d, x)
       /\ a \in DOMAIN u /\ x1 \in DOMAIN u
       /\ \A x \in Below(a) : Moved(a, d, x) \in DOMAIN u
       /\ \A x \in Outside(a) : x \in DOMAIN u
  BY <1>3, <1>6, <1>8
<1> QED BY <1>1, <1>9, <1>10, <1>11, <1>12 DEF x1

\* Which nodes are above which afterwards, and in which direction.
LEMMA LinkPairs ==
    ASSUME Good(tree), NEW a \in Nodes, NEW s, NEW B, NEW b, NEW d \in {0, 1},
           NEW p \in DOMAIN Link(a, s, B, b, d), NEW z \in DOMAIN Link(a, s, B, b, d),
           IsStrictPrefix(p, z)
    PROVE  \/ p \in Outside(a) /\ z \in Outside(a)
           \/ /\ p \in Outside(a) /\ IsStrictPrefix(p, a)
              /\ \/ z = a \/ z = Append(a, 1 - d)
                 \/ \E x \in Below(a) : z = Moved(a, d, x) /\ IsStrictPrefix(p, x)
                                        /\ x[Len(p) + 1] = a[Len(p) + 1]
              /\ z[Len(p) + 1] = a[Len(p) + 1]
           \/ p = a /\ z = Append(a, 1 - d) /\ z[Len(a) + 1] = 1 - d
           \/ p = a /\ z[Len(a) + 1] = d /\ \E x \in Below(a) : z = Moved(a, d, x)
           \/ \E x, y \in Below(a) :
                /\ p = Moved(a, d, x) /\ z = Moved(a, d, y) /\ IsStrictPrefix(x, y)
                /\ z[Len(p) + 1] = y[Len(x) + 1]
<1> DEFINE x1 == Append(a, 1 - d)
<1>1. a \in Addr /\ Len(a) \in Nat /\ 1 - d \in {0, 1} /\ 1 - d # d /\ a \in Seq(Nat)
  BY NodeTypes
<1>2. /\ p \in Outside(a) \/ p = a \/ p = x1 \/ \E x \in Below(a) : p = Moved(a, d, x)
      /\ z \in Outside(a) \/ z = a \/ z = x1 \/ \E x \in Below(a) : z = Moved(a, d, x)
  BY LinkAt
<1>3. /\ x1 \in Addr /\ x1[Len(a) + 1] = 1 - d
      /\ IsStrictPrefix(a, x1)
      /\ \A c \in Addr : IsStrictPrefix(c, x1) <=> IsPrefix(c, a)
      /\ \A c \in Addr : IsStrictPrefix(c, a) => x1[Len(c) + 1] = a[Len(c) + 1]
      /\ \A c \in Addr : IsPrefix(x1, c) <=> IsStrictPrefix(a, c) /\ c[Len(a) + 1] = 1 - d
  BY <1>1, BesideFacts
<1> HIDE DEF x1
<1>4. \A x \in Below(a) : x \in Addr /\ IsPrefix(a, x)
  BY NodeTypes DEF Below
<1>5. \A x \in Outside(a) : x \in Addr /\ ~IsPrefix(a, x) /\ x # a
  BY <1>1, NodeTypes, PrefixSelf DEF Below, Outside
<1>6. \A x \in Below(a) : /\ Moved(a, d, x) \in Addr /\ IsStrictPrefix(a, Moved(a, d, x))
                          /\ Moved(a, d, x)[Len(a) + 1] = d
  BY <1>1, <1>4, MovedAt, MovedUnder
<1>7. p \in Addr /\ z \in Addr
  BY <1>1, <1>2, <1>3, <1>5, <1>6
<1>8. IsPrefix(a, p) => IsPrefix(a, z)
  BY <1>1, <1>7, AddrNat, PrefixTrans DEF IsStrictPrefix
<1>9. CASE z \in Outside(a)
  <2>1. ~IsPrefix(a, p)
    BY <1>5, <1>8, <1>9
  <2>2. p \in Outside(a)
    BY <1>1, <1>2, <1>3, <1>6, <2>1, PrefixSelf DEF IsStrictPrefix
  <2> QED BY <1>9, <2>2
<1>10. CASE p \in Outside(a) /\ z = a
  BY <1>10 DEF IsStrictPrefix
<1>11. CASE p \in Outside(a) /\ z = x1
  <2>1. IsStrictPrefix(p, a)
    BY <1>3, <1>5, <1>7, <1>11 DEF IsStrictPrefix
  <2> QED BY <1>3, <1>7, <1>11, <2>1 DEF x1
<1>12. ASSUME p \in Outside(a), NEW x \in Below(a), z = Moved(a, d, x)
       PROVE  /\ IsStrictPrefix(p, a) /\ IsStrictPrefix(p, x)
              /\ z[Len(p) + 1] = a[Len(p) + 1] /\ x[Len(p) + 1] = a[Len(p) + 1]
  <2>1. /\ IsStrictPrefix(p, Moved(a, d, x)) <=> IsStrictPrefix(p, x)
        /\ IsStrictPrefix(p, x) => /\ IsStrictPrefix(p, a)
                                   /\ Moved(a, d, x)[Len(p) + 1] = x[Len(p) + 1]
                                   /\ x[Len(p) + 1] = a[Len(p) + 1]
    BY <1>1, <1>4, <1>5, <1>12, MovedOne
  <2> QED BY <1>12, <2>1
<1>13. CASE p = a /\ z # a /\ z \notin Outside(a)
  BY <1>2, <1>3, <1>6, <1>13 DEF x1
<1>14. ~(z = a /\ p = a)
  BY DEF IsStrictPrefix
<1>15. ASSUME IsStrictPrefix(a, p), z = a PROVE FALSE
  BY <1>1, <1>7, <1>15, AddrNat, StrictAt
<1>16. ASSUME p = x1 PROVE z \in Outside(a)
  <2>1. IsStrictPrefix(a, p)
    BY <1>3, <1>16
  <2>2. z # a
    BY <1>15, <2>1
  <2>3. z # x1
    BY <1>16 DEF IsStrictPrefix
  <2>4. z[Len(a) + 1] = 1 - d
    BY <1>3, <1>7, <1>16 DEF IsStrictPrefix
  <2>5. \A x \in Below(a) : z # Moved(a, d, x)
    BY <1>1, <1>6, <2>4
  <2> QED BY <1>2, <2>2, <2>3, <2>5
<1>17. ASSUME NEW x \in Below(a), p = Moved(a, d, x)
       PROVE  \/ z \in Outside(a)
              \/ \E y \in Below(a) : /\ z = Moved(a, d, y) /\ IsStrictPrefix(x, y)
                                     /\ z[Len(p) + 1] = y[Len(x) + 1]
  <2>1. IsStrictPrefix(a, p)
    BY <1>6, <1>17
  <2>2. z # a
    BY <1>15, <2>1
  <2>3. z # x1
    <3>1. ~IsPrefix(p, a)
      BY <1>1, <1>7, <2>1, AddrNat, StrictAt, PrefixAt
    <3> QED BY <1>3, <1>7, <3>1
  <2>4. ASSUME NEW y \in Below(a), z = Moved(a, d, y)
        PROVE  IsStrictPrefix(x, y) /\ z[Len(p) + 1] = y[Len(x) + 1]
    <3>1. /\ IsStrictPrefix(Moved(a, d, x), Moved(a, d, y)) <=> IsStrictPrefix(x, y)
          /\ IsStrictPrefix(x, y) => Moved(a, d, y)[Len(Moved(a, d, x)) + 1] = y[Len(x) + 1]
      BY <1>1, <1>4, MovedBoth
    <3> QED BY <1>17, <2>4, <3>1
  <2> QED BY <1>2, <2>2, <2>3, <2>4
<1>18. CASE p \in Outside(a)
  BY <1>2, <1>9, <1>10, <1>11, <1>12, <1>18 DEF x1
<1>19. CASE p = a
  BY <1>9, <1>13, <1>14, <1>19
<1>20. CASE p = x1
  BY <1>9, <1>16, <1>20
<1>21. CASE \E x \in Below(a) : p = Moved(a, d, x)
  <2>1. PICK x \in Below(a) : p = Moved(a, d, x)
    BY <1>21
  <2> QED BY <1>9, <1>17, <2>1
<1> QED BY <1>2, <1>18, <1>19, <1>20, <1>21

\* A child is one step below its parent.
LEMMA FrontAppend ==
    ASSUME NEW x \in Addr, NEW e \in {0, 1}
    PROVE  Front(Append(x, e)) = x /\ Last(Append(x, e)) = e /\ Append(x, e) # <<>>
<1> DEFINE c == Append(x, e)
<1>1. c \in Addr /\ Len(c) = Len(x) + 1 /\ (\A i \in 1 .. Len(x) : c[i] = x[i])
      /\ c[Len(x) + 1] = e
  BY AppendAt DEF Addr
<1> HIDE DEF c
<1>2. Len(x) \in Nat /\ Len(c) # 0 /\ Len(c) - 1 = Len(x)
  BY <1>1, AddrNat
<1>3. c # <<>>
  BY <1>2
<1>4. Front(c) \in Addr /\ Len(Front(c)) = Len(x) /\ \A i \in 1 .. Len(x) : Front(c)[i] = c[i]
  <2> DEFINE f == SubSeq(c, 1, Len(x))
  <2>1. Len(x) <= Len(c)
    BY <1>1, <1>2
  <2>2. f \in Addr /\ Len(f) = Len(x) /\ \A i \in 1 .. Len(x) : f[i] = c[i]
    BY <1>1, <1>2, <2>1, SubSeqProperties DEF Addr
  <2>3. f = Front(c)
    BY <1>2 DEF Front
  <2> HIDE DEF f
  <2> QED BY <2>2, <2>3
<1>5. Front(c) = x
  BY <1>1, <1>4, SeqEqual DEF Addr
<1>6. Last(c) = e
  <2>1. c[Len(c)] = e
    BY <1>1
  <2> QED BY <2>1 DEF Last
<1> QED BY <1>3, <1>5, <1>6 DEF c

\* What moves takes its children along.
LEMMA MovedAppend ==
    ASSUME NEW a \in Addr, NEW x \in Addr, NEW d \in {0, 1}, NEW e \in {0, 1},
           IsPrefix(a, x)
    PROVE  /\ Append(Moved(a, d, x), e) = Moved(a, d, Append(x, e))
           /\ IsPrefix(a, Append(x, e))
           /\ Moved(a, d, a) = Append(a, d)
<1>0. Len(a) \in Nat /\ Len(x) \in Nat /\ Len(a) <= Len(x)
  BY AddrNat, PrefixAt
<1> DEFINE y == Append(x, e)
<1>1. y \in Addr /\ Len(y) = Len(x) + 1 /\ (\A i \in 1 .. Len(x) : y[i] = x[i])
      /\ y[Len(x) + 1] = e
  BY AppendAt DEF Addr
<1>2. IsPrefix(a, y)
  <2>1. IsStrictPrefix(x, y)
    BY BesideFacts
  <2> QED BY <1>1, <2>1, AddrNat, PrefixTrans DEF IsStrictPrefix
<1> HIDE DEF y
<1> DEFINE m == Moved(a, d, x)
           n == Moved(a, d, y)
           c == Append(m, e)
<1>3. /\ m \in Addr /\ Len(m) = Len(x) + 1
      /\ \A i \in 1 .. Len(a) : m[i] = x[i]
      /\ m[Len(a) + 1] = d
      /\ \A i \in Len(a) + 1 .. Len(x) : m[i + 1] = x[i]
  BY MovedAt
<1>4. /\ n \in Addr /\ Len(n) = Len(y) + 1
      /\ \A i \in 1 .. Len(a) : n[i] = y[i]
      /\ n[Len(a) + 1] = d
      /\ \A i \in Len(a) + 1 .. Len(y) : n[i + 1] = y[i]
  BY <1>1, <1>2, MovedAt
<1> HIDE DEF m, n
<1>5. /\ c \in Addr /\ Len(c) = Len(m) + 1 /\ (\A i \in 1 .. Len(m) : c[i] = m[i])
      /\ c[Len(m) + 1] = e
  BY <1>3, AppendAt DEF Addr
<1> HIDE DEF c
<1>6. Len(c) = Len(x) + 2 /\ Len(n) = Len(x) + 2
  BY <1>0, <1>1, <1>3, <1>4, <1>5
<1>7. ASSUME NEW i \in 1 .. Len(x) + 2 PROVE c[i] = n[i]
  <2>1. CASE i \in 1 .. Len(a)
    <3>1. i \in 1 .. Len(m) /\ i \in 1 .. Len(x)
      BY <1>0, <1>3, <2>1
    <3> QED BY <1>1, <1>3, <1>4, <1>5, <2>1, <3>1
  <2>2. CASE i = Len(a) + 1
    <3>1. i \in 1 .. Len(m)
      BY <1>0, <1>3, <2>2
    <3> QED BY <1>3, <1>4, <1>5, <2>2, <3>1
  <2>3. CASE i \in Len(a) + 2 .. Len(x) + 1
    <3>1. /\ i - 1 \in Len(a) + 1 .. Len(x) /\ (i - 1) + 1 = i /\ i - 1 \in Len(a) + 1 .. Len(y)
          /\ i - 1 \in 1 .. Len(x) /\ i \in 1 .. Len(m)
      BY <1>0, <1>1, <1>3, <2>3
    <3>2. m[(i - 1) + 1] = x[i - 1] /\ n[(i - 1) + 1] = y[i - 1] /\ y[i - 1] = x[i - 1]
      BY <1>1, <1>3, <1>4, <3>1
    <3> QED BY <1>5, <3>1, <3>2
  <2>4. CASE i = Len(x) + 2
    <3>1. i = Len(m) + 1 /\ Len(x) + 1 \in Len(a) + 1 .. Len(y) /\ i = (Len(x) + 1) + 1
      BY <1>0, <1>1, <1>3, <2>4
    <3>2. n[(Len(x) + 1) + 1] = y[Len(x) + 1]
      BY <1>4, <3>1
    <3> QED BY <1>1, <1>5, <3>1, <3>2
  <2> QED BY <1>0, <2>1, <2>2, <2>3, <2>4
<1>8. c = n
  BY <1>4, <1>5, <1>6, <1>7, SeqEqual DEF Addr
<1>9. Moved(a, d, a) = Append(a, d)
  <2> DEFINE v == Moved(a, d, a)
             w == Append(a, d)
  <2>1. IsPrefix(a, a)
    BY AddrNat, PrefixSelf
  <2>2. v \in Addr /\ Len(v) = Len(a) + 1 /\ (\A i \in 1 .. Len(a) : v[i] = a[i]) /\ v[Len(a) + 1] = d
    BY <2>1, MovedAt
  <2>3. w \in Addr /\ Len(w) = Len(a) + 1 /\ (\A i \in 1 .. Len(a) : w[i] = a[i]) /\ w[Len(a) + 1] = d
    BY AppendAt DEF Addr
  <2> HIDE DEF v, w
  <2>4. \A i \in 1 .. Len(a) + 1 : i \in 1 .. Len(a) \/ i = Len(a) + 1
    BY <1>0
  <2>5. v = w
    BY <2>2, <2>3, <2>4, SeqEqual DEF Addr
  <2> QED BY <2>5 DEF v, w
<1> QED BY <1>2, <1>8, <1>9 DEF c, m, n, y

-----------------------------------------------------------------------------
\* What cb_tree_insert() has to see to before it links the new node.
Fits(a, s, B, b, d) ==
    /\ \A p \in Nodes : IsStrictPrefix(p, a) =>
          /\ Direction(s, tree[p].byte, tree[p].bit) = a[Len(p) + 1]
          /\ Before(tree[p].byte, tree[p].bit, B, b)
          /\ \A y \in Nodes : IsStrictPrefix(p, y) /\ tree[y].leaf =>
                AgreeUpTo(tree[y].str, s, tree[p].byte, tree[p].bit)
    /\ \A y \in Below(a) : tree[y].leaf =>
          AgreeUpTo(tree[y].str, s, B, b) /\ Direction(tree[y].str, B, b) = d
    /\ Direction(s, B, b) = 1 - d
    /\ ~tree[a].leaf => Before(B, b, tree[a].byte, tree[a].bit)

\* The parts of the invariant after Link(): the shape,
LEMMA LinkShape ==
    ASSUME Good(tree), NEW a \in Nodes, NEW s \in Bytes, NEW B \in Nat, NEW b \in 0 .. 7,
           NEW d \in {0, 1}
    PROVE  Shape(Link(a, s, B, b, d))
<1> DEFINE u == Link(a, s, B, b, d)
           x1 == Append(a, 1 - d)
           M(x) == Moved(a, d, x)
<1>1. a \in Addr /\ Len(a) \in Nat /\ 1 - d \in {0, 1}
  BY NodeTypes
<1>2. x1 \in Addr /\ Len(x1) = Len(a) + 1
  BY <1>1, BesideFacts
<1>3. \A x \in Below(a) : x \in Nodes /\ x \in Addr /\ IsPrefix(a, x)
  BY NodeTypes DEF Below
<1>4. \A x \in Below(a) : M(x) \in Addr /\ Len(M(x)) = Len(x) + 1
  BY <1>1, <1>3, MovedAt
<1>5. /\ \A z \in DOMAIN u : z \in Outside(a) \/ z = a \/ z = x1 \/ \E x \in Below(a) : z = M(x)
      /\ a \in DOMAIN u /\ u[a] = Node(B, b)
      /\ x1 \in DOMAIN u /\ u[x1] = Leaf(s)
      /\ \A x \in Below(a) : M(x) \in DOMAIN u /\ u[M(x)] = tree[x]
      /\ \A x \in Outside(a) : x \in DOMAIN u /\ u[x] = tree[x]
  BY LinkAt
<1>6. \A x \in Outside(a) : x \in Nodes /\ x \in Addr
  BY NodeTypes DEF Outside
<1> HIDE DEF u, x1, M
<1>7. DOMAIN u \subseteq Addr
  BY <1>1, <1>2, <1>4, <1>5, <1>6
<1>8. IsFiniteSet(DOMAIN u)
  <2> DEFINE f == [x \in Below(a) |-> M(x)]
             T == {M(x) : x \in Below(a)}
  <2>1. IsFiniteSet(Nodes)
    BY DEF Good, Shape, Nodes
  <2>2. IsFiniteSet(Below(a)) /\ IsFiniteSet(Outside(a))
    BY <2>1, FS_Subset DEF Below, Outside
  <2>3. f \in Surjection(Below(a), T)
    BY DEF Surjection
  <2>4. IsFiniteSet(T)
    BY <2>2, <2>3, FS_Surjection
  <2>5. IsFiniteSet(Outside(a) \cup T)
    BY <2>2, <2>4, FS_Union
  <2>6. IsFiniteSet((Outside(a) \cup T) \cup {a})
    BY <2>5, FS_AddElement
  <2>7. IsFiniteSet(((Outside(a) \cup T) \cup {a}) \cup {x1})
    BY <2>6, FS_AddElement
  <2>8. DOMAIN u \in SUBSET (((Outside(a) \cup T) \cup {a}) \cup {x1})
    BY <1>5
  <2> QED BY <2>7, <2>8, FS_Subset
<1>9. \E n \in Nat : \A x \in DOMAIN u : Len(x) <= n
  <2>1. PICK n \in Nat : \A x \in Nodes : Len(x) <= n
    BY DEF Good, Shape, Nodes
  <2>2. \A x \in Nodes : Len(x) \in Nat /\ Len(x) <= n + 1 /\ Len(x) + 1 <= n + 1
    BY <2>1, NodeTypes
  <2>3. \A x \in DOMAIN u : Len(x) <= n + 1
    BY <1>2, <1>3, <1>4, <1>5, <1>6, <2>2
  <2>4. n + 1 \in Nat
    OBVIOUS
  <2> QED BY <2>3, <2>4
<1>10. \A x \in DOMAIN u : u[x] \in LeafNode \cup InnerNode
  <2>1. Node(B, b) \in InnerNode /\ Leaf(s) \in LeafNode
    BY DEF Node, Leaf, InnerNode, LeafNode
  <2>2. \A x \in Nodes : tree[x] \in LeafNode \cup InnerNode
    BY DEF Good, Shape, Nodes
  <2> QED BY <1>3, <1>5, <1>6, <2>1, <2>2
<1>11. <<>> \in DOMAIN u
  <2>1. CASE a = <<>>
    BY <1>5, <2>1
  <2>2. CASE a # <<>>
    <3>1. <<>> \in Nodes
      BY DEF Good, Shape, Nodes
    <3>2. ~IsPrefix(a, <<>>)
      <4>1. Len(a) # 0
        BY <1>1, <2>2 DEF Addr
      <4> QED BY <1>1, <3>1, <4>1, NodeTypes, PrefixAt
    <3> QED BY <1>5, <3>1, <3>2 DEF Outside, Below
  <2> QED BY <2>1, <2>2
<1>12. ASSUME NEW x \in DOMAIN u, x # <<>> PROVE Front(x) \in DOMAIN u
  <2>0. \A y \in Nodes : y # <<>> => Front(y) \in Nodes /\ IsStrictPrefix(Front(y), y)
    <3> TAKE y \in Nodes
    <3> SUFFICES ASSUME y # <<>> PROVE Front(y) \in Nodes /\ IsStrictPrefix(Front(y), y)
      OBVIOUS
    <3>1. Front(y) \in Nodes
      BY DEF Good, Shape, Nodes
    <3>2. y \in Addr
      BY NodeTypes
    <3>3. Front(y) \in Addr /\ Last(y) \in {0, 1} /\ y = Append(Front(y), Last(y))
      BY <3>2, FrontAt
    <3>4. IsStrictPrefix(Front(y), Append(Front(y), Last(y)))
      BY <3>3, BesideFacts
    <3> QED BY <3>1, <3>3, <3>4
  <2>1. CASE x \in Outside(a)
    <3>1. Front(x) \in Outside(a)
      BY <1>6, <1>12, <2>0, <2>1, OutsideAbove DEF IsStrictPrefix
    <3> QED BY <1>5, <3>1
  <2>2. CASE x = a
    <3>1. Front(a) \in Nodes /\ IsStrictPrefix(Front(a), a)
      BY <1>12, <2>0, <2>2
    <3>2. ~IsPrefix(a, Front(a))
      BY <1>1, <3>1, NodeTypes, StrictAt, PrefixAt
    <3> QED BY <1>5, <2>2, <3>1, <3>2 DEF Outside, Below
  <2>3. CASE x = x1
    BY <1>1, <1>5, <2>3, FrontAppend DEF x1
  <2>4. ASSUME NEW y \in Below(a), x = M(y) PROVE Front(x) \in DOMAIN u
    <3>1. CASE y = a
      <4>1. x = Append(a, d)
        BY <1>1, <1>3, <2>4, <3>1, MovedAppend DEF M
      <4> QED BY <1>1, <1>5, <4>1, FrontAppend
    <3>2. CASE y # a
      <4>1. IsStrictPrefix(a, y)
        BY <1>3, <3>2 DEF IsStrictPrefix
      <4>2. y # <<>>
        <5>1. Len(y) # 0
          BY <1>1, <1>3, <4>1, AddrNat, StrictAt
        <5> QED BY <5>1
      <4>3. PICK f \in Addr, e \in {0, 1} : y = Append(f, e) /\ f = Front(y)
        BY <1>3, <4>2, FrontAt
      <4>4. IsPrefix(a, f)
        BY <1>1, <4>1, <4>3, BesideFacts
      <4>5. f \in Below(a)
        BY <1>3, <2>0, <4>2, <4>3, <4>4 DEF Below
      <4>6. M(y) = Append(M(f), e)
        BY <1>1, <4>3, <4>4, MovedAppend DEF M
      <4>7. Front(x) = M(f)
        BY <1>4, <2>4, <4>3, <4>5, <4>6, FrontAppend
      <4> QED BY <1>5, <4>5, <4>7
    <3> QED BY <3>1, <3>2
  <2> QED BY <1>5, <2>1, <2>2, <2>3, <2>4
<1> QED BY <1>7, <1>8, <1>9, <1>10, <1>11, <1>12 DEF Shape, u

\* forks,
LEMMA LinkForks ==
    ASSUME Good(tree), NEW a \in Nodes, NEW s, NEW B, NEW b, NEW d \in {0, 1}
    PROVE  Forks(Link(a, s, B, b, d))
<1> DEFINE u == Link(a, s, B, b, d)
           x1 == Append(a, 1 - d)
           M(x) == Moved(a, d, x)
           Fork(x, y) == \/ IsPrefix(x, y) \/ IsPrefix(y, x)
                         \/ \E c \in DOMAIN u : /\ IsStrictPrefix(c, x) /\ IsStrictPrefix(c, y)
                                                /\ x[Len(c) + 1] # y[Len(c) + 1]
           Inside(z) == z = a \/ z = x1 \/ \E x \in Below(a) : z = M(x)
<1>1. a \in Addr /\ Len(a) \in Nat /\ 1 - d \in {0, 1} /\ 1 - d # d
  BY NodeTypes
<1>2. /\ x1 \in Addr /\ IsStrictPrefix(a, x1) /\ x1[Len(a) + 1] = 1 - d
      /\ \A c \in Addr : IsStrictPrefix(c, x1) <=> IsPrefix(c, a)
      /\ \A c \in Addr : IsStrictPrefix(c, a) => x1[Len(c) + 1] = a[Len(c) + 1]
  BY <1>1, BesideFacts
<1>3. \A x \in Below(a) : x \in Nodes /\ x \in Addr /\ IsPrefix(a, x)
  BY NodeTypes DEF Below
<1>4. \A x \in Below(a) : M(x) \in Addr /\ IsStrictPrefix(a, M(x)) /\ M(x)[Len(a) + 1] = d
  BY <1>1, <1>3, MovedAt, MovedUnder
<1>5. /\ \A z \in DOMAIN u : z \in Outside(a) \/ z = a \/ z = x1 \/ \E x \in Below(a) : z = M(x)
      /\ a \in DOMAIN u
      /\ \A x \in Below(a) : M(x) \in DOMAIN u
      /\ \A x \in Outside(a) : x \in DOMAIN u
  BY LinkAt
<1>6. \A x \in Outside(a) : x \in Nodes /\ x \in Addr /\ ~IsPrefix(a, x)
  BY NodeTypes DEF Outside, Below
<1>7. \A x, y \in Nodes :
         \/ IsPrefix(x, y) \/ IsPrefix(y, x)
         \/ \E c \in Nodes : /\ IsStrictPrefix(c, x) /\ IsStrictPrefix(c, y)
                             /\ x[Len(c) + 1] # y[Len(c) + 1]
  BY DEF Good, Forks, Nodes
<1> HIDE DEF u, x1, M
<1>8. ASSUME NEW x \in Outside(a), NEW y \in Outside(a) PROVE Fork(x, y)
  <2>1. ASSUME NEW c \in Nodes, IsStrictPrefix(c, x) PROVE c \in DOMAIN u
    BY <1>5, <2>1, OutsideAbove DEF IsStrictPrefix
  <2> QED BY <1>6, <1>7, <2>1
\* What is above the old node is above all that is there now.
<1>9. ASSUME NEW z, Inside(z), NEW c \in Outside(a), IsStrictPrefix(c, a)
      PROVE  IsStrictPrefix(c, z) /\ z[Len(c) + 1] = a[Len(c) + 1]
  <2>1. CASE z = a
    BY <1>9, <2>1
  <2>2. CASE z = x1
    BY <1>2, <1>6, <1>9, <2>2 DEF IsStrictPrefix
  <2>3. ASSUME NEW x \in Below(a), z = M(x) PROVE IsStrictPrefix(c, z) /\ z[Len(c) + 1] = a[Len(c) + 1]
    <3>1. IsStrictPrefix(c, x)
      <4>1. IsPrefix(c, x)
        BY <1>1, <1>3, <1>6, <1>9, AddrNat, PrefixTrans DEF IsStrictPrefix
      <4> QED BY <1>3, <1>6, <4>1 DEF IsStrictPrefix
    <3> QED BY <1>1, <1>3, <1>6, <2>3, <3>1, MovedOne DEF M
  <2> QED BY <1>9, <2>1, <2>2, <2>3
<1>10. ASSUME NEW x \in Outside(a), NEW z, Inside(z) PROVE Fork(x, z) /\ Fork(z, x)
  <2>1. CASE IsPrefix(x, a)
    <3>1. IsStrictPrefix(x, a)
      BY <1>1, <1>6, <2>1, AddrNat, PrefixSelf DEF IsStrictPrefix
    <3> QED BY <1>9, <1>10, <3>1 DEF IsStrictPrefix
  <2>2. ASSUME NEW c \in Nodes, IsStrictPrefix(c, x), IsStrictPrefix(c, a),
               x[Len(c) + 1] # a[Len(c) + 1]
        PROVE  Fork(x, z) /\ Fork(z, x)
    <3>1. c \in Outside(a)
      BY <2>2, OutsideAbove DEF IsStrictPrefix
    <3>2. IsStrictPrefix(c, z) /\ z[Len(c) + 1] = a[Len(c) + 1]
      BY <1>9, <1>10, <2>2, <3>1
    <3> QED BY <1>5, <2>2, <3>1, <3>2
  <2> QED BY <1>6, <1>7, <2>1, <2>2
<1>11. ASSUME NEW z, Inside(z) PROVE IsPrefix(a, z)
  BY <1>1, <1>2, <1>4, <1>11, AddrNat, PrefixSelf DEF IsStrictPrefix
<1>12. ASSUME NEW x \in Below(a) PROVE Fork(x1, M(x)) /\ Fork(M(x), x1)
  BY <1>1, <1>2, <1>4, <1>5
<1>13. ASSUME NEW x \in Below(a), NEW y \in Below(a) PROVE Fork(M(x), M(y))
  <2>1. /\ IsPrefix(M(x), M(y)) <=> IsPrefix(x, y)
        /\ IsPrefix(M(y), M(x)) <=> IsPrefix(y, x)
    BY <1>1, <1>3, MovedBoth DEF M
  <2>2. ASSUME NEW c \in Nodes, IsStrictPrefix(c, x), IsStrictPrefix(c, y),
               x[Len(c) + 1] # y[Len(c) + 1]
        PROVE  Fork(M(x), M(y))
    <3>1. c \in Addr
      BY NodeTypes
    <3>2. IsPrefix(a, c)
      <4> SUFFICES ASSUME ~IsPrefix(a, c) PROVE FALSE
        OBVIOUS
      <4>1. x[Len(c) + 1] = a[Len(c) + 1]
        BY <1>1, <1>3, <2>2, <3>1, MovedOne
      <4>2. y[Len(c) + 1] = a[Len(c) + 1]
        BY <1>1, <1>3, <2>2, <3>1, MovedOne
      <4> QED BY <2>2, <4>1, <4>2
    <3>3. c \in Below(a)
      BY <3>2 DEF Below
    <3>4. IsStrictPrefix(M(c), M(x)) /\ M(x)[Len(M(c)) + 1] = x[Len(c) + 1]
      BY <1>1, <1>3, <2>2, <3>3, MovedBoth DEF M
    <3>5. IsStrictPrefix(M(c), M(y)) /\ M(y)[Len(M(c)) + 1] = y[Len(c) + 1]
      BY <1>1, <1>3, <2>2, <3>3, MovedBoth DEF M
    <3> QED BY <1>5, <2>2, <3>3, <3>4, <3>5
  <2> QED BY <1>3, <1>7, <2>1, <2>2
<1>14. ASSUME NEW y, NEW z, Inside(y), Inside(z) PROVE Fork(y, z)
  <2>1. CASE y = a \/ z = a
    BY <1>11, <1>14, <2>1
  <2>2. CASE y = x1 /\ z = x1
    BY <1>2, <2>2, AddrNat, PrefixSelf
  <2>3. CASE (\E x \in Below(a) : y = M(x)) /\ (\E x \in Below(a) : z = M(x))
    BY <1>13, <2>3
  <2>4. CASE (y = x1 /\ \E x \in Below(a) : z = M(x)) \/ (z = x1 /\ \E x \in Below(a) : y = M(x))
    BY <1>12, <2>4
  <2> QED BY <1>14, <2>1, <2>2, <2>3, <2>4
<1>15. ASSUME NEW y \in DOMAIN u, NEW z \in DOMAIN u PROVE Fork(y, z)
  BY <1>5, <1>8, <1>10, <1>14
<1> QED BY <1>15 DEF Forks, u

\* where nodes split (this is where Fits() comes in),
LEMMA LinkSplits ==
    ASSUME Good(tree), NEW a \in Nodes, NEW s \in Bytes, NEW B \in Nat, NEW b \in 0 .. 7,
           NEW d \in {0, 1}, Fits(a, s, B, b, d)
    PROVE  Splits(Link(a, s, B, b, d))
<1> DEFINE u == Link(a, s, B, b, d)
           x1 == Append(a, 1 - d)
           M(x) == Moved(a, d, x)
           \* Where a leaf below p was, or that it is the new one.
           Old(p, z) == \E w \in Nodes : /\ IsStrictPrefix(p, w) /\ tree[w].leaf
                                         /\ u[z] = tree[w] /\ z[Len(p) + 1] = w[Len(p) + 1]
           New(p, z) == u[z] = Leaf(s) /\ IsStrictPrefix(p, a) /\ z[Len(p) + 1] = a[Len(p) + 1]
<1>1. /\ \A z \in DOMAIN u : z \in Outside(a) \/ z = a \/ z = x1 \/ \E x \in Below(a) : z = M(x)
      /\ u[a] = Node(B, b) /\ u[x1] = Leaf(s)
      /\ \A x \in Below(a) : u[M(x)] = tree[x]
      /\ \A x \in Outside(a) : u[x] = tree[x]
  BY LinkAt
<1>2. \A x \in Below(a) : x \in Nodes /\ x \in Addr /\ IsPrefix(a, x)
  BY NodeTypes DEF Below
<1>3. \A x \in Outside(a) : x \in Nodes
  BY DEF Outside
<1>4. ASSUME NEW p \in DOMAIN u, NEW z \in DOMAIN u, IsStrictPrefix(p, z)
      PROVE  \/ p \in Outside(a) /\ z \in Outside(a)
             \/ /\ p \in Outside(a) /\ IsStrictPrefix(p, a)
                /\ \/ z = a \/ z = x1
                   \/ \E x \in Below(a) : z = M(x) /\ IsStrictPrefix(p, x)
                                          /\ x[Len(p) + 1] = a[Len(p) + 1]
                /\ z[Len(p) + 1] = a[Len(p) + 1]
             \/ p = a /\ z = x1 /\ z[Len(a) + 1] = 1 - d
             \/ p = a /\ z[Len(a) + 1] = d /\ \E x \in Below(a) : z = M(x)
             \/ \E x, y \in Below(a) :
                  /\ p = M(x) /\ z = M(y) /\ IsStrictPrefix(x, y)
                  /\ z[Len(p) + 1] = y[Len(x) + 1]
  BY <1>4, LinkPairs
<1>5. /\ Node(B, b).leaf = FALSE /\ Node(B, b).byte = B /\ Node(B, b).bit = b
      /\ Leaf(s).leaf = TRUE /\ Leaf(s).str = s
  BY DEF Node, Leaf
<1>6. ASSUME NEW p \in Outside(a) PROVE p # a /\ \A x \in Below(a) : p # M(x)
  <2>1. p \in Addr /\ ~IsPrefix(a, p) /\ a \in Addr
    BY NodeTypes DEF Outside, Below
  <2>2. p # a
    BY <2>1, AddrNat, PrefixSelf
  <2>3. \A x \in Below(a) : IsPrefix(a, M(x))
    BY <1>2, <2>1, MovedUnder DEF IsStrictPrefix
  <2> QED BY <2>1, <2>2, <2>3
<1>7. \A x \in Below(a) : M(x) # a
  <2>1. a \in Addr
    BY NodeTypes
  <2> QED BY <1>2, <2>1, MovedUnder DEF IsStrictPrefix
<1> HIDE DEF u, x1, M
<1>8. ASSUME NEW p \in DOMAIN u, NEW z \in DOMAIN u, p \in Outside(a), IsStrictPrefix(p, z), u[z].leaf
      PROVE  Old(p, z) \/ New(p, z)
  <2>1. \/ z \in Outside(a)
        \/ /\ IsStrictPrefix(p, a)
           /\ \/ z = a \/ z = x1
              \/ \E x \in Below(a) : z = M(x) /\ IsStrictPrefix(p, x)
                                     /\ x[Len(p) + 1] = a[Len(p) + 1]
           /\ z[Len(p) + 1] = a[Len(p) + 1]
    BY <1>4, <1>6, <1>8
  <2>2. CASE z \in Outside(a)
    BY <1>1, <1>3, <1>8, <2>2
  <2>3. CASE z = a
    BY <1>1, <1>5, <1>8, <2>3
  <2>4. CASE z = x1 /\ IsStrictPrefix(p, a) /\ z[Len(p) + 1] = a[Len(p) + 1]
    BY <1>1, <2>4
  <2>5. CASE /\ \E x \in Below(a) : z = M(x) /\ IsStrictPrefix(p, x) /\ x[Len(p) + 1] = a[Len(p) + 1]
             /\ z[Len(p) + 1] = a[Len(p) + 1]
    BY <1>1, <1>2, <1>8, <2>5
  <2> QED BY <2>1, <2>2, <2>3, <2>4, <2>5
<1>9. ASSUME NEW p \in Nodes, NEW w \in Nodes, NEW v \in Nodes, tree[w].leaf, tree[v].leaf,
             IsStrictPrefix(p, w), IsStrictPrefix(p, v)
      PROVE  /\ Direction(tree[w].str, tree[p].byte, tree[p].bit) = w[Len(p) + 1]
             /\ AgreeUpTo(tree[w].str, tree[v].str, tree[p].byte, tree[p].bit)
  BY <1>9 DEF Good, Splits, Nodes
<1>10. ASSUME NEW p \in Nodes, IsStrictPrefix(p, a)
       PROVE  /\ Direction(s, tree[p].byte, tree[p].bit) = a[Len(p) + 1]
              /\ \A w \in Nodes : IsStrictPrefix(p, w) /\ tree[w].leaf =>
                   /\ AgreeUpTo(tree[w].str, s, tree[p].byte, tree[p].bit)
                   /\ AgreeUpTo(s, tree[w].str, tree[p].byte, tree[p].bit)
  BY <1>10, AgreeSym DEF Fits
<1> SUFFICES ASSUME NEW p \in DOMAIN u, NEW x \in DOMAIN u, NEW y \in DOMAIN u,
                    IsStrictPrefix(p, x), IsStrictPrefix(p, y), u[x].leaf, u[y].leaf
             PROVE  /\ Direction(u[x].str, u[p].byte, u[p].bit) = x[Len(p) + 1]
                    /\ AgreeUpTo(u[x].str, u[y].str, u[p].byte, u[p].bit)
  BY DEF Splits, u
<1>11. CASE p \in Outside(a)
  <2>1. (Old(p, x) \/ New(p, x)) /\ (Old(p, y) \/ New(p, y)) /\ p \in Nodes /\ u[p] = tree[p]
    BY <1>1, <1>3, <1>8, <1>11
  <2>2. Direction(u[x].str, u[p].byte, u[p].bit) = x[Len(p) + 1]
    <3>1. CASE Old(p, x)
      BY <1>9, <2>1, <3>1
    <3>2. CASE New(p, x)
      BY <1>5, <1>10, <2>1, <3>2
    <3> QED BY <2>1, <3>1, <3>2
  <2>3. AgreeUpTo(u[x].str, u[y].str, u[p].byte, u[p].bit)
    <3>1. CASE Old(p, x) /\ Old(p, y)
      BY <1>9, <2>1, <3>1
    <3>2. CASE Old(p, x) /\ New(p, y)
      BY <1>5, <1>10, <2>1, <3>2
    <3>3. CASE New(p, x) /\ Old(p, y)
      BY <1>5, <1>10, <2>1, <3>3
    <3>4. CASE New(p, x) /\ New(p, y)
      BY <3>4, AgreeSelf
    <3> QED BY <2>1, <3>1, <3>2, <3>3, <3>4
  <2> QED BY <2>2, <2>3
<1>12. CASE p = a
  <2>1. a \notin Outside(a)
    BY <1>6
  <2>2. ASSUME NEW z \in DOMAIN u, IsStrictPrefix(a, z), u[z].leaf
        PROVE  /\ Direction(u[z].str, B, b) = z[Len(a) + 1]
               /\ AgreeUpTo(u[z].str, s, B, b)
    <3>1. (z = x1 /\ z[Len(a) + 1] = 1 - d)
          \/ (z[Len(a) + 1] = d /\ \E v \in Below(a) : z = M(v))
      BY <1>4, <1>7, <1>12, <2>1, <2>2
    <3>2. CASE z = x1 /\ z[Len(a) + 1] = 1 - d
      BY <1>1, <1>5, <3>2, AgreeSelf DEF Fits
    <3>3. CASE z[Len(a) + 1] = d /\ \E v \in Below(a) : z = M(v)
      BY <1>1, <2>2, <3>3 DEF Fits
    <3> QED BY <3>1, <3>2, <3>3
  <2>3. AgreeUpTo(u[x].str, s, B, b) /\ AgreeUpTo(s, u[y].str, B, b)
    BY <1>12, <2>2, AgreeSym
  <2>4. AgreeUpTo(u[x].str, u[y].str, B, b)
    BY <2>3, AgreeTrans
  <2> QED BY <1>1, <1>5, <1>12, <2>2, <2>4
<1>13. CASE p # a /\ p \notin Outside(a)
  <2>1. /\ \E q, v \in Below(a) : /\ p = M(q) /\ x = M(v) /\ IsStrictPrefix(q, v)
                                  /\ x[Len(p) + 1] = v[Len(q) + 1]
        /\ \E q, v \in Below(a) : /\ p = M(q) /\ y = M(v) /\ IsStrictPrefix(q, v)
                                  /\ y[Len(p) + 1] = v[Len(q) + 1]
    BY <1>4, <1>13
  <2>2. PICK q \in Below(a), v \in Below(a) : /\ p = M(q) /\ x = M(v) /\ IsStrictPrefix(q, v)
                                              /\ x[Len(p) + 1] = v[Len(q) + 1]
    BY <2>1
  <2>3. PICK r \in Below(a), w \in Below(a) : p = M(r) /\ y = M(w) /\ IsStrictPrefix(r, w)
    BY <2>1
  <2>4. q = r
    <3>1. a \in Addr
      BY NodeTypes
    <3>2. \A c \in Below(a) : RemoveAt(M(c), Len(a) + 1) = c
      BY <1>2, <3>1, MovedAt DEF M
    <3> QED BY <2>2, <2>3, <3>2
  <2>5. u[p] = tree[q] /\ u[x] = tree[v] /\ u[y] = tree[w]
    BY <1>1, <2>2, <2>3
  <2> QED BY <1>2, <1>9, <2>2, <2>3, <2>4, <2>5
<1> QED BY <1>11, <1>12, <1>13

\* leaves, children and the order of places.
LEMMA LinkInner ==
    ASSUME Good(tree), NEW a \in Nodes, NEW s \in Bytes, NEW B \in Nat, NEW b \in 0 .. 7,
           NEW d \in {0, 1}, Fits(a, s, B, b, d)
    PROVE  /\ LeavesEnd(Link(a, s, B, b, d))
           /\ Branches(Link(a, s, B, b, d))
           /\ Ordered(Link(a, s, B, b, d))
<1> DEFINE u == Link(a, s, B, b, d)
           x1 == Append(a, 1 - d)
           M(x) == Moved(a, d, x)
<1>1. /\ \A z \in DOMAIN u : z \in Outside(a) \/ z = a \/ z = x1 \/ \E x \in Below(a) : z = M(x)
      /\ a \in DOMAIN u /\ u[a] = Node(B, b)
      /\ x1 \in DOMAIN u /\ u[x1] = Leaf(s)
      /\ \A x \in Below(a) : M(x) \in DOMAIN u /\ u[M(x)] = tree[x]
      /\ \A x \in Outside(a) : x \in DOMAIN u /\ u[x] = tree[x]
  BY LinkAt
<1>2. \A x \in Below(a) : x \in Nodes /\ x \in Addr /\ IsPrefix(a, x)
  BY NodeTypes DEF Below
<1>3. \A x \in Outside(a) : x \in Nodes /\ x \in Addr /\ ~IsPrefix(a, x)
  BY NodeTypes DEF Outside, Below
<1>4. ASSUME NEW p \in DOMAIN u, NEW z \in DOMAIN u, IsStrictPrefix(p, z)
      PROVE  \/ p \in Outside(a) /\ z \in Outside(a)
             \/ p \in Outside(a) /\ IsStrictPrefix(p, a) /\ z = a
             \/ p \in Outside(a) /\ IsStrictPrefix(p, a) /\ z = x1
             \/ p \in Outside(a) /\ \E x \in Below(a) : z = M(x) /\ IsStrictPrefix(p, x)
             \/ p = a /\ z = x1
             \/ p = a /\ \E x \in Below(a) : z = M(x)
             \/ \E x, y \in Below(a) : p = M(x) /\ z = M(y) /\ IsStrictPrefix(x, y)
  BY <1>4, LinkPairs
<1>5. /\ Node(B, b).leaf = FALSE /\ Node(B, b).byte = B /\ Node(B, b).bit = b
      /\ Leaf(s).leaf = TRUE
  BY DEF Node, Leaf
<1>6. a \in Addr /\ 1 - d \in {0, 1} /\ {0, 1} = {d, 1 - d}
  BY NodeTypes
<1> HIDE DEF M, x1, u
<1>7. LeavesEnd(u)
  <2>1. \A p, x \in Nodes : IsStrictPrefix(p, x) => ~tree[p].leaf
    BY DEF Good, LeavesEnd, Nodes
  <2> SUFFICES ASSUME NEW p \in DOMAIN u, NEW z \in DOMAIN u, IsStrictPrefix(p, z)
               PROVE  ~u[p].leaf
    BY DEF LeavesEnd
  <2>2. CASE p \in Outside(a)
    <3>1. \E w \in Nodes : IsStrictPrefix(p, w)
      <4>1. p \in Addr /\ ~IsPrefix(a, p)
        BY <1>3, <2>2
      <4>2. CASE z \in Outside(a)
        BY <1>3, <4>2
      <4>3. CASE IsStrictPrefix(p, a)
        BY <4>3
      <4>4. CASE \E x \in Below(a) : z = M(x) /\ IsStrictPrefix(p, x)
        BY <1>2, <4>4
      <4>5. IsPrefix(a, a) /\ \A x \in Below(a) : IsPrefix(a, M(x))
        BY <1>2, <1>6, AddrNat, PrefixSelf, MovedUnder DEF IsStrictPrefix, M
      <4> QED BY <1>4, <4>1, <4>2, <4>3, <4>4, <4>5
    <3> QED BY <1>1, <1>3, <2>1, <2>2, <3>1
  <2>3. CASE p = a
    BY <1>1, <1>5, <2>3
  <2>4. ASSUME NEW x \in Below(a), NEW y \in Below(a), p = M(x), IsStrictPrefix(x, y)
        PROVE  ~u[p].leaf
    BY <1>1, <1>2, <2>1, <2>4
  <2> QED BY <1>4, <2>2, <2>3, <2>4
<1>8. Branches(u)
  <2>1. \A x \in Nodes : ~tree[x].leaf => \A e \in {0, 1} : Append(x, e) \in Nodes
    BY DEF Good, Branches, Nodes
  <2> SUFFICES ASSUME NEW x \in DOMAIN u, ~u[x].leaf, NEW e \in {0, 1}
               PROVE  Append(x, e) \in DOMAIN u
    BY DEF Branches
  <2>2. CASE x \in Outside(a)
    <3>1. Append(x, e) \in Nodes
      BY <1>1, <1>3, <2>1, <2>2
    <3>2. CASE IsPrefix(a, Append(x, e))
      <4>1. ~IsStrictPrefix(a, Append(x, e))
        BY <1>3, <1>6, <2>2, BesideFacts
      <4>2. a = Append(x, e)
        BY <3>2, <4>1 DEF IsStrictPrefix
      <4> QED BY <1>1, <4>2
    <3>3. CASE ~IsPrefix(a, Append(x, e))
      BY <1>1, <3>1, <3>3 DEF Outside, Below
    <3> QED BY <3>2, <3>3
  <2>3. CASE x = a
    <3>1. a \in Below(a)
      BY <1>6, AddrNat, PrefixSelf DEF Below
    <3>2. M(a) = Append(a, d)
      BY <1>2, <1>6, <3>1, MovedAppend DEF M
    <3> QED BY <1>1, <1>6, <2>3, <3>1, <3>2 DEF x1
  <2>4. CASE x = x1
    BY <1>1, <1>5, <2>4
  <2>5. ASSUME NEW y \in Below(a), x = M(y) PROVE Append(x, e) \in DOMAIN u
    <3>1. Append(y, e) \in Nodes
      BY <1>1, <1>2, <2>1, <2>5
    <3>2. Append(M(y), e) = M(Append(y, e)) /\ IsPrefix(a, Append(y, e))
      BY <1>2, <1>6, MovedAppend DEF M
    <3>3. Append(y, e) \in Below(a)
      BY <3>1, <3>2 DEF Below
    <3> QED BY <1>1, <2>5, <3>2, <3>3
  <2> QED BY <1>1, <2>2, <2>3, <2>4, <2>5
<1>9. Ordered(u)
  <2>1. \A p, q \in Nodes : IsStrictPrefix(p, q) /\ ~tree[q].leaf =>
           Before(tree[p].byte, tree[p].bit, tree[q].byte, tree[q].bit)
    BY DEF Good, Ordered, Nodes
  <2> SUFFICES ASSUME NEW p \in DOMAIN u, NEW z \in DOMAIN u, IsStrictPrefix(p, z), ~u[z].leaf
               PROVE  Before(u[p].byte, u[p].bit, u[z].byte, u[z].bit)
    BY DEF Ordered
  <2>2. CASE p \in Outside(a) /\ z \in Outside(a)
    BY <1>1, <1>3, <2>1, <2>2
  <2>3. CASE p \in Outside(a) /\ IsStrictPrefix(p, a) /\ z = a
    BY <1>1, <1>3, <1>5, <2>3 DEF Fits
  <2>4. CASE z = x1
    BY <1>1, <1>5, <2>4
  <2>5. ASSUME p \in Outside(a), NEW x \in Below(a), z = M(x), IsStrictPrefix(p, x)
        PROVE  Before(u[p].byte, u[p].bit, u[z].byte, u[z].bit)
    BY <1>1, <1>2, <1>3, <2>1, <2>5
  <2>6. ASSUME p = a, NEW x \in Below(a), z = M(x)
        PROVE  Before(u[p].byte, u[p].bit, u[z].byte, u[z].bit)
    <3>1. u[p].byte = B /\ u[p].bit = b /\ u[z] = tree[x] /\ x \in Nodes /\ ~tree[x].leaf
      BY <1>1, <1>2, <1>5, <2>6
    <3>2. CASE x = a
      BY <3>1, <3>2 DEF Fits
    <3>3. CASE x # a
      <4>1. IsStrictPrefix(a, x)
        BY <1>2, <3>3 DEF IsStrictPrefix
      <4>2. /\ ~tree[a].leaf /\ tree[a].byte \in Nat /\ tree[a].bit \in 0 .. 7
            /\ tree[x].byte \in Nat /\ tree[x].bit \in 0 .. 7
        BY <3>1, <4>1, NodeAbove, NodeTypes
      <4>3. Before(B, b, tree[a].byte, tree[a].bit)
        BY <4>2 DEF Fits
      <4>4. Before(tree[a].byte, tree[a].bit, tree[x].byte, tree[x].bit)
        BY <2>1, <3>1, <4>1
      <4>5. Before(B, b, tree[x].byte, tree[x].bit)
        BY <4>2, <4>3, <4>4 DEF Before
      <4> QED BY <3>1, <4>5
    <3> QED BY <3>2, <3>3
  <2>7. ASSUME NEW x \in Below(a), NEW y \in Below(a), p = M(x), z = M(y), IsStrictPrefix(x, y)
        PROVE  Before(u[p].byte, u[p].bit, u[z].byte, u[z].bit)
    BY <1>1, <1>2, <2>1, <2>7
  <2> QED BY <1>4, <2>2, <2>3, <2>4, <2>5, <2>6, <2>7
<1> QED BY <1>7, <1>8, <1>9 DEF u

\* One string more.
LEMMA LinkGood ==
    ASSUME Good(tree), NEW a \in Nodes, NEW s \in Bytes, NEW B \in Nat, NEW b \in 0 .. 7,
           NEW d \in {0, 1}, Fits(a, s, B, b, d)
    PROVE  /\ Good(Link(a, s, B, b, d))
           /\ Strings(Link(a, s, B, b, d)) = Strings(tree) \cup {s}
<1>1. Good(Link(a, s, B, b, d))
  BY LinkShape, LinkForks, LinkSplits, LinkInner DEF Good
<1> DEFINE u == Link(a, s, B, b, d)
           x1 == Append(a, 1 - d)
           M(x) == Moved(a, d, x)
<1>2. /\ \A z \in DOMAIN u : z \in Outside(a) \/ z = a \/ z = x1 \/ \E x \in Below(a) : z = M(x)
      /\ u[a] = Node(B, b)
      /\ x1 \in DOMAIN u /\ u[x1] = Leaf(s)
      /\ \A x \in Below(a) : M(x) \in DOMAIN u /\ u[M(x)] = tree[x]
      /\ \A x \in Outside(a) : x \in DOMAIN u /\ u[x] = tree[x]
  BY LinkAt
<1>3. Node(B, b).leaf = FALSE /\ Leaf(s).leaf = TRUE /\ Leaf(s).str = s
  BY DEF Node, Leaf
<1> HIDE DEF M, x1, u
<1>4. ASSUME NEW t \in Strings(u) PROVE t \in Strings(tree) \cup {s}
  <2>1. PICK z \in DOMAIN u : u[z].leaf /\ t = u[z].str
    BY DEF Strings
  <2> QED BY <1>2, <1>3, <2>1 DEF Strings, Outside, Below, Nodes
<1>5. ASSUME NEW t \in Strings(tree) PROVE t \in Strings(u)
  <2>1. PICK z \in Nodes : tree[z].leaf /\ t = tree[z].str
    BY DEF Strings, Nodes
  <2>2. z \in Below(a) \/ z \in Outside(a)
    BY DEF Outside
  <2> QED BY <1>2, <2>1, <2>2 DEF Strings
<1>6. s \in Strings(u)
  BY <1>2, <1>3 DEF Strings
<1>7. Strings(u) = Strings(tree) \cup {s}
  BY <1>4, <1>5, <1>6
<1> QED BY <1>1, <1>7 DEF u

-----------------------------------------------------------------------------
(***************************************************************************)
(* cb_tree_insert()                                                        *)
(***************************************************************************)

\* The last loop of cb_tree_insert() stops somewhere on the way.
LEMMA PlaceFacts ==
    ASSUME Good(tree), NEW s \in Bytes, Nodes # {}, NEW B, NEW b
    PROVE  /\ Place(s, B, b) \in Way(s) /\ Stops(tree[Place(s, B, b)], B, b)
           /\ \A p \in Way(s) : Stops(tree[p], B, b) => IsPrefix(Place(s, B, b), p)
<1> DEFINE W == {x \in Way(s) : Stops(tree[x], B, b)}
           L == {Len(x) : x \in W}
<1>1. Descend(s) \in W
  BY DescendFacts DEF Stops
<1>2. \A x \in Way(s) : x \in Nodes /\ Len(x) \in Nat /\ x \in Seq(Nat)
  BY NodeTypes DEF Way
<1>3. L \in SUBSET Nat /\ L # {}
  BY <1>1, <1>2
<1> HIDE DEF L
<1>4. PICK m \in L : \A n \in L : m <= n
  BY <1>3, LeastNat
<1>5. PICK x \in W : Len(x) = m
  BY DEF L
<1>6. ASSUME NEW p \in Way(s), Stops(tree[p], B, b) PROVE IsPrefix(x, p)
  <2>1. Len(x) <= Len(p)
    BY <1>4, <1>5, <1>6 DEF L
  <2>2. CASE IsPrefix(p, x)
    <3>1. p = x
      BY <1>2, <2>1, <2>2, PrefixEqual
    <3> QED BY <2>2, <3>1
  <2> QED BY <2>2, WayLinear
<1>7. \E y \in Way(s) : /\ Stops(tree[y], B, b)
                        /\ \A p \in Way(s) : Stops(tree[p], B, b) => IsPrefix(y, p)
  BY <1>6
<1> HIDE DEF W
<1> QED BY <1>7 DEF Place

\* It stops where the new node belongs.
LEMMA InsertFits ==
    ASSUME Good(tree), NEW s \in Bytes, Nodes # {}, NEW B \in Nat, NEW b \in 0 .. 7,
           AgreeUpTo(s, tree[Descend(s)].str, B, b),
           Direction(s, B, b) # Direction(tree[Descend(s)].str, B, b)
    PROVE  /\ Place(s, B, b) \in Nodes
           /\ Direction(tree[Descend(s)].str, B, b) \in {0, 1}
           /\ Fits(Place(s, B, b), s, B, b, Direction(tree[Descend(s)].str, B, b))
<1> DEFINE n == Descend(s)
           t == tree[n].str
           a == Place(s, B, b)
           d == Direction(t, B, b)
<1>1. n \in Way(s) /\ n \in Nodes /\ tree[n].leaf /\ t \in Bytes
  BY DescendFacts, NodeTypes
<1>2. d \in {0, 1} /\ Direction(s, B, b) \in {0, 1} /\ Direction(s, B, b) # d
      /\ AgreeUpTo(s, t, B, b) /\ AgreeUpTo(t, s, B, b)
  BY <1>1, DirectionType, AgreeSym
<1>3. /\ a \in Way(s) /\ a \in Nodes /\ Stops(tree[a], B, b)
      /\ \A p \in Way(s) : Stops(tree[p], B, b) => IsPrefix(a, p)
  BY PlaceFacts DEF Way
<1>4. IsPrefix(a, n)
  BY <1>3, DescendFacts
<1> HIDE DEF n, t, a, d
<1>5. ASSUME NEW p \in Nodes, IsStrictPrefix(p, a)
      PROVE  /\ Direction(s, tree[p].byte, tree[p].bit) = a[Len(p) + 1]
             /\ Before(tree[p].byte, tree[p].bit, B, b)
             /\ \A y \in Nodes : IsStrictPrefix(p, y) /\ tree[y].leaf =>
                   AgreeUpTo(tree[y].str, s, tree[p].byte, tree[p].bit)
  <2>1. Direction(s, tree[p].byte, tree[p].bit) = a[Len(p) + 1]
    BY <1>3, <1>5 DEF Way
  <2>2. p \in Way(s)
    BY <1>3, <1>5, WayUp DEF IsStrictPrefix
  <2>3. ~IsPrefix(a, p)
    BY <1>3, <1>5, NodeTypes, StrictAt, PrefixAt
  <2>4. ~Stops(tree[p], B, b)
    BY <1>3, <2>2, <2>3
  <2>5. tree[p].byte \in Nat /\ tree[p].bit \in 0 .. 7
    BY <1>3, <1>5, NodeAbove
  <2>6. IsStrictPrefix(p, n)
    <3>1. IsPrefix(p, n)
      BY <1>1, <1>3, <1>4, <1>5, NodeTypes, PrefixTrans DEF IsStrictPrefix
    <3>2. p # n
      BY <1>4, <2>3
    <3> QED BY <3>1, <3>2 DEF IsStrictPrefix
  <2>7. Direction(t, tree[p].byte, tree[p].bit) = Direction(s, tree[p].byte, tree[p].bit)
    <3>1. Direction(t, tree[p].byte, tree[p].bit) = n[Len(p) + 1]
      BY <1>1, <2>6 DEF Good, Splits, Nodes, t
    <3>2. Direction(s, tree[p].byte, tree[p].bit) = n[Len(p) + 1]
      BY <1>1, <2>6 DEF Way
    <3> QED BY <3>1, <3>2
  <2>8. ~(tree[p].byte = B /\ tree[p].bit = b)
    BY <1>2, <2>7 DEF d
  <2>9. Before(tree[p].byte, tree[p].bit, B, b)
    BY <2>4, <2>5, <2>8 DEF Stops, Before
  <2>10. ASSUME NEW y \in Nodes, IsStrictPrefix(p, y), tree[y].leaf
         PROVE  AgreeUpTo(tree[y].str, s, tree[p].byte, tree[p].bit)
    <3>1. AgreeUpTo(tree[y].str, t, tree[p].byte, tree[p].bit)
      BY <1>1, <2>6, <2>10 DEF Good, Splits, Nodes, t
    <3>2. AgreeUpTo(t, s, tree[p].byte, tree[p].bit)
      BY <1>2, <2>5, <2>9, AgreeBefore
    <3> QED BY <3>1, <3>2, AgreeTrans
  <2> QED BY <2>1, <2>9, <2>10
<1>6. ASSUME ~tree[a].leaf PROVE Before(B, b, tree[a].byte, tree[a].bit)
  <2>1. tree[a].byte \in Nat /\ tree[a].bit \in 0 .. 7
    BY <1>3, <1>6, NodeTypes
  <2> QED BY <1>3, <1>6, <2>1 DEF Stops, Before
<1>7. ASSUME NEW y \in Below(a), tree[y].leaf
      PROVE  AgreeUpTo(tree[y].str, s, B, b) /\ Direction(tree[y].str, B, b) = d
  <2>1. y \in Nodes /\ IsPrefix(a, y)
    BY DEF Below
  <2>2. CASE tree[a].leaf
    <3>1. y = a /\ n = a
      BY <1>1, <1>3, <1>4, <2>1, <2>2 DEF Good, LeavesEnd, IsStrictPrefix, Nodes
    <3> QED BY <1>2, <3>1 DEF t, d
  <2>3. CASE ~tree[a].leaf
    <3>1. IsStrictPrefix(a, y) /\ IsStrictPrefix(a, n)
      BY <1>1, <1>4, <1>7, <2>1, <2>3 DEF IsStrictPrefix
    <3>2. AgreeUpTo(tree[y].str, t, tree[a].byte, tree[a].bit)
      BY <1>1, <1>3, <1>7, <2>1, <3>1 DEF Good, Splits, Nodes, t
    <3>3. tree[a].byte \in Nat /\ tree[a].bit \in 0 .. 7 /\ Before(B, b, tree[a].byte, tree[a].bit)
      BY <1>3, <1>6, <2>3, NodeTypes
    <3>4. AgreeUpTo(tree[y].str, t, B, b) /\ Direction(tree[y].str, B, b) = Direction(t, B, b)
      BY <3>2, <3>3, AgreeBefore
    <3> QED BY <1>2, <3>4, AgreeTrans DEF d
  <2> QED BY <2>2, <2>3
<1>8. Direction(s, B, b) = 1 - d
  BY <1>2
<1>9. Fits(a, s, B, b, d)
  BY <1>5, <1>6, <1>7, <1>8 DEF Fits
<1> QED BY <1>2, <1>3, <1>9 DEF a, d, t, n

\* A string that is not in the tree is inserted, and nothing else changes.
LEMMA InsertGood ==
    ASSUME Good(tree), NEW s \in Bytes, Nodes # {}, ~Present(s)
    PROVE  LET near == tree[Descend(s)].str
               byte == FirstByte(s, near)
               bit == HighestBit(s, near, byte)
               u == Link(Place(s, byte, bit), s, byte, bit, Direction(near, byte, bit))
           IN  Good(u) /\ Strings(u) = Strings(tree) \cup {s}
<1> DEFINE near == tree[Descend(s)].str
           byte == FirstByte(s, near)
           bit == HighestBit(s, near, byte)
           a == Place(s, byte, bit)
           d == Direction(near, byte, bit)
           u == Link(a, s, byte, bit, d)
<1>1. near \in Bytes /\ s # near
  BY DescendFacts, NodeTypes DEF Present
<1>2. /\ byte \in Nat /\ bit \in 0 .. 7
      /\ AgreeUpTo(s, near, byte, bit)
      /\ Direction(s, byte, bit) # Direction(near, byte, bit)
  <2> HIDE DEF near
  <2> QED BY <1>1, FirstDifference
<1> HIDE DEF byte, bit
<1>3. a \in Nodes /\ d \in {0, 1} /\ Fits(a, s, byte, bit, d)
  BY <1>2, InsertFits
<1> HIDE DEF near, a, d
<1>4. Good(u) /\ Strings(u) = Strings(tree) \cup {s}
  BY <1>2, <1>3, LinkGood
<1> QED BY <1>4 DEF near, byte, bit, a, d

-----------------------------------------------------------------------------
(***************************************************************************)
(* Taking a leaf and the node above it out                                 *)
(***************************************************************************)

\* Where the node was that is at x when the child d of q has taken q's place.
Was(q, d, x) == IF IsPrefix(q, x) THEN Moved(q, d, x) ELSE x

\* Everything but q and its other child was somewhere below or beside q.
LEMMA WasType ==
    ASSUME NEW q \in Addr, NEW d \in {0, 1}, NEW x \in Addr
    PROVE  /\ Was(q, d, x) \in Addr
           /\ IsPrefix(q, x) <=> IsPrefix(q, Was(q, d, x))
           /\ Was(q, d, x) # q /\ Was(q, d, x) # Append(q, 1 - d)
           /\ IsPrefix(q, Was(q, d, x)) => Was(q, d, x)[Len(q) + 1] = d
           /\ Len(x) <= Len(Was(q, d, x))
<1>1. q \in Seq(Nat) /\ Len(x) \in Nat /\ IsPrefix(q, q) /\ 1 - d \in {0, 1} /\ 1 - d # d
  BY AddrNat, PrefixSelf
<1>2. IsStrictPrefix(q, Append(q, 1 - d)) /\ Append(q, 1 - d)[Len(q) + 1] = 1 - d
  BY <1>1, BesideFacts
<1>3. CASE IsPrefix(q, x)
  <2>1. /\ Moved(q, d, x) \in Addr /\ Len(Moved(q, d, x)) = Len(x) + 1
        /\ Moved(q, d, x)[Len(q) + 1] = d
    BY <1>3, MovedAt
  <2>2. IsStrictPrefix(q, Moved(q, d, x))
    BY <1>3, MovedUnder
  <2>3. Was(q, d, x) = Moved(q, d, x)
    BY <1>3 DEF Was
  <2> QED BY <1>1, <1>2, <1>3, <2>1, <2>2, <2>3 DEF IsStrictPrefix
<1>4. CASE ~IsPrefix(q, x)
  <2>1. Was(q, d, x) = x
    BY <1>4 DEF Was
  <2>2. x # q /\ x # Append(q, 1 - d)
    BY <1>1, <1>2, <1>4 DEF IsStrictPrefix
  <2>3. Len(x) <= Len(x)
    BY <1>1
  <2> QED BY <1>4, <2>1, <2>2, <2>3
<1> QED BY <1>3, <1>4

\* What is above what, and in which direction, is as it was.
LEMMA WasPairs ==
    ASSUME NEW q \in Addr, NEW d \in {0, 1}, NEW x \in Addr, NEW y \in Addr
    PROVE  /\ IsPrefix(Was(q, d, x), Was(q, d, y)) <=> IsPrefix(x, y)
           /\ IsStrictPrefix(Was(q, d, x), Was(q, d, y)) <=> IsStrictPrefix(x, y)
           /\ IsStrictPrefix(x, y) =>
                Was(q, d, y)[Len(Was(q, d, x)) + 1] = y[Len(x) + 1]
<1>1. CASE IsPrefix(q, x) /\ IsPrefix(q, y)
  BY <1>1, MovedBoth DEF Was
<1>2. CASE ~IsPrefix(q, x) /\ ~IsPrefix(q, y)
  BY <1>2 DEF Was
<1>3. CASE IsPrefix(q, x) /\ ~IsPrefix(q, y)
  <2>1. ~IsPrefix(Moved(q, d, x), y) /\ ~IsPrefix(x, y)
    BY <1>3, MovedOne
  <2> QED BY <1>3, <2>1 DEF Was, IsStrictPrefix
<1>4. CASE ~IsPrefix(q, x) /\ IsPrefix(q, y)
  <2>1. /\ IsStrictPrefix(x, Moved(q, d, y)) <=> IsStrictPrefix(x, y)
        /\ IsStrictPrefix(x, y) => Moved(q, d, y)[Len(x) + 1] = y[Len(x) + 1]
    BY <1>4, MovedOne
  <2>2. x # y /\ x # Moved(q, d, y)
    BY <1>4, MovedUnder DEF IsStrictPrefix
  <2> QED BY <1>4, <2>1, <2>2 DEF Was, IsStrictPrefix
<1> QED BY <1>1, <1>2, <1>3, <1>4

\* The tree after Unlink(), node by node.
LEMMA UnlinkAt ==
    ASSUME Good(tree), NEW q \in Addr, NEW d \in {0, 1},
           Append(q, 1 - d) \in Nodes, tree[Append(q, 1 - d)].leaf
    PROVE  LET u == Unlink(Append(q, 1 - d))
           IN  /\ DOMAIN u \subseteq Addr
               /\ \A x \in Addr : x \in DOMAIN u <=> Was(q, d, x) \in Nodes
               /\ \A x \in DOMAIN u : u[x] = tree[Was(q, d, x)]
               /\ \A w \in Nodes : w # q /\ w # Append(q, 1 - d) =>
                     \E x \in DOMAIN u : w = Was(q, d, x)
<1> DEFINE n == Append(q, 1 - d)
           k == Len(q) + 1
           sibling == Append(q, d)
           moved == {RemoveAt(x, k) : x \in Below(sibling)}
           u == [x \in (Nodes \ Below(q)) \cup moved |->
                   IF x \in moved THEN tree[InsertAt(x, k, d)] ELSE tree[x]]
<1>1. 1 - d \in {0, 1} /\ 1 - d # d /\ 1 - (1 - d) = d /\ Len(q) \in Nat
  BY AddrNat
<1>2. /\ n \in Addr /\ Len(n) = k /\ Front(n) = q /\ Last(n) = 1 - d
      /\ \A z \in Addr : IsPrefix(n, z) <=> IsStrictPrefix(q, z) /\ z[k] = 1 - d
  <2>1. /\ n \in Addr /\ Len(n) = Len(q) + 1
        /\ \A z \in Addr : IsPrefix(n, z) <=> IsStrictPrefix(q, z) /\ z[Len(q) + 1] = 1 - d
    BY <1>1, BesideFacts
  <2>2. Front(n) = q /\ Last(n) = 1 - d
    BY <1>1, FrontAppend
  <2> HIDE DEF n
  <2> QED BY <2>1, <2>2
<1>3. \A z \in Addr : IsPrefix(sibling, z) <=> IsStrictPrefix(q, z) /\ z[k] = d
  BY BesideFacts
<1>4. u = Unlink(n)
  <2> HIDE DEF n
  <2> QED BY <1>1, <1>2 DEF Unlink
<1>5. ASSUME NEW x \in Below(sibling)
      PROVE  /\ RemoveAt(x, k) \in Addr /\ IsPrefix(q, RemoveAt(x, k))
             /\ x = Moved(q, d, RemoveAt(x, k))
  <2>1. x \in Addr /\ x \in Seq({0, 1}) /\ IsStrictPrefix(q, x) /\ x[k] = d
    BY <1>3, NodeTypes DEF Below, Addr
  <2>2. Len(x) \in Nat /\ Len(q) < Len(x) /\ \A i \in 1 .. Len(q) : q[i] = x[i]
    BY <2>1, AddrNat, StrictAt
  <2>3. k \in 1 .. Len(x) /\ k - 1 = Len(q)
    BY <1>1, <2>2
  <2> DEFINE r == RemoveAt(x, k)
  <2> HIDE DEF k
  <2>4. /\ r \in Seq({0, 1}) /\ Len(r) = Len(x) - 1
        /\ \A i \in 1 .. k - 1 : r[i] = x[i]
    BY <2>1, <2>3, RemoveFacts
  <2>5. InsertAt(r, k, d) = x
    BY <2>1, <2>3, InsertRemove
  <2> HIDE DEF r
  <2>6. r \in Addr /\ Len(q) <= Len(r) /\ \A i \in 1 .. Len(q) : q[i] = r[i]
    BY <1>1, <2>2, <2>3, <2>4 DEF Addr
  <2>7. IsPrefix(q, r)
    BY <2>6, AddrNat, PrefixAt
  <2>8. x = Moved(q, d, r)
    BY <2>5 DEF Moved, k
  <2> QED BY <2>6, <2>7, <2>8 DEF r
<1>6. ASSUME NEW x \in Addr, IsPrefix(q, x), Moved(q, d, x) \in Nodes PROVE x \in moved
  <2>1. /\ Moved(q, d, x) \in Addr /\ Moved(q, d, x)[k] = d
        /\ RemoveAt(Moved(q, d, x), k) = x
    BY <1>6, MovedAt
  <2>2. IsStrictPrefix(q, Moved(q, d, x))
    BY <1>6, MovedUnder
  <2>3. Moved(q, d, x) \in Below(sibling)
    BY <1>3, <1>6, <2>1, <2>2 DEF Below
  <2> QED BY <2>1, <2>3
<1>7. ASSUME NEW x \in moved
      PROVE  x \in Addr /\ IsPrefix(q, x) /\ Moved(q, d, x) \in Nodes
  <2>1. PICK y \in Below(sibling) : x = RemoveAt(y, k)
    OBVIOUS
  <2> QED BY <1>5, <2>1 DEF Below
<1>8. DOMAIN u = (Nodes \ Below(q)) \cup moved
  OBVIOUS
<1>9. \A x \in DOMAIN u : u[x] = IF x \in moved THEN tree[Moved(q, d, x)] ELSE tree[x]
  BY DEF Moved
<1> HIDE DEF u, moved
<1>10. DOMAIN u \subseteq Addr
  BY <1>7, <1>8, NodeTypes
<1>11. ASSUME NEW x \in Addr PROVE x \in DOMAIN u <=> Was(q, d, x) \in Nodes
  BY <1>6, <1>7, <1>8 DEF Was, Below
<1>12. ASSUME NEW x \in DOMAIN u PROVE u[x] = tree[Was(q, d, x)]
  BY <1>7, <1>8, <1>9 DEF Was, Below
<1>13. ASSUME NEW w \in Nodes, w # q, w # n PROVE \E x \in DOMAIN u : w = Was(q, d, x)
  <2>1. CASE ~IsPrefix(q, w)
    BY <1>8, <2>1 DEF Was, Below
  <2>2. CASE IsPrefix(q, w)
    <3>1. w \in Addr /\ IsStrictPrefix(q, w)
      BY <1>13, <2>2, NodeTypes DEF IsStrictPrefix
    <3>2. w[k] \in {0, 1}
      <4>1. k \in 1 .. Len(w)
        BY <1>1, <3>1, AddrNat, StrictAt
      <4> QED BY <3>1, <4>1, AddrNat
    <3>3. ~IsPrefix(n, w)
      BY <1>13 DEF Good, LeavesEnd, Nodes, IsStrictPrefix
    <3>4. w[k] = d
      BY <1>1, <1>2, <3>1, <3>2, <3>3
    <3>5. w \in Below(sibling)
      BY <1>3, <3>1, <3>4 DEF Below
    <3>6. PICK x \in Addr : IsPrefix(q, x) /\ w = Moved(q, d, x)
      BY <1>5, <3>5
    <3> QED BY <1>6, <1>8, <3>6 DEF Was
  <2> QED BY <2>1, <2>2
<1> QED BY <1>4, <1>10, <1>11, <1>12, <1>13 DEF n

\* The parts of the invariant after Unlink(): shape and children, ...
LEMMA UnlinkShape ==
    ASSUME Good(tree), NEW q \in Addr, NEW d \in {0, 1},
           Append(q, 1 - d) \in Nodes, tree[Append(q, 1 - d)].leaf
    PROVE  Shape(Unlink(Append(q, 1 - d))) /\ Branches(Unlink(Append(q, 1 - d)))
<1> DEFINE n == Append(q, 1 - d)
           u == Unlink(n)
           O(x) == Was(q, d, x)
<1>1. /\ DOMAIN u \subseteq Addr
      /\ \A x \in Addr : x \in DOMAIN u <=> O(x) \in Nodes
      /\ \A x \in DOMAIN u : u[x] = tree[O(x)]
  BY UnlinkAt
<1>2. 1 - d \in {0, 1} /\ q \in Seq(Nat) /\ Len(q) \in Nat /\ IsPrefix(q, q)
  BY AddrNat, PrefixSelf
<1>3. /\ \A x \in Nodes : x # <<>> => Front(x) \in Nodes
      /\ <<>> \in Nodes /\ IsFiniteSet(Nodes)
      /\ \A x \in Nodes : tree[x] \in LeafNode \cup InnerNode
      /\ \A x \in Nodes : ~tree[x].leaf => \A e \in {0, 1} : Append(x, e) \in Nodes
  BY DEF Good, Shape, Branches, Nodes
\* The node above the leaf has another child, which takes its place.
<1>4. q \in Nodes
  BY <1>2, <1>3, FrontAppend
<1>5. ~tree[q].leaf
  BY <1>2, <1>4, BesideFacts, NodeAbove
<1>6. q \in DOMAIN u
  <2>1. O(q) = Append(q, d)
    BY <1>2, MovedAppend DEF Was
  <2> QED BY <1>1, <1>3, <1>4, <1>5, <2>1
<1>7. ASSUME NEW x \in Nodes, ~IsPrefix(q, x) PROVE x \in DOMAIN u /\ O(x) = x
  BY <1>1, <1>7, NodeTypes DEF Was
<1> HIDE DEF u, n
<1>8. IsFiniteSet(DOMAIN u)
  <2> DEFINE f == [x \in DOMAIN u |-> O(x)]
  <2>1. f \in [DOMAIN u -> Nodes]
    BY <1>1
  <2>2. ASSUME NEW x \in DOMAIN u, NEW y \in DOMAIN u, O(x) = O(y) PROVE x = y
    <3>1. x \in Addr /\ y \in Addr /\ O(x) \in Seq(Nat)
      BY <1>1, WasType, AddrNat
    <3>2. IsPrefix(O(x), O(y)) /\ IsPrefix(O(y), O(x))
      BY <2>2, <3>1, PrefixSelf
    <3>3. IsPrefix(x, y) /\ IsPrefix(y, x)
      BY <3>1, <3>2, WasPairs
    <3>4. Len(y) <= Len(x)
      BY <3>1, <3>3, AddrNat, PrefixAt
    <3> QED BY <3>1, <3>3, <3>4, AddrNat, PrefixEqual
  <2>3. f \in Injection(DOMAIN u, Nodes)
    <3>1. \A x, y \in DOMAIN u : f[x] = f[y] => x = y
      BY <2>2
    <3> HIDE DEF f
    <3> QED BY <2>1, <3>1 DEF Injection, IsInjective
  <2> QED BY <1>3, <2>3, FS_Injection
<1>9. \E m \in Nat : \A x \in DOMAIN u : Len(x) <= m
  <2>1. PICK m \in Nat : \A x \in Nodes : Len(x) <= m
    BY DEF Good, Shape, Nodes
  <2>2. ASSUME NEW x \in DOMAIN u PROVE Len(x) <= m
    <3>1. x \in Addr /\ O(x) \in Nodes
      BY <1>1
    <3>2. Len(x) <= Len(O(x)) /\ Len(x) \in Nat /\ Len(O(x)) \in Nat
      BY <3>1, WasType, AddrNat
    <3>3. Len(O(x)) <= m
      BY <2>1, <3>1
    <3> QED BY <3>2, <3>3
  <2> QED BY <2>2
<1>10. \A x \in DOMAIN u : u[x] \in LeafNode \cup InnerNode
  BY <1>1, <1>3
<1>11. <<>> \in DOMAIN u
  <2>1. CASE q = <<>>
    BY <1>6, <2>1
  <2>2. CASE q # <<>>
    <3>1. Len(q) # 0
      BY <1>2, <2>2 DEF Addr
    <3>2. ~IsPrefix(q, <<>>)
      BY <1>2, <1>3, <3>1, NodeTypes, PrefixAt
    <3> QED BY <1>3, <1>7, <3>2
  <2> QED BY <2>1, <2>2
<1>12. ASSUME NEW x \in DOMAIN u, x # <<>> PROVE Front(x) \in DOMAIN u
  <2>1. PICK f \in Addr, e \in {0, 1} : x = Append(f, e) /\ f = Front(x)
    BY <1>1, <1>12, FrontAt
  <2>2. IsStrictPrefix(q, x) <=> IsPrefix(q, f)
    BY <2>1, BesideFacts
  <2>3. CASE IsPrefix(q, f)
    <3>1. O(x) = Append(O(f), e) /\ O(f) \in Addr
      <4>1. IsPrefix(q, x) /\ Moved(q, d, x) = Append(Moved(q, d, f), e)
        BY <2>1, <2>3, MovedAppend
      <4> QED BY <2>1, <2>3, <4>1, WasType DEF Was
    <3>2. O(f) = Front(O(x)) /\ O(x) # <<>>
      BY <3>1, FrontAppend
    <3>3. O(f) \in Nodes
      BY <1>1, <1>3, <3>2
    <3> QED BY <1>1, <2>1, <3>3
  <2>4. CASE ~IsPrefix(q, f)
    <3>1. x \in Nodes
      <4>1. CASE x = q
        BY <1>4, <4>1
      <4>2. CASE x # q
        <5>1. ~IsPrefix(q, x)
          BY <2>2, <2>4, <4>2 DEF IsStrictPrefix
        <5> QED BY <1>1, <5>1 DEF Was
      <4> QED BY <4>1, <4>2
    <3>2. f \in Nodes
      BY <1>3, <1>12, <2>1, <3>1
    <3> QED BY <1>7, <2>1, <2>4, <3>2
  <2> QED BY <2>3, <2>4
<1>13. Shape(u)
  BY <1>1, <1>8, <1>9, <1>10, <1>11, <1>12 DEF Shape
<1>14. ASSUME NEW x \in DOMAIN u, ~u[x].leaf, NEW e \in {0, 1} PROVE Append(x, e) \in DOMAIN u
  <2>1. x \in Addr /\ O(x) \in Nodes /\ Append(O(x), e) \in Nodes /\ Append(x, e) \in Addr
    BY <1>1, <1>3, <1>14, BesideFacts
  <2>2. CASE IsPrefix(q, x)
    <3>1. O(Append(x, e)) = Append(O(x), e)
      <4>1. IsPrefix(q, Append(x, e)) /\ Moved(q, d, Append(x, e)) = Append(Moved(q, d, x), e)
        BY <2>1, <2>2, MovedAppend
      <4> QED BY <2>2, <4>1 DEF Was
    <3> QED BY <1>1, <2>1, <3>1
  <2>3. CASE ~IsPrefix(q, x)
    <3>1. O(x) = x
      BY <2>3 DEF Was
    <3>2. CASE IsPrefix(q, Append(x, e))
      <4>1. ~IsStrictPrefix(q, Append(x, e))
        BY <2>1, <2>3, BesideFacts
      <4>2. q = Append(x, e)
        BY <3>2, <4>1 DEF IsStrictPrefix
      <4> QED BY <1>6, <4>2
    <3>3. CASE ~IsPrefix(q, Append(x, e))
      BY <1>7, <2>1, <3>1, <3>3
    <3> QED BY <3>2, <3>3
  <2> QED BY <2>2, <2>3
<1>15. Branches(u)
  BY <1>14 DEF Branches
<1> QED BY <1>13, <1>15 DEF u, n

\* ... and the others, which hold because nothing but addresses has changed.
LEMMA UnlinkGood ==
    ASSUME Good(tree), NEW q \in Addr, NEW d \in {0, 1},
           Append(q, 1 - d) \in Nodes, tree[Append(q, 1 - d)].leaf
    PROVE  /\ Good(Unlink(Append(q, 1 - d)))
           /\ Strings(Unlink(Append(q, 1 - d))) = Strings(tree) \ {tree[Append(q, 1 - d)].str}
<1> DEFINE n == Append(q, 1 - d)
           u == Unlink(n)
           O(x) == Was(q, d, x)
<1>1. /\ DOMAIN u \subseteq Addr
      /\ \A x \in DOMAIN u : O(x) \in Nodes /\ u[x] = tree[O(x)]
      /\ \A w \in Nodes : w # q /\ w # n => \E x \in DOMAIN u : w = O(x)
  <2>1. /\ DOMAIN u \subseteq Addr
        /\ \A x \in Addr : x \in DOMAIN u <=> O(x) \in Nodes
        /\ \A x \in DOMAIN u : u[x] = tree[O(x)]
        /\ \A w \in Nodes : w # q /\ w # n => \E x \in DOMAIN u : w = O(x)
    BY UnlinkAt
  <2> QED BY <2>1
<1>2. \A x \in DOMAIN u : O(x) # q /\ O(x) # n
                          /\ (IsPrefix(q, O(x)) => O(x)[Len(q) + 1] = d)
  BY <1>1, WasType
<1>3. \A x, y \in DOMAIN u : /\ IsPrefix(O(x), O(y)) <=> IsPrefix(x, y)
                             /\ IsStrictPrefix(O(x), O(y)) <=> IsStrictPrefix(x, y)
                             /\ IsStrictPrefix(x, y) => O(y)[Len(O(x)) + 1] = y[Len(x) + 1]
  <2> SUFFICES ASSUME NEW x \in DOMAIN u, NEW y \in DOMAIN u
               PROVE  /\ IsPrefix(O(x), O(y)) <=> IsPrefix(x, y)
                      /\ IsStrictPrefix(O(x), O(y)) <=> IsStrictPrefix(x, y)
                      /\ IsStrictPrefix(x, y) => O(y)[Len(O(x)) + 1] = y[Len(x) + 1]
    OBVIOUS
  <2>1. x \in Addr /\ y \in Addr
    BY <1>1
  <2> HIDE DEF u
  <2> QED BY <2>1, WasPairs
<1>4. 1 - d \in {0, 1} /\ IsStrictPrefix(q, n)
  BY BesideFacts
<1>5. q \in Nodes
  BY <1>4, FrontAppend DEF Good, Shape, Nodes
<1>6. ~tree[q].leaf
  BY <1>4, <1>5, NodeAbove
<1>7. Shape(u) /\ Branches(u)
  BY UnlinkShape
<1>8. n \in Nodes /\ tree[n].leaf
  OBVIOUS
<1> HIDE DEF u, n, O
<1>9. Forks(u)
  <2> SUFFICES ASSUME NEW x \in DOMAIN u, NEW y \in DOMAIN u, ~IsPrefix(x, y), ~IsPrefix(y, x)
               PROVE  \E c \in DOMAIN u : /\ IsStrictPrefix(c, x) /\ IsStrictPrefix(c, y)
                                          /\ x[Len(c) + 1] # y[Len(c) + 1]
    BY DEF Forks
  <2>1. ~IsPrefix(O(x), O(y)) /\ ~IsPrefix(O(y), O(x)) /\ O(x) \in Nodes /\ O(y) \in Nodes
    BY <1>1, <1>3
  <2>2. PICK c \in Nodes : /\ IsStrictPrefix(c, O(x)) /\ IsStrictPrefix(c, O(y))
                           /\ O(x)[Len(c) + 1] # O(y)[Len(c) + 1]
    BY <2>1 DEF Good, Forks, Nodes
  <2>3. c # n
    BY <1>8, <2>1, <2>2, NodeAbove
  <2>4. c # q
    BY <1>2, <2>2 DEF IsStrictPrefix
  <2>5. PICK b \in DOMAIN u : c = O(b)
    BY <1>1, <2>3, <2>4
  <2>6. IsStrictPrefix(b, x) /\ IsStrictPrefix(b, y)
    BY <1>3, <2>2, <2>5
  <2>7. x[Len(b) + 1] # y[Len(b) + 1]
    BY <1>3, <2>2, <2>5, <2>6
  <2> QED BY <2>6, <2>7
<1>10. LeavesEnd(u)
  BY <1>1, <1>3 DEF Good, LeavesEnd, Nodes
<1>11. Ordered(u)
  <2> SUFFICES ASSUME NEW x \in DOMAIN u, NEW y \in DOMAIN u, IsStrictPrefix(x, y), ~u[y].leaf
               PROVE  Before(u[x].byte, u[x].bit, u[y].byte, u[y].bit)
    BY DEF Ordered
  <2>1. IsStrictPrefix(O(x), O(y)) /\ u[x] = tree[O(x)] /\ u[y] = tree[O(y)]
        /\ O(x) \in Nodes /\ O(y) \in Nodes
    BY <1>1, <1>3
  <2> QED BY <2>1 DEF Good, Ordered, Nodes
<1>12. Splits(u)
  <2> SUFFICES ASSUME NEW p \in DOMAIN u, NEW x \in DOMAIN u, NEW y \in DOMAIN u,
                      IsStrictPrefix(p, x), IsStrictPrefix(p, y), u[x].leaf, u[y].leaf
               PROVE  /\ Direction(u[x].str, u[p].byte, u[p].bit) = x[Len(p) + 1]
                      /\ AgreeUpTo(u[x].str, u[y].str, u[p].byte, u[p].bit)
    BY DEF Splits
  <2>1. /\ IsStrictPrefix(O(p), O(x)) /\ IsStrictPrefix(O(p), O(y))
        /\ O(x)[Len(O(p)) + 1] = x[Len(p) + 1]
        /\ u[x] = tree[O(x)] /\ u[y] = tree[O(y)] /\ u[p] = tree[O(p)]
        /\ O(x) \in Nodes /\ O(y) \in Nodes /\ O(p) \in Nodes
    BY <1>1, <1>3
  <2> QED BY <2>1 DEF Good, Splits, Nodes
<1>13. ASSUME NEW t PROVE t \in Strings(u) <=> t \in Strings(tree) /\ t # tree[n].str
  <2>1. ASSUME t \in Strings(u) PROVE t \in Strings(tree) /\ t # tree[n].str
    <3>1. PICK x \in DOMAIN u : u[x].leaf /\ t = u[x].str
      BY <2>1 DEF Strings
    <3>2. O(x) \in Nodes /\ tree[O(x)].leaf /\ t = tree[O(x)].str /\ O(x) # n
      BY <1>1, <1>2, <3>1
    <3>3. O(x) = Descend(t) /\ n = Descend(tree[n].str)
      BY <1>8, <3>2, OwnWay
    <3> QED BY <3>2, <3>3 DEF Strings, Nodes
  <2>2. ASSUME t \in Strings(tree), t # tree[n].str PROVE t \in Strings(u)
    <3>1. PICK w \in Nodes : tree[w].leaf /\ t = tree[w].str
      BY <2>2 DEF Strings, Nodes
    <3>2. w # q /\ w # n
      BY <1>6, <2>2, <3>1
    <3>3. PICK x \in DOMAIN u : w = O(x)
      BY <1>1, <3>2
    <3> QED BY <1>1, <3>1, <3>3 DEF Strings
  <2> QED BY <2>1, <2>2
<1>14. Good(u)
  BY <1>7, <1>9, <1>10, <1>11, <1>12 DEF Good
<1>15. Strings(u) = Strings(tree) \ {tree[n].str}
  BY <1>13
<1> QED BY <1>14, <1>15 DEF u, n

-----------------------------------------------------------------------------
(***************************************************************************)
(* Small trees, and what cb_tree_delete() leaves                           *)
(***************************************************************************)

\* The empty tree,
LEMMA EmptyGood == Good(<<>>) /\ Strings(<<>>) = {}
<1>1. DOMAIN <<>> = {}
  OBVIOUS
<1>2. IsFiniteSet({}) /\ 0 \in Nat
  BY FS_EmptySet
<1>3. Shape(<<>>)
  BY <1>1, <1>2 DEF Shape
<1> QED BY <1>1, <1>3 DEF Good, Forks, LeavesEnd, Branches, Splits, Ordered, Strings

\* and one with a single string.
LEMMA SingleGood ==
    ASSUME NEW s \in Bytes
    PROVE  LET t == [x \in {<<>>} |-> Leaf(s)]
           IN  Good(t) /\ Strings(t) = {s}
<1> DEFINE t == [x \in {<<>>} |-> Leaf(s)]
<1>1. DOMAIN t = {<<>>} /\ t[<<>>] = Leaf(s)
  OBVIOUS
<1>2. Leaf(s).leaf = TRUE /\ Leaf(s).str = s /\ Leaf(s) \in LeafNode
  BY DEF Leaf, LeafNode
<1> HIDE DEF t
<1>3. <<>> \in Addr /\ Len(<<>>) = 0 /\ IsFiniteSet({<<>>}) /\ IsPrefix(<<>>, <<>>)
  <2>1. <<>> \in Addr
    BY DEF Addr
  <2> QED BY <2>1, AddrNat, PrefixSelf, FS_Singleton
<1>4. Shape(t)
  BY <1>1, <1>2, <1>3 DEF Shape
<1>5. Forks(t) /\ LeavesEnd(t) /\ Branches(t) /\ Splits(t) /\ Ordered(t)
  BY <1>1, <1>2, <1>3 DEF Forks, LeavesEnd, Branches, Splits, Ordered, IsStrictPrefix
<1>6. Strings(t) = {s}
  BY <1>1, <1>2 DEF Strings
<1> QED BY <1>4, <1>5, <1>6 DEF Good, t

\* A string of the tree is taken out, and nothing else changes.
LEMMA DeleteGood ==
    ASSUME Good(tree), NEW s \in Bytes, Present(s)
    PROVE  LET u == IF Descend(s) = <<>> THEN <<>> ELSE Unlink(Descend(s))
           IN  Good(u) /\ Strings(u) = Strings(tree) \ {s}
<1> DEFINE n == Descend(s)
<1>1. n \in Nodes /\ tree[n].leaf /\ tree[n].str = s /\ n \in Addr
  BY DescendFacts, NodeTypes DEF Present
<1> HIDE DEF n
<1>2. CASE n = <<>>
  <2>1. ASSUME NEW x \in Nodes PROVE x = <<>>
    <3>1. /\ x \in Seq(Nat) /\ Len(x) \in Nat /\ n \in Seq(Nat) /\ Len(n) = 0
          /\ Len(n) <= Len(x) /\ \A i \in 1 .. Len(n) : n[i] = x[i]
      BY <1>1, <1>2, NodeTypes
    <3>2. IsPrefix(n, x)
      BY <3>1, PrefixAt
    <3>3. ~IsStrictPrefix(n, x)
      BY <1>1, NodeAbove
    <3> QED BY <1>2, <3>2, <3>3 DEF IsStrictPrefix
  <2>2. Strings(tree) = {s}
    BY <1>1, <1>2, <2>1 DEF Strings, Nodes
  <2>3. Strings(tree) \ {s} = {}
    BY <2>2
  <2> QED BY <1>2, <2>3, EmptyGood DEF n
<1>3. CASE n # <<>>
  <2>1. PICK q \in Addr, e \in {0, 1} : n = Append(q, e)
    BY <1>1, <1>3, FrontAt
  <2>2. 1 - e \in {0, 1} /\ 1 - (1 - e) = e
    OBVIOUS
  <2>3. PICK d \in {0, 1} : n = Append(q, 1 - d)
    BY <2>1, <2>2
  <2>4. Good(Unlink(n)) /\ Strings(Unlink(n)) = Strings(tree) \ {tree[n].str}
    BY <1>1, <2>3, UnlinkGood
  <2> QED BY <1>1, <1>3, <2>4 DEF n
<1> QED BY <1>2, <1>3

-----------------------------------------------------------------------------
(***************************************************************************)
(* The order in which leaves are visited                                   *)
(***************************************************************************)

\* To the left of is transitive.
LEMMA LeftTrans ==
    ASSUME NEW x \in Addr, NEW y \in Addr, NEW z \in Addr, LeftOf(x, y), LeftOf(y, z)
    PROVE  LeftOf(x, z)
<1>1. PICK i \in 1 .. Len(x) : i <= Len(y) /\ x[i] < y[i] /\ \A k \in 1 .. i - 1 : x[k] = y[k]
  BY DEF LeftOf
<1>2. PICK j \in 1 .. Len(y) : j <= Len(z) /\ y[j] < z[j] /\ \A k \in 1 .. j - 1 : y[k] = z[k]
  BY DEF LeftOf
<1>3. Len(x) \in Nat /\ Len(y) \in Nat /\ Len(z) \in Nat
  BY AddrNat
<1>4. i \in Nat /\ j \in Nat
  BY <1>3
<1>5. x[i] \in {0, 1} /\ y[i] \in {0, 1} /\ y[j] \in {0, 1} /\ z[j] \in {0, 1}
  <2>1. i \in 1 .. Len(y) /\ j \in 1 .. Len(z)
    BY <1>1, <1>2, <1>3
  <2> QED BY <2>1, AddrNat
<1>6. CASE i < j
  <2>1. i \in 1 .. j - 1 /\ i <= Len(z) /\ \A k \in 1 .. i - 1 : k \in 1 .. j - 1
    BY <1>2, <1>3, <1>4, <1>6
  <2> QED BY <1>1, <1>2, <2>1 DEF LeftOf
<1>7. CASE j < i
  <2>1. j \in 1 .. i - 1 /\ j \in 1 .. Len(x) /\ \A k \in 1 .. j - 1 : k \in 1 .. i - 1
    BY <1>2, <1>3, <1>4, <1>7
  <2> QED BY <1>1, <1>2, <2>1 DEF LeftOf
<1>8. CASE i = j
  BY <1>1, <1>2, <1>5, <1>8
<1> QED BY <1>4, <1>6, <1>7, <1>8

\* Two leaves are at different places, and the fork between them tells which
\* one is to the left.
LEMMA LeafFork ==
    ASSUME Good(tree), NEW x \in Nodes, NEW y \in Nodes, tree[x].leaf, tree[y].leaf, x # y
    PROVE  \E c \in Nodes : /\ IsStrictPrefix(c, x) /\ IsStrictPrefix(c, y)
                            /\ \/ x[Len(c) + 1] = 0 /\ y[Len(c) + 1] = 1 /\ LeftOf(x, y)
                               \/ x[Len(c) + 1] = 1 /\ y[Len(c) + 1] = 0 /\ LeftOf(y, x)
<1>1. ~IsPrefix(x, y) /\ ~IsPrefix(y, x)
  BY NodeAbove DEF IsStrictPrefix
<1>2. PICK c \in Nodes : /\ IsStrictPrefix(c, x) /\ IsStrictPrefix(c, y)
                         /\ x[Len(c) + 1] # y[Len(c) + 1]
  BY <1>1 DEF Good, Forks, Nodes
<1>3. /\ Len(c) \in Nat /\ Len(x) \in Nat /\ Len(y) \in Nat
      /\ Len(c) < Len(x) /\ Len(c) < Len(y)
      /\ \A i \in 1 .. Len(c) : c[i] = x[i] /\ c[i] = y[i]
      /\ \A i \in 1 .. Len(x) : x[i] \in {0, 1}
      /\ \A i \in 1 .. Len(y) : y[i] \in {0, 1}
  BY <1>2, NodeTypes, StrictAt, AddrNat
<1> DEFINE k == Len(c) + 1
<1>4. /\ k \in 1 .. Len(x) /\ k \in 1 .. Len(y) /\ k - 1 = Len(c)
      /\ k <= Len(y) /\ k <= Len(x)
  BY <1>3
<1>5. x[k] \in {0, 1} /\ y[k] \in {0, 1} /\ x[k] # y[k]
  BY <1>2, <1>3, <1>4
<1> HIDE DEF k
<1>6. \A j \in 1 .. k - 1 : x[j] = y[j] /\ y[j] = x[j]
  BY <1>3, <1>4
<1>7. CASE x[k] = 0 /\ y[k] = 1
  <2>1. x[k] < y[k]
    BY <1>7
  <2>2. LeftOf(x, y)
    BY <1>4, <1>6, <2>1 DEF LeftOf
  <2> QED BY <1>2, <1>7, <2>2 DEF k
<1>8. CASE x[k] = 1 /\ y[k] = 0
  <2>1. y[k] < x[k]
    BY <1>8
  <2>2. LeftOf(y, x)
    BY <1>4, <1>6, <2>1 DEF LeftOf
  <2> QED BY <1>2, <1>8, <2>2 DEF k
<1> QED BY <1>5, <1>7, <1>8

\* Nothing is to the left of itself.
LEMMA LeftIrreflexive == \A x \in Addr : ~LeftOf(x, x)
<1> SUFFICES ASSUME NEW x \in Addr, LeftOf(x, x) PROVE FALSE
  OBVIOUS
<1>1. PICK i \in 1 .. Len(x) : x[i] < x[i]
  BY DEF LeftOf
<1>2. x[i] \in {0, 1}
  BY AddrNat
<1> QED BY <1>1, <1>2

\* Strings are sequences of numbers.
LEMMA BytesNat == \A s \in Bytes : s \in Seq(Nat) /\ Len(s) \in Nat
<1>1. 1 .. 255 \subseteq Nat
  OBVIOUS
<1>2. Seq(1 .. 255) \subseteq Seq(Nat)
  BY <1>1, SeqMonotonic
<1> QED BY <1>2 DEF Bytes

\* StringSet.tla means the same by a prefix.
LEMMA SSPrefix == \A s, t : /\ SS!IsPrefix(s, t) <=> IsPrefix(s, t)
                            /\ SS!IsStrictPrefix(s, t) <=> IsStrictPrefix(s, t)
BY DEF SS!IsPrefix, SS!IsStrictPrefix, IsPrefix, IsStrictPrefix

\* Strings that agree up to a byte compare as the byte does.
LEMMA BytesLess ==
    ASSUME NEW s \in Bytes, NEW t \in Bytes, NEW B \in Nat,
           \A i \in 0 .. B - 1 : ByteAt(s, i) = ByteAt(t, i),
           ByteAt(s, B) < ByteAt(t, B)
    PROVE  SS!StrLess(s, t)
<1>1. /\ Len(s) \in Nat /\ Len(t) \in Nat
      /\ ByteAt(s, B) \in 0 .. 255 /\ ByteAt(t, B) \in 0 .. 255
      /\ ByteAt(s, B) = 0 <=> B >= Len(s)
      /\ ByteAt(t, B) = 0 <=> B >= Len(t)
  BY ByteAtType
<1>2. B < Len(t) /\ ByteAt(t, B) = t[B + 1]
  <2>1. ByteAt(t, B) # 0
    <3>1. ByteAt(s, B) \in 0 .. 255 /\ ByteAt(t, B) \in 0 .. 255 /\ ByteAt(s, B) < ByteAt(t, B)
      BY <1>1
    <3> QED BY ONLY <3>1
  <2>2. B < Len(t)
    BY <1>1, <2>1
  <2> QED BY <2>2, ByteAtType
<1>3. B <= Len(s)
  <2> SUFFICES ASSUME Len(s) < B PROVE FALSE
    BY <1>1
  <2>1. Len(s) \in 0 .. B - 1 /\ Len(s) >= Len(s) /\ ~(Len(s) >= Len(t))
    BY <1>1, <1>2
  <2>2. ByteAt(s, Len(s)) = 0 /\ ByteAt(t, Len(s)) # 0
    BY <1>1, <2>1, ByteAtType
  <2> QED BY <2>1, <2>2
<1>4. ASSUME NEW j \in 1 .. B PROVE s[j] = t[j]
  <2>1. j - 1 \in Nat /\ j - 1 \in 0 .. B - 1 /\ j - 1 < Len(s) /\ j - 1 < Len(t) /\ (j - 1) + 1 = j
    BY <1>1, <1>2, <1>3
  <2>2. ByteAt(s, j - 1) = s[(j - 1) + 1] /\ ByteAt(t, j - 1) = t[(j - 1) + 1]
    BY <2>1, ByteAtType
  <2> QED BY <2>1, <2>2
<1>5. CASE B = Len(s)
  <2>1. s \in Seq(Nat) /\ t \in Seq(Nat)
    BY BytesNat
  <2>2. IsStrictPrefix(s, t)
    BY <1>2, <1>4, <1>5, <2>1, StrictAt
  <2> QED BY <2>2, SSPrefix DEF SS!StrLess
<1>6. CASE B < Len(s)
  <2>1. B + 1 \in 1 .. Len(s) /\ B + 1 <= Len(t) /\ (B + 1) - 1 = B
    BY <1>1, <1>2, <1>6
  <2>2. s[B + 1] < t[B + 1]
    BY <1>2, <1>6, ByteAtType
  <2>3. \A j \in 1 .. (B + 1) - 1 : s[j] = t[j]
    BY <1>4, <2>1
  <2> QED BY <2>1, <2>2, <2>3 DEF SS!StrLess
<1> QED BY <1>1, <1>3, <1>5, <1>6

\* What is to the left is smaller.
LEMMA LeftLess ==
    ASSUME Good(tree), NEW x \in Nodes, NEW y \in Nodes, tree[x].leaf, tree[y].leaf,
           LeftOf(x, y)
    PROVE  SS!StrLess(tree[x].str, tree[y].str)
<1>1. x \in Addr /\ y \in Addr /\ tree[x].str \in Bytes /\ tree[y].str \in Bytes
  BY NodeTypes
<1>2. x # y /\ ~LeftOf(y, x)
  BY <1>1, LeftTrans, LeftIrreflexive
<1>3. PICK c \in Nodes : /\ IsStrictPrefix(c, x) /\ IsStrictPrefix(c, y)
                         /\ x[Len(c) + 1] = 0 /\ y[Len(c) + 1] = 1
  BY <1>2, LeafFork
<1>4. tree[c].byte \in Nat /\ tree[c].bit \in 0 .. 7
  BY <1>3, NodeAbove
<1> DEFINE s == tree[x].str
           t == tree[y].str
           B == tree[c].byte
           b == tree[c].bit
<1>5. Direction(s, B, b) = 0 /\ Direction(t, B, b) = 1 /\ AgreeUpTo(s, t, B, b)
  BY <1>3 DEF Good, Splits, Nodes
<1>6. s \in Bytes /\ t \in Bytes /\ B \in Nat /\ b \in 0 .. 7
  BY <1>1, <1>4
<1> HIDE DEF s, t, B, b
<1>7. /\ ByteAt(s, B) \in 0 .. 255 /\ ByteAt(t, B) \in 0 .. 255
      /\ Bit(ByteAt(s, B), b) = 0 /\ Bit(ByteAt(t, B), b) = 1
      /\ \A e \in b + 1 .. 7 : Bit(ByteAt(s, B), e) = Bit(ByteAt(t, B), e)
      /\ \A i \in 0 .. B - 1 : ByteAt(s, i) = ByteAt(t, i)
  BY <1>5, <1>6, ByteAtType, DirectionBit DEF AgreeUpTo
<1>8. ByteAt(s, B) < ByteAt(t, B)
  BY <1>6, <1>7, BitLess
<1>9. SS!StrLess(s, t)
  BY <1>6, <1>7, <1>8, BytesLess
<1> QED BY <1>9 DEF s, t

-----------------------------------------------------------------------------
(***************************************************************************)
(* cb_tree_walk_prefixed()                                                 *)
(***************************************************************************)

Reached(prefix) == {x \in Way(prefix) : x = <<>> \/ tree[Front(x)].byte < Len(prefix)}

\* The walk finds a lowest node.
LEMMA TopFacts ==
    ASSUME Good(tree), NEW prefix \in Bytes, Nodes # {}
    PROVE  /\ Top(prefix) \in Reached(prefix) /\ Top(prefix) \in Nodes
           /\ \A y \in Reached(prefix) : IsPrefix(y, Top(prefix))
<1> DEFINE W == Reached(prefix)
           L == {Len(x) : x \in W}
<1>1. <<>> \in W
  BY RootOnWay DEF Reached
<1>2. \A x \in W : x \in Way(prefix) /\ x \in Nodes /\ Len(x) \in Nat /\ x \in Seq(Nat)
  BY NodeTypes DEF Way, Reached
<1>3. PICK n \in Nat : \A x \in Nodes : Len(x) <= n
  BY DEF Good, Shape, Nodes
<1> HIDE DEF W
<1>4. L \in SUBSET Int /\ L # {} /\ (\A i \in L : i <= n) /\ n \in Int
  <2>1. ASSUME NEW i \in L PROVE i \in Int /\ i <= n
    <3>1. PICK x \in W : i = Len(x)
      OBVIOUS
    <3> QED BY <1>2, <1>3, <3>1
  <2>2. L # {}
    BY <1>1
  <2> QED BY <2>1, <2>2
<1> HIDE DEF L
<1>5. Max(L) \in L /\ \A i \in L : i <= Max(L)
  BY ONLY <1>4, MaxFacts
<1>6. PICK x \in W : Len(x) = Max(L)
  BY <1>5 DEF L
<1>7. ASSUME NEW y \in W PROVE IsPrefix(y, x)
  <2>1. Len(y) <= Len(x)
    BY <1>5, <1>6 DEF L
  <2>2. CASE IsPrefix(x, y)
    <3>1. y = x
      BY <1>2, <2>1, <2>2, PrefixEqual
    <3> QED BY <2>2, <3>1
  <2> QED BY <1>2, <2>2, WayLinear
<1>8. Top(prefix) = CHOOSE z \in W : \A y \in W : IsPrefix(y, z)
  BY DEF Top, W, Reached
<1>9. Top(prefix) \in W /\ \A y \in W : IsPrefix(y, Top(prefix))
  BY <1>7, <1>8
<1> QED BY <1>2, <1>9 DEF W

\* A string has a prefix if its first bytes are those of the prefix.
LEMMA PrefixBytes ==
    ASSUME NEW s \in Bytes, NEW prefix \in Bytes
    PROVE  /\ IsPrefix(prefix, s) <=>
                \A i \in 0 .. Len(prefix) - 1 : ByteAt(s, i) = ByteAt(prefix, i)
<1>1. Len(s) \in Nat /\ Len(prefix) \in Nat /\ s \in Seq(Nat) /\ prefix \in Seq(Nat)
  BY BytesNat
<1>2. IsPrefix(prefix, s) <=> Len(prefix) <= Len(s) /\ \A i \in 1 .. Len(prefix) : prefix[i] = s[i]
  BY <1>1, PrefixAt
<1>3. ASSUME Len(prefix) <= Len(s), \A i \in 1 .. Len(prefix) : prefix[i] = s[i],
             NEW i \in 0 .. Len(prefix) - 1
      PROVE  ByteAt(s, i) = ByteAt(prefix, i)
  <2>1. i \in Nat /\ i < Len(prefix) /\ i < Len(s) /\ i + 1 \in 1 .. Len(prefix)
    BY <1>1, <1>3
  <2> QED BY <1>3, <2>1, ByteAtType
<1>4. ASSUME \A i \in 0 .. Len(prefix) - 1 : ByteAt(s, i) = ByteAt(prefix, i)
      PROVE  Len(prefix) <= Len(s) /\ \A i \in 1 .. Len(prefix) : prefix[i] = s[i]
  <2>1. ASSUME NEW i \in 1 .. Len(prefix) PROVE i - 1 < Len(s) /\ prefix[i] = s[i]
    <3>1. i - 1 \in Nat /\ i - 1 \in 0 .. Len(prefix) - 1 /\ i - 1 < Len(prefix) /\ (i - 1) + 1 = i
          /\ ~(i - 1 >= Len(prefix))
      BY <1>1
    <3>2. ByteAt(prefix, i - 1) = prefix[i] /\ ByteAt(prefix, i - 1) # 0
      BY <3>1, ByteAtType
    <3>3. ByteAt(s, i - 1) # 0 /\ ByteAt(s, i - 1) = prefix[i]
      BY <1>4, <3>1, <3>2
    <3>4. ~(i - 1 >= Len(s))
      BY <3>1, <3>3, ByteAtType
    <3>5. i - 1 < Len(s)
      BY <1>1, <3>1, <3>4
    <3> QED BY <3>1, <3>3, <3>5, ByteAtType
  <2>2. Len(prefix) <= Len(s)
    <3>1. CASE Len(prefix) = 0
      BY <1>1, <3>1
    <3>2. CASE Len(prefix) # 0
      <4>1. Len(prefix) \in 1 .. Len(prefix)
        BY <1>1, <3>2
      <4>2. Len(prefix) - 1 < Len(s)
        BY <2>1, <4>1
      <4> QED BY <1>1, <4>2
    <3> QED BY <3>1, <3>2
  <2> QED BY <2>1, <2>2
<1> QED BY <1>2, <1>3, <1>4

\* A string with the prefix goes where the prefix does, as far as it reaches.
LEMMA PrefixDirection ==
    ASSUME NEW s \in Bytes, NEW prefix \in Bytes, IsPrefix(prefix, s),
           NEW B \in Nat, B < Len(prefix), NEW b
    PROVE  Direction(s, B, b) = Direction(prefix, B, b)
<1>1. B \in 0 .. Len(prefix) - 1
  BY BytesNat
<1>2. ByteAt(s, B) = ByteAt(prefix, B)
  BY <1>1, PrefixBytes
<1> QED BY <1>2 DEF Direction

\* Every node above the top splits within the prefix.
LEMMA AboveTop ==
    ASSUME Good(tree), NEW prefix \in Bytes, Nodes # {}, NEW p \in Nodes,
           IsStrictPrefix(p, Top(prefix))
    PROVE  tree[p].byte < Len(prefix)
<1> DEFINE top == Top(prefix)
<1>1. top \in Nodes /\ (top = <<>> \/ tree[Front(top)].byte < Len(prefix))
  BY TopFacts DEF Reached
<1>2. IsStrictPrefix(p, top)
  OBVIOUS
<1> HIDE DEF top
<1>3. top # <<>>
  <2>1. Len(p) < Len(top) /\ Len(p) \in Nat
    BY <1>1, <1>2, NodeTypes, StrictAt
  <2> QED BY <2>1
<1>4. Front(top) \in Nodes
  BY <1>1, <1>3 DEF Good, Shape, Nodes
<1>5. PICK f \in Nodes, e \in {0, 1} : top = Append(f, e) /\ tree[f].byte < Len(prefix)
  BY <1>1, <1>3, <1>4, NodeTypes, FrontAt
<1>6. f \in Addr /\ p \in Addr
  BY NodeTypes
<1>7. IsPrefix(p, f) /\ IsStrictPrefix(f, top)
  BY <1>2, <1>5, <1>6, BesideFacts
<1>8. /\ ~tree[f].leaf /\ tree[f].byte \in Nat /\ tree[f].bit \in 0 .. 7
      /\ tree[p].byte \in Nat /\ tree[p].bit \in 0 .. 7
  BY <1>1, <1>2, <1>7, NodeAbove
<1>9. CASE p = f
  BY <1>5, <1>9
<1>10. CASE p # f
  <2>1. Before(tree[p].byte, tree[p].bit, tree[f].byte, tree[f].bit)
    BY <1>7, <1>8, <1>10 DEF Good, Ordered, Nodes, IsStrictPrefix
  <2>2. tree[p].byte <= tree[f].byte /\ Len(prefix) \in Nat
    BY <1>8, <2>1, BytesNat DEF Before
  <2> QED BY <1>5, <1>8, <2>2
<1> QED BY <1>9, <1>10

\* If a string of the tree has the prefix, those below the top are the ones
\* that have it.
LEMMA TopMatches ==
    ASSUME Good(tree), NEW prefix \in Bytes,
           NEW m \in Nodes, tree[m].leaf, IsPrefix(prefix, tree[m].str),
           NEW x \in Nodes, tree[x].leaf
    PROVE  x \in Below(Top(prefix)) <=> IsPrefix(prefix, tree[x].str)
<1> DEFINE top == Top(prefix)
<1>1. /\ top \in Way(prefix) /\ top \in Nodes
      /\ \A y \in Reached(prefix) : IsPrefix(y, top)
      /\ \A p \in Nodes : IsStrictPrefix(p, top) => tree[p].byte < Len(prefix)
  BY TopFacts, AboveTop DEF Reached
<1> HIDE DEF top
<1>2. ASSUME NEW z \in Nodes, tree[z].leaf, IsPrefix(prefix, tree[z].str)
      PROVE  IsPrefix(top, z)
  <2> SUFFICES ASSUME ~IsPrefix(top, z) PROVE FALSE
    OBVIOUS
  <2>1. ~IsPrefix(z, top)
    <3>1. z # top
      BY <1>1, NodeTypes, PrefixSelf
    <3> QED BY <1>1, <1>2, <3>1, NodeAbove DEF IsStrictPrefix
  <2>2. PICK c \in Nodes : /\ IsStrictPrefix(c, z) /\ IsStrictPrefix(c, top)
                           /\ z[Len(c) + 1] # top[Len(c) + 1]
    BY <1>1, <2>1 DEF Good, Forks, Nodes
  <2>3. tree[c].byte < Len(prefix) /\ tree[c].byte \in Nat
    BY <1>1, <2>2, NodeAbove
  <2>4. top[Len(c) + 1] = Direction(prefix, tree[c].byte, tree[c].bit)
    BY <1>1, <2>2 DEF Way
  <2>5. Direction(tree[z].str, tree[c].byte, tree[c].bit) = z[Len(c) + 1]
    BY <1>2, <2>2 DEF Good, Splits, Nodes
  <2>6. tree[z].str \in Bytes
    BY <1>2, NodeTypes
  <2>7. Direction(tree[z].str, tree[c].byte, tree[c].bit) = Direction(prefix, tree[c].byte, tree[c].bit)
    BY <1>2, <2>3, <2>6, PrefixDirection
  <2> QED BY <2>2, <2>4, <2>5, <2>7
<1>3. ASSUME IsPrefix(top, x) PROVE IsPrefix(prefix, tree[x].str)
  <2>1. IsPrefix(top, m)
    BY <1>2
  <2>2. CASE x = m
    BY <2>2
  <2>3. CASE x # m
    <3>1. ~tree[top].leaf /\ IsStrictPrefix(top, x) /\ IsStrictPrefix(top, m)
      <4>1. IsStrictPrefix(top, x) \/ IsStrictPrefix(top, m)
        BY <1>3, <2>1, <2>3 DEF IsStrictPrefix
      <4>2. ~tree[top].leaf
        BY <1>1, <4>1, NodeAbove
      <4> QED BY <1>3, <2>1, <4>2 DEF IsStrictPrefix
    <3>2. tree[top].byte \in Nat /\ tree[top].bit \in 0 .. 7 /\ top \in Addr /\ Len(prefix) \in Nat
      BY <1>1, <3>1, NodeTypes, BytesNat
    <3>3. tree[top].byte >= Len(prefix)
      <4> SUFFICES ASSUME tree[top].byte < Len(prefix) PROVE FALSE
        BY <3>2
      <4> DEFINE d == Direction(prefix, tree[top].byte, tree[top].bit)
      <4>1. d \in {0, 1} /\ Append(top, d) \in Way(prefix)
        BY <1>1, <3>1, WayDown
      <4> HIDE DEF d
      <4>2. Front(Append(top, d)) = top
        BY <3>2, <4>1, FrontAppend
      <4>3. Append(top, d) \in Reached(prefix)
        BY <4>1, <4>2 DEF Reached
      <4>4. IsPrefix(Append(top, d), top)
        BY <1>1, <4>3
      <4>5. Append(top, d) \in Addr /\ IsStrictPrefix(top, Append(top, d))
        BY <3>2, <4>1, BesideFacts
      <4> QED BY <3>2, <4>4, <4>5, AddrNat, StrictAt, PrefixAt
    <3>4. AgreeUpTo(tree[x].str, tree[m].str, tree[top].byte, tree[top].bit)
      BY <1>1, <3>1 DEF Good, Splits, Nodes
    <3>5. tree[x].str \in Bytes /\ tree[m].str \in Bytes
      BY NodeTypes
    <3>6. ASSUME NEW i \in 0 .. Len(prefix) - 1 PROVE ByteAt(tree[x].str, i) = ByteAt(prefix, i)
      <4>1. i \in 0 .. tree[top].byte - 1
        BY <3>2, <3>3
      <4>2. ByteAt(tree[x].str, i) = ByteAt(tree[m].str, i)
        BY <3>4, <4>1 DEF AgreeUpTo
      <4>3. ByteAt(tree[m].str, i) = ByteAt(prefix, i)
        BY <3>5, PrefixBytes
      <4> QED BY <4>2, <4>3
    <3> QED BY <3>5, <3>6, PrefixBytes
  <2> QED BY <2>2, <2>3
<1> QED BY <1>2, <1>3 DEF Below, top

\* The leaves below a node are visited one by one, in the order of strings.
LEMMA TraverseFacts ==
    ASSUME Good(tree), NEW top
    PROVE  /\ Traverse(top) \in Seq(Strings(tree))
           /\ \A x \in Below(top) : tree[x].leaf =>
                 \E i \in DOMAIN Traverse(top) : Traverse(top)[i] = tree[x].str
           /\ \A i \in DOMAIN Traverse(top) :
                 \E x \in Below(top) : tree[x].leaf /\ Traverse(top)[i] = tree[x].str
           /\ \A i, j \in DOMAIN Traverse(top) :
                 i < j => SS!StrLess(Traverse(top)[i], Traverse(top)[j])
<1> DEFINE S == {x \in Below(top) : tree[x].leaf}
           R == {r \in S \X S : LeftOf(r[1], r[2])}
           Turn(x) == Cardinality({y \in S : LeftOf(y, x)})
           n == Cardinality(S)
           C(i) == CHOOSE x \in S : Turn(x) = i - 1
           v == [i \in 1 .. n |-> tree[C(i)].str]
<1>1. v = Traverse(top)
  BY DEF Traverse
<1>2. \A x \in S : x \in Nodes /\ tree[x].leaf /\ x \in Addr
  BY NodeTypes DEF Below
<1>3. IsFiniteSet(S)
  <2>1. S \in SUBSET Nodes
    BY <1>2
  <2>2. IsFiniteSet(Nodes)
    BY DEF Good, Shape, Nodes
  <2> HIDE DEF S
  <2> QED BY <2>1, <2>2, FS_Subset
<1> HIDE DEF S
<1>4. \A x, y \in S : <<x, y>> \in R <=> LeftOf(x, y)
  OBVIOUS
<1>5. /\ \A x \in S : <<x, x>> \notin R
      /\ \A x, y, z \in S : <<x, y>> \in R /\ <<y, z>> \in R => <<x, z>> \in R
      /\ \A x, y \in S : x = y \/ <<x, y>> \in R \/ <<y, x>> \in R
  <2>1. \A x \in S : ~LeftOf(x, x)
    BY <1>2, LeftIrreflexive
  <2>2. \A x, y, z \in S : LeftOf(x, y) /\ LeftOf(y, z) => LeftOf(x, z)
    BY <1>2, LeftTrans
  <2>3. \A x, y \in S : x = y \/ LeftOf(x, y) \/ LeftOf(y, x)
    BY <1>2, LeafFork
  <2> HIDE DEF R
  <2> QED BY <1>4, <2>1, <2>2, <2>3
<1> HIDE DEF R
<1>6. /\ n \in Nat
      /\ \A x, y \in S : Turn(x) = Turn(y) => x = y
      /\ \A x, y \in S : Turn(x) < Turn(y) => LeftOf(x, y)
      /\ \A i \in 1 .. n : \E x \in S : Turn(x) = i - 1
      /\ \A x \in S : \E i \in 1 .. n : Turn(x) = i - 1
  <2> DEFINE T(x) == Cardinality({y \in S : <<y, x>> \in R})
  <2>1. /\ n \in Nat
        /\ \A x, y \in S : T(x) = T(y) => x = y
        /\ \A x, y \in S : T(x) < T(y) => <<x, y>> \in R
        /\ \A i \in 1 .. n : \E x \in S : T(x) = i - 1
        /\ \A x \in S : \E i \in 1 .. n : T(x) = i - 1
    BY ONLY <1>3, <1>5, Turns
  <2>2. \A x \in S : T(x) = Turn(x)
    <3> TAKE x \in S
    <3>1. {y \in S : <<y, x>> \in R} = {y \in S : LeftOf(y, x)}
      BY <1>4
    <3> QED BY <3>1
  <2> HIDE DEF T, Turn
  <2> QED BY <1>4, <2>1, <2>2
<1> HIDE DEF Turn, n
<1>7. \A i \in 1 .. n : C(i) \in S /\ Turn(C(i)) = i - 1
  BY <1>6
<1>8. \A x \in S : \E i \in 1 .. n : C(i) = x
  BY <1>6, <1>7
<1>9. \A i, j \in 1 .. n : i < j => LeftOf(C(i), C(j))
  <2> TAKE i, j \in 1 .. n
  <2> SUFFICES ASSUME i < j PROVE LeftOf(C(i), C(j))
    OBVIOUS
  <2>1. Turn(C(i)) = i - 1 /\ Turn(C(j)) = j - 1 /\ C(i) \in S /\ C(j) \in S
    BY <1>7
  <2> HIDE DEF C
  <2>2. Turn(C(i)) < Turn(C(j))
    BY <1>6, <2>1
  <2> QED BY <1>6, <2>1, <2>2
<1> HIDE DEF C
<1>10. DOMAIN v = 1 .. n /\ \A i \in 1 .. n : v[i] = tree[C(i)].str
  OBVIOUS
<1>11. v \in Seq(Strings(tree))
  <2>1. \A x \in S : tree[x].str \in Strings(tree)
    BY <1>2 DEF Strings, Nodes
  <2>2. v \in [1 .. n -> Strings(tree)]
    BY <1>7, <2>1
  <2> HIDE DEF v
  <2> QED BY <1>6, <2>2
<1> HIDE DEF v
<1>12. \A x \in Below(top) : tree[x].leaf => \E i \in DOMAIN v : v[i] = tree[x].str
  BY <1>8, <1>10 DEF S
<1>13. \A i \in DOMAIN v : \E x \in Below(top) : tree[x].leaf /\ v[i] = tree[x].str
  BY <1>7, <1>10 DEF S
<1>14. \A i, j \in DOMAIN v : i < j => SS!StrLess(v[i], v[j])
  <2> SUFFICES ASSUME NEW i \in 1 .. n, NEW j \in 1 .. n, i < j PROVE SS!StrLess(v[i], v[j])
    BY <1>10
  <2>1. C(i) \in Nodes /\ C(j) \in Nodes /\ tree[C(i)].leaf /\ tree[C(j)].leaf
    BY <1>2, <1>7
  <2>2. LeftOf(C(i), C(j))
    BY <1>9
  <2> QED BY <1>10, <2>1, <2>2, LeftLess
<1> QED BY <1>1, <1>11, <1>12, <1>13, <1>14

-----------------------------------------------------------------------------
(***************************************************************************)
(* Every operation keeps the tree good, and does to its set of strings     *)
(* what StringSet.tla says                                                 *)
(***************************************************************************)

\* The strings of the callers.
LEMMA Inputs == Str \subseteq Bytes /\ Prefix \subseteq Bytes
BY StrAssumption DEF Bytes

\* cb_tree_insert() adds the string, and says whether it was there.
LEMMA InsertStep ==
    ASSUME Good(tree), NEW s \in Str, cb_tree_insert(s)
    PROVE  Good(tree') /\ SS!Insert(s)
<1>1. s \in Bytes
  BY Inputs
<1>2. Present(s) <=> s \in Strings(tree)
  BY <1>1, PresentIff
<1>3. CASE Nodes = {} /\ tree' = [x \in {<<>>} |-> Leaf(s)] /\ Returned(<<"insert", s>>, 0)
  <2>1. Good(tree') /\ Strings(tree') = {s}
    BY <1>1, <1>3, SingleGood
  <2>2. Strings(tree) = {}
    BY <1>3 DEF Strings, Nodes
  <2>3. Strings(tree') = Strings(tree) \cup {s} /\ s \notin Strings(tree)
    BY <2>1, <2>2
  <2> QED BY <1>3, <2>1, <2>3 DEF SS!Insert, SS!Returned, Returned, Strings, Nodes
<1>4. CASE Present(s) /\ Returned(<<"insert", s>>, 1) /\ UNCHANGED tree
  <2>1. s \in Strings(tree)
    BY <1>2, <1>4
  <2>2. Strings(tree') = Strings(tree) \cup {s}
    BY <1>4, <2>1
  <2> QED BY <1>4, <2>1, <2>2 DEF SS!Insert, SS!Returned, Returned, Strings, Nodes
<1>5. CASE /\ Nodes # {} /\ ~Present(s)
           /\ LET near == tree[Descend(s)].str
                  byte == FirstByte(s, near)
                  bit == HighestBit(s, near, byte)
              IN  tree' = Link(Place(s, byte, bit), s, byte, bit, Direction(near, byte, bit))
           /\ Returned(<<"insert", s>>, 0)
  <2>1. Good(tree') /\ Strings(tree') = Strings(tree) \cup {s}
    BY <1>1, <1>5, InsertGood
  <2>2. s \notin Strings(tree)
    BY <1>2, <1>5
  <2> QED BY <1>5, <2>1, <2>2 DEF SS!Insert, SS!Returned, Returned, Strings, Nodes
<1> QED BY <1>3, <1>4, <1>5 DEF cb_tree_insert

\* An allocation that fails leaves the tree as it was.
LEMMA FaultStep ==
    ASSUME Good(tree), NEW s \in Str, insert_fault(s)
    PROVE  Good(tree') /\ SS!OutOfMemory(s)
BY DEF insert_fault, SS!OutOfMemory, SS!Returned, Returned, Nodes

\* cb_tree_contains() says whether the string is there.
LEMMA ContainsStep ==
    ASSUME Good(tree), NEW s \in Str, cb_tree_contains(s)
    PROVE  Good(tree') /\ SS!Lookup(s)
<1>1. Present(s) <=> s \in Strings(tree)
  BY Inputs, PresentIff
<1> QED BY <1>1 DEF cb_tree_contains, SS!Lookup, SS!Returned, Returned, Strings, Nodes

\* cb_tree_delete() takes the string out, and says whether it was there.
LEMMA DeleteStep ==
    ASSUME Good(tree), NEW s \in Str, cb_tree_delete(s)
    PROVE  Good(tree') /\ SS!Delete(s)
<1>1. s \in Bytes
  BY Inputs
<1>2. Present(s) <=> s \in Strings(tree)
  BY <1>1, PresentIff
<1>3. CASE ~Present(s) /\ Returned(<<"delete", s>>, 1) /\ UNCHANGED tree
  <2>1. s \notin Strings(tree)
    BY <1>2, <1>3
  <2>2. Strings(tree') = Strings(tree) \ {s}
    BY <1>3, <2>1
  <2> QED BY <1>3, <2>1, <2>2 DEF SS!Delete, SS!Returned, Returned, Strings, Nodes
<1>4. CASE /\ Present(s) /\ Returned(<<"delete", s>>, 0)
           /\ tree' = IF Descend(s) = <<>> THEN <<>> ELSE Unlink(Descend(s))
  <2>1. Good(tree') /\ Strings(tree') = Strings(tree) \ {s}
    BY <1>1, <1>4, DeleteGood
  <2>2. s \in Strings(tree)
    BY <1>2, <1>4
  <2> QED BY <1>4, <2>1, <2>2 DEF SS!Delete, SS!Returned, Returned, Strings, Nodes
<1> QED BY <1>3, <1>4 DEF cb_tree_delete

\* cb_tree_clear() takes all strings out.
LEMMA ClearStep ==
    ASSUME cb_tree_clear
    PROVE  Good(tree') /\ SS!Clear
<1>1. tree' = <<>> /\ Returned(<<"clear">>, 0)
  BY DEF cb_tree_clear
<1>2. Good(tree') /\ Strings(tree') = {}
  BY <1>1, EmptyGood
<1> QED BY <1>1, <1>2 DEF SS!Clear, SS!Returned, Returned, Strings, Nodes

\* cb_tree_walk_prefixed() visits the strings with the prefix.
LEMMA WalkStep ==
    ASSUME Good(tree), NEW prefix \in Prefix, cb_tree_walk_prefixed(prefix)
    PROVE  Good(tree') /\ SS!Walk(prefix)
<1> DEFINE visited == result'.visited
           v == IF Nodes = {} THEN <<>> ELSE Traverse(Top(prefix))
<1>1. /\ result' = [call |-> <<"walk", prefix>>, ret |-> 0, visited |-> visited]
      /\ visited = v /\ tree' = tree
  BY DEF cb_tree_walk_prefixed
<1>2. prefix \in Bytes
  BY Inputs
<1>3. v \in Seq(Strings(tree))
  BY TraverseFacts
<1>4. ASSUME NEW m \in Strings(tree), IsPrefix(prefix, m)
      PROVE  /\ ToSet(v) = {t \in Strings(tree) : IsPrefix(prefix, t)}
             /\ \A i, j \in DOMAIN v : i < j => SS!StrLess(v[i], v[j])
  <2>1. PICK z \in Nodes : tree[z].leaf /\ m = tree[z].str
    BY DEF Strings, Nodes
  <2>2. v = Traverse(Top(prefix))
    BY <2>1
  <2> HIDE DEF v
  <2>3. \A i, j \in DOMAIN v : i < j => SS!StrLess(v[i], v[j])
    BY <2>2, TraverseFacts
  <2>4. \A x \in Nodes : tree[x].leaf =>
           (x \in Below(Top(prefix)) <=> IsPrefix(prefix, tree[x].str))
    BY <1>2, <1>4, <2>1, TopMatches
  <2>5. ASSUME NEW t \in ToSet(v) PROVE t \in Strings(tree) /\ IsPrefix(prefix, t)
    <3>1. PICK i \in DOMAIN v : t = v[i]
      BY DEF ToSet
    <3>2. PICK x \in Below(Top(prefix)) : tree[x].leaf /\ v[i] = tree[x].str
      BY <2>2, TraverseFacts
    <3> QED BY <2>4, <3>1, <3>2 DEF Below, Strings, Nodes
  <2>6. ASSUME NEW t \in Strings(tree), IsPrefix(prefix, t) PROVE t \in ToSet(v)
    <3>1. PICK x \in Nodes : tree[x].leaf /\ t = tree[x].str
      BY DEF Strings, Nodes
    <3>2. x \in Below(Top(prefix))
      BY <2>4, <2>6, <3>1
    <3>3. PICK i \in DOMAIN v : v[i] = t
      BY <2>2, <3>1, <3>2, TraverseFacts
    <3> QED BY <3>3 DEF ToSet
  <2> QED BY <2>3, <2>5, <2>6
<1> HIDE DEF v
<1>5. SS!Matching(prefix) = {t \in Strings(tree) : IsPrefix(prefix, t)}
  BY SSPrefix DEF SS!Matching, Strings, Nodes
<1>6. SS!ToSet(visited) = ToSet(v)
  BY <1>1 DEF SS!ToSet, ToSet
<1>7. ASSUME SS!Matching(prefix) # {}
      PROVE  /\ SS!ToSet(visited) = SS!Matching(prefix)
             /\ \A i, j \in DOMAIN visited : i < j => SS!StrLess(visited[i], visited[j])
  BY <1>1, <1>4, <1>5, <1>6, <1>7
<1>8. visited \in Seq(Strings(tree))
  BY <1>1, <1>3
<1> HIDE DEF visited
<1> QED BY <1>1, <1>7, <1>8 DEF SS!Walk, Strings, Nodes, visited

\* Initially.
LEMMA InitGood == Init => Good(tree) /\ SS!SSInit
<1> SUFFICES ASSUME Init PROVE Good(tree) /\ SS!SSInit
  OBVIOUS
<1>1. Good(tree) /\ Strings(tree) = {}
  BY EmptyGood DEF Init
<1> QED BY <1>1 DEF Init, SS!SSInit, Strings, Nodes

\* A step of the tree is one of the set, and keeps the invariant.
LEMMA NextGood == Good(tree) /\ [Next]_vars => Good(tree') /\ [SS!SSNext]_(SS!ssvars)
<1> SUFFICES ASSUME Good(tree), [Next]_vars PROVE Good(tree') /\ [SS!SSNext]_(SS!ssvars)
  OBVIOUS
<1>1. ASSUME NEW s \in Str, cb_tree_contains(s) PROVE Good(tree') /\ SS!SSNext
  BY <1>1, ContainsStep DEF SS!SSNext
<1>2. ASSUME NEW s \in Str, cb_tree_insert(s) PROVE Good(tree') /\ SS!SSNext
  BY <1>2, InsertStep DEF SS!SSNext
<1>3. ASSUME NEW s \in Str, insert_fault(s) PROVE Good(tree') /\ SS!SSNext
  BY <1>3, FaultStep DEF SS!SSNext
<1>4. ASSUME NEW s \in Str, cb_tree_delete(s) PROVE Good(tree') /\ SS!SSNext
  BY <1>4, DeleteStep DEF SS!SSNext
<1>5. ASSUME NEW prefix \in Prefix, cb_tree_walk_prefixed(prefix) PROVE Good(tree') /\ SS!SSNext
  BY <1>5, WalkStep DEF SS!SSNext
<1>6. ASSUME cb_tree_clear PROVE Good(tree') /\ SS!SSNext
  BY <1>6, ClearStep DEF SS!SSNext
<1>7. CASE UNCHANGED vars
  BY <1>7 DEF vars, SS!ssvars, Nodes
<1> QED BY <1>1, <1>2, <1>3, <1>4, <1>5, <1>6, <1>7 DEF Next

Inv == Good(tree)

\* The same about Inv.
LEMMA InvSteps ==
    /\ Init => Inv /\ SS!SSInit
    /\ Inv /\ [Next]_vars => Inv' /\ [SS!SSNext]_(SS!ssvars)
BY InitGood, NextGood DEF Inv

\* Whatever strings come and go in whatever order, the strings below an inner
\* node agree up to the place it stores and differ there as its children say:
\* what the descent of every operation relies on (critbit.c:119-131), and what
\* the last loop of cb_tree_insert() looks for the right place to keep
\* (critbit.c:208-221).
THEOREM CritBitSplits == Spec => []SplitsAtFirstDifference
<1>1. Inv => SplitsAtFirstDifference
  <2> SUFFICES ASSUME Good(tree), NEW p \in Nodes, NEW x \in Nodes, NEW y \in Nodes,
                      IsStrictPrefix(p, x), IsStrictPrefix(p, y), tree[x].leaf, tree[y].leaf
               PROVE  /\ ~tree[p].leaf
                      /\ Direction(tree[x].str, tree[p].byte, tree[p].bit) = x[Len(p) + 1]
                      /\ AgreeUpTo(tree[x].str, tree[y].str, tree[p].byte, tree[p].bit)
    BY DEF Inv, SplitsAtFirstDifference
  <2>1. ~tree[p].leaf
    BY NodeAbove
  <2> QED BY <2>1 DEF Good, Splits, Nodes
<1> QED BY <1>1, InvSteps, PTL DEF Spec

\* The tree is the set of strings critbit.h promises: every operation returns
\* what the set says and changes it so; no string is lost or found by mistake
\* when nodes are put in and taken out; and a walk visits exactly the strings
\* with the prefix, in the order of strcmp(), if there are any.
THEOREM CritBitRefinesStringSet == Spec => ImplementsStringSet
BY InvSteps, PTL DEF Spec, ImplementsStringSet, SS!SSSpec
=============================================================================
