-------------------------- MODULE IndexFilesProofs --------------------------
(***************************************************************************)
(* Index files, for any directories, budgets and trees.  A search of a     *)
(* tree as libkd writes it finds exactly the data within the radius, each  *)
(* once; no search reads past the data of a tree that parses; and a        *)
(* prefetch spends its budget on the files that serve best.                *)
(***************************************************************************)
EXTENDS IndexFiles, DataInduction, FiniteSetTheorems

(* Trees and their leaves.                                                  *)

\* A complete tree: one interior node less than leaves.
LEMMA Shape ==
  ASSUME NEW tree, IsTree(tree), Parses(tree)
  PROVE  /\ tree.nnodes \in Nat /\ tree.ndata \in Nat /\ tree.ndim \in 1 .. 8
         /\ NBottom(tree) \in Nat \ {0} /\ NInterior(tree) = NBottom(tree) - 1
         /\ tree.nnodes = 2 * NBottom(tree) - 1
<1>1. tree.nnodes \in Nat /\ tree.ndata \in Nat
  BY DEF IsTree
<1>2. tree.nnodes = 2 * NBottom(tree) - 1 /\ tree.ndim \in 1 .. 8
  BY DEF Parses
<1>3. NBottom(tree) \in Int
  BY <1>1 DEF NBottom
<1>4. NBottom(tree) \in Nat \ {0}
  BY <1>1, <1>2, <1>3
<1> QED
  BY <1>1, <1>2, <1>3, <1>4 DEF NInterior

\* A quotient is the number it is meant to be.
LEMMA QuotientFacts ==
  ASSUME NEW x \in Nat, NEW n \in Nat \ {0}
  PROVE  /\ x \div n \in Nat
         /\ n * (x \div n) <= x /\ x < n * (x \div n) + n
  OBVIOUS

\* Multiplying by a natural number keeps the order.
LEMMA TimesMonotone ==
  ASSUME NEW a \in Int, NEW b \in Int, NEW c \in Nat, a <= b
  PROVE  a * c <= b * c /\ c * a <= c * b
<1>1. (b - a) * c >= 0
  <2>1. PICK e \in Nat : e = b - a
    <3>1. b - a \in Nat
      OBVIOUS
    <3> QED
      BY <3>1
  <2>2. e * c >= 0
    OBVIOUS
  <2> QED
    BY <2>1, <2>2
<1>2. (b - a) * c = b * c - a * c /\ c * a = a * c /\ c * b = b * c
  OBVIOUS
<1>3. a * c \in Int /\ b * c \in Int
  OBVIOUS
<1> QED
  BY <1>1, <1>2, <1>3

\* Where a leaf would begin if the data were dealt out evenly.
LEMMA Shares ==
  ASSUME NEW n \in Nat \ {0}, NEW d \in Nat
  PROVE  /\ \A l \in Nat : (l * d) \div n \in Nat
         /\ \A l, m \in Nat : l <= m => (l * d) \div n <= (m * d) \div n
         /\ (0 * d) \div n = 0 /\ (n * d) \div n = d
<1>1. ASSUME NEW l \in Nat PROVE l * d \in Nat /\ (l * d) \div n \in Nat
  <2>1. l * d \in Nat
    OBVIOUS
  <2> QED
    BY <2>1, QuotientFacts
<1>2. ASSUME NEW x \in Nat, NEW y \in Nat, x <= y PROVE x \div n <= y \div n
  <2>1. PICK p \in Nat : p = x \div n
    BY QuotientFacts
  <2>2. PICK q \in Nat : q = y \div n
    BY QuotientFacts
  <2>3. n * p <= x /\ y < n * q + n
    BY <2>1, <2>2, QuotientFacts
  <2>4. SUFFICES ASSUME p > q PROVE FALSE
    BY <2>1, <2>2
  <2>5. n * (q + 1) <= n * p
    BY <2>4, TimesMonotone
  <2>6. n * (q + 1) = n * q + n
    OBVIOUS
  <2>7. n * p \in Int /\ n * q \in Int
    OBVIOUS
  <2> QED
    BY <1>2, <2>3, <2>5, <2>6, <2>7
<1>3. ASSUME NEW l \in Nat, NEW m \in Nat, l <= m PROVE (l * d) \div n <= (m * d) \div n
  <2>1. l * d <= m * d
    BY <1>3, TimesMonotone
  <2> QED
    BY <1>1, <1>2, <2>1
<1>4. (0 * d) \div n = 0
  <2>1. 0 * d = 0 /\ 0 \div n = 0
    OBVIOUS
  <2> QED
    BY <2>1
<1>5. (n * d) \div n = d
  <2>1. PICK x \in Nat : x = n * d
    BY <1>1
  <2>2. PICK q \in Nat : q = x \div n
    BY QuotientFacts
  <2>3. n * q <= n * d /\ n * d < n * q + n
    BY <2>1, <2>2, QuotientFacts
  <2>4. n * d \in Int /\ n * q \in Int
    OBVIOUS
  <2>5. CASE q > d
    <3>1. n * (d + 1) <= n * q /\ n * (d + 1) = n * d + n
      BY <2>5, TimesMonotone
    <3> QED
      BY <2>3, <2>4, <3>1
  <2>6. CASE q < d
    <3>1. n * (q + 1) <= n * d /\ n * (q + 1) = n * q + n
      BY <2>6, TimesMonotone
    <3> QED
      BY <2>3, <2>4, <3>1
  <2> QED
    BY <2>1, <2>2, <2>5, <2>6
<1> QED
  BY <1>1, <1>3, <1>4, <1>5

\* The leaves of a tree, by their nodes.
Leaves(tree) == NInterior(tree) .. tree.nnodes - 1

\* A leaf's data are data of the tree, whatever a table of ranges says.
LEMMA LeafInside ==
  ASSUME NEW tree, IsTree(tree), Parses(tree), NEW node \in Leaves(tree)
  PROVE  /\ LeafRange(tree, node).left \in Nat
         /\ LeafRange(tree, node).right \in Nat
         /\ LeafRange(tree, node).right <= tree.ndata
         /\ LeafData(tree, node) \subseteq 0 .. tree.ndata - 1
<1> DEFINE n == NBottom(tree)
           leaf == node - NInterior(tree)
           range == LeafRange(tree, node)
<1>1. /\ n \in Nat \ {0} /\ tree.ndata \in Nat
      /\ leaf \in Nat /\ leaf + 1 \in Nat /\ leaf + 1 <= n
  BY Shape DEF Leaves
<1>2. CASE tree.linear
  <2>1. /\ range.left = (leaf * tree.ndata) \div n
        /\ range.right = ((leaf + 1) * tree.ndata) \div n
    BY <1>2 DEF LeafRange
  <2> HIDE DEF n, leaf, range
  <2>2. range.left \in Nat /\ range.right \in Nat /\ range.right <= tree.ndata
    BY <1>1, <2>1, Shares
  <2> QED
    BY <1>1, <2>2 DEF LeafData, range
<1>3. CASE ~tree.linear
  <2>1. tree.tables["lr"] \in Seq(Nat) /\ Len(tree.tables["lr"]) = n
    BY <1>3 DEF IsTree, Parses
  <2>2. \A l \in 1 .. n : tree.tables["lr"][l] \in Nat
    BY <2>1, LenProperties
  <2>3. Entry(tree, "lr", leaf) \in Nat /\ (leaf # 0 => Entry(tree, "lr", leaf - 1) \in Nat)
    <3>1. leaf + 1 \in 1 .. n /\ (leaf # 0 => leaf - 1 + 1 \in 1 .. n)
      BY <1>1
    <3> HIDE DEF n, leaf
    <3> QED
      BY <2>2, <3>1 DEF Entry
  <2>4. PICK e \in Nat : e = Entry(tree, "lr", leaf)
    BY <2>3
  <2>5. /\ range.left = IF leaf = 0 THEN 0 ELSE Entry(tree, "lr", leaf - 1) + 1
        /\ range.right = Min({e + 1, tree.ndata})
    BY <1>3, <2>4 DEF LeafRange
  <2> HIDE DEF n, leaf, range
  <2>6. range.left \in Nat
    BY <2>3, <2>5
  <2>7. range.right \in Nat /\ range.right <= tree.ndata
    <3>1. range.right \in {e + 1, tree.ndata} /\ \A x \in {e + 1, tree.ndata} : range.right <= x
      <4>1. \E x \in {e + 1, tree.ndata} : \A y \in {e + 1, tree.ndata} : x <= y
        <5>1. CASE e + 1 <= tree.ndata
          BY <1>1, <5>1
        <5>2. CASE ~(e + 1 <= tree.ndata)
          BY <1>1, <5>2
        <5> QED
          BY <5>1, <5>2
      <4> QED
        BY <2>5, <4>1 DEF Min
    <3> QED
      BY <1>1, <3>1
  <2> QED
    BY <1>1, <2>6, <2>7 DEF LeafData, range
<1> QED
  BY <1>2, <1>3

\* The ranges of a tree as libkd writes it begin at 0, end with the data and
\* follow each other.
LEMMA LeavesJoin ==
  ASSUME NEW tree, IsTree(tree), Parses(tree), WellFormed(tree)
  PROVE  /\ LeafRange(tree, NInterior(tree)).left = 0
         /\ LeafRange(tree, tree.nnodes - 1).right = tree.ndata
         /\ \A node \in Leaves(tree) :
              /\ LeafRange(tree, node).left <= LeafRange(tree, node).right
              /\ node + 1 \in Leaves(tree) =>
                   LeafRange(tree, node + 1).left = LeafRange(tree, node).right
<1> DEFINE n == NBottom(tree)
           I == NInterior(tree)
           d == tree.ndata
<1>1. n \in Nat \ {0} /\ d \in Nat /\ I = n - 1 /\ tree.nnodes = 2 * n - 1 /\ I - I = 0
  BY Shape
<1>2. CASE tree.linear
  <2> DEFINE Start(l) == (l * d) \div n
  <2>1. \A node : /\ LeafRange(tree, node).left = Start(node - I)
                  /\ LeafRange(tree, node).right = Start(node - I + 1)
    BY <1>2 DEF LeafRange
  <2>5. /\ \A l, m \in Nat : l <= m => Start(l) <= Start(m)
        /\ Start(0) = 0 /\ Start(n) = d
    BY <1>1, Shares
  <2> HIDE DEF n, I, d, Start
  <2>2. LeafRange(tree, I).left = 0
    BY <1>1, <2>1, <2>5
  <2>3. LeafRange(tree, tree.nnodes - 1).right = d
    <3>1. tree.nnodes - 1 - I + 1 = n
      BY <1>1
    <3> QED
      BY <2>1, <2>5, <3>1
  <2>4. ASSUME NEW node \in Leaves(tree)
        PROVE  /\ LeafRange(tree, node).left <= LeafRange(tree, node).right
               /\ LeafRange(tree, node + 1).left = LeafRange(tree, node).right
    <3>1. node - I \in Nat /\ node - I + 1 \in Nat /\ node - I <= node - I + 1
          /\ node + 1 - I = node - I + 1
      BY <1>1 DEF Leaves, I
    <3>2. Start(node - I) <= Start(node - I + 1)
      BY <2>5, <3>1
    <3>6. node \in Int
      BY <1>1 DEF Leaves, I
    <3>4. PICK after \in Int : after = node + 1
      BY <3>6
    <3>5. LeafRange(tree, after).left = Start(after - I)
      BY <2>1
    <3>3. LeafRange(tree, node + 1).left = Start(node + 1 - I)
      <4>1. LeafRange(tree, node + 1) = LeafRange(tree, after)
        BY <3>4
      <4>2. node + 1 - I = after - I
        BY <1>1, <3>4, <3>6
      <4> QED
        BY <3>5, <4>1, <4>2
    <3> QED
      BY <2>1, <3>1, <3>2, <3>3
  <2> QED
    BY <2>2, <2>3, <2>4 DEF I, d
<1>3. CASE ~tree.linear
  <2> DEFINE lr == tree.tables["lr"]
  <2>1. lr \in Seq(Nat) /\ Len(lr) = n
    BY <1>3 DEF IsTree, Parses
  <2>2. (\A l \in 1 .. n - 1 : lr[l] <= lr[l + 1]) /\ lr[n] = d - 1
    BY <1>3, <2>1 DEF WellFormed
  <2>3. \A l \in 1 .. n : lr[l] \in Nat
    BY <2>1, LenProperties
  <2>4. \A l \in 1 .. n : lr[l] <= d - 1
    <3> DEFINE T == {m \in 0 .. n - 1 : lr[n - m] <= d - 1}
    <3> HIDE DEF n, d, lr
    <3>1. 0 \in T
      BY <1>1, <2>2
    <3>2. ASSUME NEW m \in 1 .. n - 1, m - 1 \in T PROVE m \in T
      <4>1. n - m \in 1 .. n - 1 /\ n - m + 1 = n - (m - 1) /\ n - (m - 1) \in 1 .. n
            /\ n - m \in 1 .. n /\ m \in 0 .. n - 1
        BY <1>1
      <4>2. lr[n - (m - 1)] <= d - 1 /\ lr[n - m] <= lr[n - (m - 1)]
            /\ lr[n - (m - 1)] \in Nat /\ lr[n - m] \in Nat
        BY <2>2, <2>3, <3>2, <4>1
      <4> QED
        BY <1>1, <4>1, <4>2
    <3> HIDE DEF T
    <3>3. \A m \in 0 .. n - 1 : m \in T
      <4>1. n - 1 \in Nat
        BY <1>1
      <4> QED
        BY <3>1, <3>2, <4>1, BoundedInduction
    <3> SUFFICES ASSUME NEW l \in 1 .. n PROVE lr[l] <= d - 1
      OBVIOUS
    <3>4. n - l \in 0 .. n - 1 /\ n - (n - l) = l
      BY <1>1
    <3> QED
      BY <3>3, <3>4 DEF T
  <2>5. ASSUME NEW node \in Leaves(tree)
        PROVE  /\ LeafRange(tree, node).left = IF node = I THEN 0 ELSE lr[node - I] + 1
               /\ LeafRange(tree, node).right = lr[node - I + 1] + 1
    <3>1. node - I \in 0 .. n - 1 /\ node - I + 1 \in 1 .. n
      BY <1>1 DEF Leaves
    <3>2. PICK e \in Nat : e = lr[node - I + 1]
      BY <2>3, <3>1
    <3>3. e <= d - 1
      BY <2>4, <3>1, <3>2
    <3>4. Min({e + 1, d}) = e + 1
      <4>1. \A x \in {e + 1, d} : (\A y \in {e + 1, d} : x <= y) <=> x = e + 1
        BY <1>1, <3>3
      <4> HIDE DEF d
      <4> QED
        BY <4>1 DEF Min
    <3>5. LeafRange(tree, node).right = Min({e + 1, d})
      BY <1>3, <3>2 DEF LeafRange, Entry
    <3>6. LeafRange(tree, node).left = IF node - I = 0 THEN 0 ELSE lr[node - I - 1 + 1] + 1
      BY <1>3 DEF LeafRange, Entry
    <3>7. (node - I = 0 <=> node = I) /\ node - I - 1 + 1 = node - I
      BY <1>1 DEF Leaves
    <3> QED
      BY <3>2, <3>4, <3>5, <3>6, <3>7
  <2> HIDE DEF lr, n, I, d
  <2>6. I \in Leaves(tree) /\ tree.nnodes - 1 \in Leaves(tree) /\ tree.nnodes - 1 - I + 1 = n
    BY <1>1 DEF Leaves, I
  <2>7. ASSUME NEW node \in Leaves(tree)
        PROVE  /\ LeafRange(tree, node).left <= LeafRange(tree, node).right
               /\ node + 1 \in Leaves(tree) =>
                    LeafRange(tree, node + 1).left = LeafRange(tree, node).right
    <3>1. node \in Int /\ node - I + 1 \in 1 .. n /\ (node # I => node - I \in 1 .. n - 1)
          /\ node + 1 - I = node - I + 1 /\ node + 1 # I
      BY <1>1 DEF Leaves, I
    <3>2. lr[node - I + 1] \in Nat /\ (node # I => lr[node - I] \in Nat /\ lr[node - I] <= lr[node - I + 1])
      <4>1. node # I => node - I \in 1 .. n
        BY <1>1, <3>1
      <4> QED
        BY <2>2, <2>3, <3>1, <4>1
    <3>3. LeafRange(tree, node).left <= LeafRange(tree, node).right
      BY <2>5, <3>2
    <3>4. ASSUME node + 1 \in Leaves(tree)
          PROVE  LeafRange(tree, node + 1).left = lr[node - I + 1] + 1
      <4>1. PICK after \in Leaves(tree) : after = node + 1
        BY <3>4
      <4>2. LeafRange(tree, after).left = IF after = I THEN 0 ELSE lr[after - I] + 1
        BY <2>5
      <4>3. LeafRange(tree, node + 1) = LeafRange(tree, after)
        BY <4>1
      <4>4. after # I /\ after - I = node - I + 1
        BY <1>1, <3>1, <4>1
      <4> QED
        BY <4>2, <4>3, <4>4
    <3> QED
      BY <2>5, <3>3, <3>4
  <2>8. LeafRange(tree, I).left = 0
    BY <2>5, <2>6
  <2>9. LeafRange(tree, tree.nnodes - 1).right = d
    <3>1. LeafRange(tree, tree.nnodes - 1).right = lr[n] + 1
      BY <2>5, <2>6
    <3> QED
      BY <1>1, <2>2, <3>1
  <2> QED
    BY <2>7, <2>8, <2>9 DEF I, d
<1> QED
  BY <1>2, <1>3

\* No datum lies in two leaves.
LEMMA LeavesDisjoint ==
  ASSUME NEW tree, IsTree(tree), Parses(tree), WellFormed(tree)
  PROVE  \A l, m \in Leaves(tree) : l # m => LeafData(tree, l) \cap LeafData(tree, m) = {}
<1> DEFINE I == NInterior(tree)
           N == tree.nnodes
           Left(l) == LeafRange(tree, l).left
           Right(l) == LeafRange(tree, l).right
<1>1. I \in Nat /\ N \in Nat
  BY Shape
<1>2. \A l \in I .. N - 1 :
        /\ Left(l) \in Nat /\ Right(l) \in Nat /\ Left(l) <= Right(l)
        /\ l + 1 \in I .. N - 1 => Left(l + 1) = Right(l)
  BY LeafInside, LeavesJoin DEF Leaves
<1> HIDE DEF I, N, Left, Right
<1>3. ASSUME NEW l \in I .. N - 1
      PROVE  \A m \in I .. N - 1 : l < m => Right(l) <= Left(m)
  <2> DEFINE T == {e \in Nat : l + 1 + e \in I .. N - 1 => Right(l) <= Left(l + 1 + e)}
  <2>1. 0 \in T
    <3>1. l + 1 + 0 = l + 1
      BY <1>1
    <3>2. l + 1 \in I .. N - 1 => Left(l + 1) = Right(l) /\ Right(l) \in Nat
      BY <1>2
    <3> QED
      BY <3>1, <3>2
  <2>2. ASSUME NEW e \in Nat, e \in T PROVE e + 1 \in T
    <3> SUFFICES ASSUME l + 1 + (e + 1) \in I .. N - 1 PROVE Right(l) <= Left(l + 1 + (e + 1))
      OBVIOUS
    <3>1. l + 1 + e \in I .. N - 1
      BY <1>1
    <3>2. PICK k \in I .. N - 1 : k = l + 1 + e
      BY <3>1
    <3>3. k + 1 = l + 1 + (e + 1)
      BY <1>1, <3>2
    <3>4. Right(l) <= Left(k)
      BY <2>2, <3>2
    <3>5. Left(k + 1) = Right(k) /\ Left(k) <= Right(k) /\ Left(k) \in Nat /\ Right(k) \in Nat
      BY <1>2, <3>3
    <3>6. Right(l) \in Nat
      BY <1>2
    <3>7. Right(l) <= Left(k + 1)
      BY <3>4, <3>5, <3>6
    <3> QED
      BY <3>3, <3>7
  <2> HIDE DEF T
  <2>3. \A e \in Nat : e \in T
    BY <2>1, <2>2, Induction
  <2> SUFFICES ASSUME NEW m \in I .. N - 1, l < m PROVE Right(l) <= Left(m)
    OBVIOUS
  <2>4. PICK e \in Nat : e = m - l - 1 /\ l + 1 + e = m
    <3>1. m - l - 1 \in Nat /\ l + 1 + (m - l - 1) = m
      BY <1>1
    <3> QED
      BY <3>1
  <2> QED
    BY <2>3, <2>4 DEF T
<1>4. ASSUME NEW l \in I .. N - 1, NEW m \in I .. N - 1, l < m
      PROVE  LeafData(tree, l) \cap LeafData(tree, m) = {}
  <2>1. Right(l) <= Left(m) /\ Right(l) \in Nat /\ Left(m) \in Nat
    BY <1>2, <1>3, <1>4
  <2>2. LeafData(tree, l) = Left(l) .. Right(l) - 1 /\ LeafData(tree, m) = Left(m) .. Right(m) - 1
    BY DEF LeafData, Left, Right
  <2>3. Left(l) \in Nat /\ Right(m) \in Nat
    BY <1>2
  <2> QED
    BY <2>1, <2>2, <2>3
<1>5. \A l, m \in I .. N - 1 : l # m => l < m \/ m < l
  BY <1>1
<1> QED
  BY <1>4, <1>5 DEF Leaves, I, N

\* Every datum lies in a leaf.
LEMMA LeavesCover ==
  ASSUME NEW tree, IsTree(tree), Parses(tree), WellFormed(tree),
         NEW i \in 0 .. tree.ndata - 1
  PROVE  \E l \in Leaves(tree) : i \in LeafData(tree, l)
<1> DEFINE I == NInterior(tree)
           N == tree.nnodes
           Left(l) == LeafRange(tree, l).left
           Right(l) == LeafRange(tree, l).right
           S == {l \in I .. N - 1 : i < Right(l)}
<1>1. I \in Nat /\ N \in Nat /\ tree.ndata \in Nat /\ N - 1 \in I .. N - 1
  BY Shape
<1>2. \A l \in I .. N - 1 :
        /\ Left(l) \in Nat /\ Right(l) \in Nat
        /\ l + 1 \in I .. N - 1 => Left(l + 1) = Right(l)
  BY LeafInside, LeavesJoin DEF Leaves
<1>3. Left(I) = 0 /\ Right(N - 1) = tree.ndata
  BY LeavesJoin
<1> HIDE DEF I, N, Left, Right
<1>4. PICK l \in S : \A m \in S : l <= m
  <2>1. S \in SUBSET Nat /\ S # {}
    <3>1. N - 1 \in S
      BY <1>1, <1>3
    <3>2. \A x \in I .. N - 1 : x \in Nat
      BY <1>1
    <3> QED
      BY <3>1, <3>2
  <2> HIDE DEF S
  <2> QED
    BY <2>1, LeastNatural
<1>5. Left(l) <= i
  <2>1. CASE l = I
    BY <1>3, <2>1
  <2>2. CASE l # I
    <3>1. PICK k \in I .. N - 1 : k + 1 = l /\ ~(l <= k)
      <4>1. l - 1 \in I .. N - 1 /\ (l - 1) + 1 = l /\ ~(l <= l - 1)
        BY <1>1, <2>2
      <4> QED
        BY <4>1
    <3>2. ~(i < Right(k))
      BY <1>4, <3>1
    <3>3. Left(l) = Right(k) /\ Right(k) \in Nat
      BY <1>2, <1>4, <3>1
    <3> QED
      BY <3>2, <3>3
  <2> QED
    BY <2>1, <2>2
<1>6. i \in Left(l) .. Right(l) - 1
  BY <1>2, <1>4, <1>5
<1> QED
  BY <1>4, <1>6 DEF Leaves, LeafData, I, N, Left, Right

\* The recursion of DataBelow has a solution, so it holds of DataBelow.
LEMMA BelowRecursion ==
  ASSUME NEW tree, IsTree(tree), Parses(tree)
  PROVE  LET below == DataBelow(tree)
         IN /\ \A node \in 0 .. tree.nnodes - 1 : below[node] \subseteq 0 .. tree.ndata - 1
            /\ \A node \in 0 .. NInterior(tree) - 1 :
                 below[node] = below[2 * node + 1] \cup below[2 * node + 2]
            /\ \A node \in Leaves(tree) : below[node] = LeafData(tree, node)
<1> DEFINE I == NInterior(tree)
           N == tree.nnodes
           Data == 0 .. tree.ndata - 1
           Holds(f, node) ==
             f[node] = IF node >= I THEN LeafData(tree, node) ELSE f[2 * node + 1] \cup f[2 * node + 2]
           Upto(m) == \E f \in [0 .. N - 1 -> SUBSET Data] : \A node \in N - m .. N - 1 : Holds(f, node)
           Eq(f) == f = [node \in 0 .. N - 1 |->
                           IF node >= I THEN LeafData(tree, node)
                           ELSE f[2 * node + 1] \cup f[2 * node + 2]]
           below == DataBelow(tree)
           T == {m \in 0 .. N : Upto(m)}
<1>1. N \in Nat /\ I \in Nat /\ N = 2 * I + 1
  BY Shape
<1>2. \A node \in 0 .. N - 1 : node >= I => LeafData(tree, node) \subseteq Data
  <2>1. \A node \in 0 .. N - 1 : node >= I => node \in Leaves(tree)
    BY <1>1 DEF Leaves
  <2> QED
    BY <2>1, LeafInside
<1>3. \A node \in 0 .. N - 1 : ~(node >= I) => 2 * node + 1 \in node + 1 .. N - 1 /\ 2 * node + 2 \in node + 1 .. N - 1
  BY <1>1
<1>4. below = CHOOSE f : Eq(f)
  BY DEF DataBelow
<1> HIDE DEF I, N, Data, below
<1>5. 0 \in T
  <2> DEFINE f == [node \in 0 .. N - 1 |-> {}]
  <2>1. f \in [0 .. N - 1 -> SUBSET Data] /\ 0 \in 0 .. N /\ \A node \in N - 0 .. N - 1 : FALSE
    BY <1>1
  <2> HIDE DEF f
  <2>2. Upto(0)
    BY <2>1
  <2> QED
    BY <2>1, <2>2
<1>6. ASSUME NEW m \in 1 .. N, m - 1 \in T PROVE m \in T
  <2>1. PICK f \in [0 .. N - 1 -> SUBSET Data] : \A node \in N - (m - 1) .. N - 1 : Holds(f, node)
    BY <1>6
  <2>2. PICK a \in 0 .. N - 1 : a = N - m /\ a + 1 = N - (m - 1)
    <3>1. N - m \in 0 .. N - 1 /\ (N - m) + 1 = N - (m - 1)
      BY <1>1
    <3> QED
      BY <3>1
  <2> DEFINE here == IF a >= I THEN LeafData(tree, a) ELSE f[2 * a + 1] \cup f[2 * a + 2]
             g == [f EXCEPT ![a] = here]
  <2>3. ~(a >= I) => 2 * a + 1 \in a + 1 .. N - 1 /\ 2 * a + 2 \in a + 1 .. N - 1
    BY <1>3
  <2>4. \A x \in a + 1 .. N - 1 : x \in 0 .. N - 1 /\ x # a
    BY <1>1
  <2>5. here \in SUBSET Data
    BY <1>2, <2>1, <2>3, <2>4
  <2>6. g \in [0 .. N - 1 -> SUBSET Data]
    BY <2>1, <2>5
  <2>7. g[a] = here /\ \A x \in a + 1 .. N - 1 : g[x] = f[x]
    BY <2>1, <2>4
  <2> HIDE DEF g
  <2>8. ASSUME NEW node \in N - m .. N - 1 PROVE Holds(g, node)
    <3>1. CASE node = a
      BY <2>3, <2>7, <3>1
    <3>2. CASE node # a
      <4>1. node \in a + 1 .. N - 1 /\ node \in 0 .. N - 1
        BY <1>1, <2>2, <3>2
      <4>2. ~(node >= I) => 2 * node + 1 \in a + 1 .. N - 1 /\ 2 * node + 2 \in a + 1 .. N - 1
        <5>1. ~(node >= I) => 2 * node + 1 \in node + 1 .. N - 1 /\ 2 * node + 2 \in node + 1 .. N - 1
          BY <1>3, <4>1
        <5>2. \A x \in node + 1 .. N - 1 : x \in a + 1 .. N - 1
          BY <1>1, <4>1
        <5> QED
          BY <5>1, <5>2
      <4>3. Holds(f, node)
        BY <2>1, <2>2, <4>1
      <4>4. g[node] = f[node]
        BY <2>7, <4>1
      <4>5. ~(node >= I) => g[2 * node + 1] = f[2 * node + 1] /\ g[2 * node + 2] = f[2 * node + 2]
        BY <2>7, <4>2
      <4> QED
        BY <4>3, <4>4, <4>5
    <3> QED
      BY <3>1, <3>2
  <2> HIDE DEF Holds
  <2>9. Upto(m)
    BY <2>6, <2>8
  <2>10. m \in 0 .. N
    BY <1>1
  <2> QED
    BY <2>9, <2>10
<1> HIDE DEF T
<1>7. N \in T
  <2>1. \A m \in 0 .. N : m \in T
    BY <1>1, <1>5, <1>6, BoundedInduction
  <2> QED
    BY <1>1, <2>1
<1>8. PICK f \in [0 .. N - 1 -> SUBSET Data] : \A node \in 0 .. N - 1 : Holds(f, node)
  <2>1. N - N = 0
    BY <1>1
  <2> HIDE DEF Holds
  <2>2. PICK f \in [0 .. N - 1 -> SUBSET Data] : \A node \in N - N .. N - 1 : Holds(f, node)
    BY <1>7 DEF T
  <2> QED
    BY <2>1, <2>2
<1>9. Eq(f)
  BY <1>8
<1>10. Eq(below)
  <2> HIDE DEF Eq
  <2> QED
    BY <1>4, <1>9
<1>11. \A node \in 0 .. N - 1 : Holds(below, node)
  BY <1>10
<1>12. \A node \in 0 .. N - 1 : below[node] \subseteq Data
  <2> DEFINE S == {m \in 0 .. N : \A node \in N - m .. N - 1 : below[node] \subseteq Data}
  <2>1. 0 \in S
    BY <1>1
  <2>2. ASSUME NEW m \in 1 .. N, m - 1 \in S PROVE m \in S
    <3>1. ASSUME NEW node \in N - m .. N - 1 PROVE below[node] \subseteq Data
      <4>1. node \in 0 .. N - 1 /\ N - (m - 1) <= node + 1
        BY <1>1
      <4>2. CASE node >= I
        BY <1>2, <1>11, <4>1, <4>2
      <4>3. CASE ~(node >= I)
        <5>1. 2 * node + 1 \in N - (m - 1) .. N - 1 /\ 2 * node + 2 \in N - (m - 1) .. N - 1
          BY <1>1, <4>1, <4>3
        <5>2. below[2 * node + 1] \subseteq Data /\ below[2 * node + 2] \subseteq Data
          BY <2>2, <5>1
        <5> QED
          BY <1>11, <4>1, <4>3, <5>2
      <4> QED
        BY <4>2, <4>3
    <3>2. m \in 0 .. N
      BY <1>1
    <3> QED
      BY <3>1, <3>2
  <2> HIDE DEF S
  <2>3. \A m \in 0 .. N : m \in S
    BY <1>1, <2>1, <2>2, BoundedInduction
  <2>4. N \in S
    BY <1>1, <2>3
  <2>5. N - N = 0
    BY <1>1
  <2> QED
    BY <2>4, <2>5 DEF S
<1>13. \A node \in 0 .. I - 1 : below[node] = below[2 * node + 1] \cup below[2 * node + 2]
  <2>1. \A node \in 0 .. I - 1 : node \in 0 .. N - 1 /\ ~(node >= I)
    BY <1>1
  <2> QED
    BY <1>11, <2>1
<1>14. \A node \in I .. N - 1 : below[node] = LeafData(tree, node)
  <2>1. \A node \in I .. N - 1 : node \in 0 .. N - 1 /\ node >= I
    BY <1>1
  <2> QED
    BY <1>11, <2>1
<1> QED
  BY <1>12, <1>13, <1>14 DEF Leaves, I, N, Data, below

\* The whole tree holds all data, and no datum lies below both children.
LEMMA BelowFacts ==
  ASSUME NEW tree, IsTree(tree), Parses(tree), WellFormed(tree)
  PROVE  LET below == DataBelow(tree)
         IN /\ below[0] = 0 .. tree.ndata - 1
            /\ \A node \in 0 .. NInterior(tree) - 1 :
                 below[2 * node + 1] \cap below[2 * node + 2] = {}
<1> DEFINE I == NInterior(tree)
           N == tree.nnodes
           Data == 0 .. tree.ndata - 1
           below == DataBelow(tree)
<1>1. N \in Nat /\ I \in Nat /\ N = 2 * I + 1
  BY Shape
<1>2. /\ \A node \in 0 .. N - 1 : below[node] \subseteq Data
      /\ \A node \in 0 .. I - 1 : below[node] = below[2 * node + 1] \cup below[2 * node + 2]
      /\ \A node \in I .. N - 1 : below[node] = LeafData(tree, node)
  BY BelowRecursion DEF Leaves
<1>3. \A l, m \in I .. N - 1 : l # m => LeafData(tree, l) \cap LeafData(tree, m) = {}
  BY LeavesDisjoint DEF Leaves
<1>4. \A i \in Data : \E l \in I .. N - 1 : i \in LeafData(tree, l)
  BY LeavesCover DEF Leaves
<1> HIDE DEF I, N, Data, below
\* What lies in a node lies in its parent, and so in the root.
<1>5. \A node \in 0 .. N - 1 : below[node] \subseteq below[0]
  <2> DEFINE T == {m \in Nat : \A node \in 0 .. N - 1 : node <= m => below[node] \subseteq below[0]}
  <2>1. 0 \in T
    <3>1. \A node \in 0 .. N - 1 : node <= 0 => node = 0
      BY <1>1
    <3> QED
      BY <3>1
  <2>2. ASSUME NEW m \in Nat, m \in T PROVE m + 1 \in T
    <3> SUFFICES ASSUME NEW node \in 0 .. N - 1, node <= m + 1 PROVE below[node] \subseteq below[0]
      OBVIOUS
    <3>1. CASE node <= m
      BY <2>2, <3>1
    <3>2. CASE ~(node <= m)
      <4>1. PICK p \in 0 .. I - 1 : node = 2 * p + 1 \/ node = 2 * p + 2
        <5>1. (node - 1) \div 2 \in 0 .. I - 1 /\ (node = 2 * ((node - 1) \div 2) + 1 \/ node = 2 * ((node - 1) \div 2) + 2)
          BY <1>1, <3>2
        <5> QED
          BY <5>1
      <4>2. p \in 0 .. N - 1 /\ p <= m
        BY <1>1, <4>1
      <4>3. below[p] \subseteq below[0]
        BY <2>2, <4>2
      <4>4. below[node] \subseteq below[p]
        BY <1>2, <4>1
      <4> QED
        BY <4>3, <4>4
    <3> QED
      BY <3>1, <3>2
  <2> HIDE DEF T
  <2>3. \A m \in Nat : m \in T
    BY <2>1, <2>2, Induction
  <2> SUFFICES ASSUME NEW node \in 0 .. N - 1 PROVE below[node] \subseteq below[0]
    OBVIOUS
  <2>4. node \in Nat /\ node <= node
    BY <1>1
  <2> QED
    BY <2>3, <2>4 DEF T
<1>6. below[0] = Data
  <2>1. ASSUME NEW i \in Data PROVE i \in below[0]
    <3>1. PICK l \in I .. N - 1 : i \in LeafData(tree, l)
      BY <1>4
    <3>2. l \in 0 .. N - 1
      BY <1>1
    <3> QED
      BY <1>2, <1>5, <3>1, <3>2
  <2>2. 0 \in 0 .. N - 1
    BY <1>1
  <2> QED
    BY <1>2, <2>1, <2>2
\* Of two nodes with a datum in common, the higher number is below the lower.
<1>7. ASSUME NEW i
      PROVE  \A a, b \in 0 .. N - 1 : i \in below[a] /\ i \in below[b] /\ a < b => 2 * a + 1 <= b
  <2> DEFINE T == {m \in 0 .. N : \A a \in N - m .. N - 1, b \in 0 .. N - 1 :
                     i \in below[a] /\ i \in below[b] /\ a < b => 2 * a + 1 <= b}
  <2>1. 0 \in T
    BY <1>1
  <2>2. ASSUME NEW m \in 1 .. N, m - 1 \in T PROVE m \in T
    <3>1. ASSUME NEW a \in N - m .. N - 1, NEW b \in 0 .. N - 1,
                 i \in below[a], i \in below[b], a < b
          PROVE  2 * a + 1 <= b
      <4>1. a \in 0 .. N - 1 /\ N - (m - 1) <= a + 1
        BY <1>1
      <4>2. CASE a >= I
        <5>1. a \in I .. N - 1 /\ b \in I .. N - 1 /\ a # b
          BY <1>1, <3>1, <4>1, <4>2
        <5> QED
          BY <1>2, <1>3, <3>1, <5>1
      <4>3. CASE ~(a >= I)
        <5>1. PICK c \in 0 .. N - 1 : (c = 2 * a + 1 \/ c = 2 * a + 2) /\ i \in below[c]
          <6>1. a \in 0 .. I - 1 /\ 2 * a + 1 \in 0 .. N - 1 /\ 2 * a + 2 \in 0 .. N - 1
            BY <1>1, <4>1, <4>3
          <6>2. i \in below[2 * a + 1] \/ i \in below[2 * a + 2]
            BY <1>2, <3>1, <6>1
          <6> QED
            BY <6>1, <6>2
        <5> SUFFICES ASSUME b < 2 * a + 1 PROVE FALSE
          BY <1>1, <4>1
        <5>2. b < c /\ b \in N - (m - 1) .. N - 1
          BY <1>1, <3>1, <4>1, <5>1
        <5>3. 2 * b + 1 <= c
          BY <2>2, <3>1, <5>1, <5>2
        <5> QED
          BY <3>1, <4>1, <5>1, <5>3
      <4> QED
        BY <4>2, <4>3
    <3>2. m \in 0 .. N
      BY <1>1
    <3> QED
      BY <3>1, <3>2
  <2> HIDE DEF T
  <2>3. \A m \in 0 .. N : m \in T
    BY <1>1, <2>1, <2>2, BoundedInduction
  <2>4. N \in T
    BY <1>1, <2>3
  <2>5. N - N = 0
    BY <1>1
  <2> QED
    BY <2>4, <2>5 DEF T
<1>8. ASSUME NEW node \in 0 .. I - 1, NEW i \in below[2 * node + 1] PROVE i \notin below[2 * node + 2]
  <2>1. PICK a \in 0 .. N - 1 : a = 2 * node + 1
    BY <1>1
  <2>2. PICK b \in 0 .. N - 1 : b = 2 * node + 2 /\ a < b /\ ~(2 * a + 1 <= b)
    <3>1. 2 * node + 2 \in 0 .. N - 1 /\ a < 2 * node + 2 /\ ~(2 * a + 1 <= 2 * node + 2)
      BY <1>1, <2>1
    <3> QED
      BY <3>1
  <2> QED
    BY <1>7, <1>8, <2>1, <2>2
<1> QED
  BY <1>6, <1>8 DEF I, Data, below

-----------------------------------------------------------------------------
(* Distances and planes.                                                    *)

\* What lies more than a radius away in one dimension, does so altogether.
LEMMA FarApart ==
  ASSUME NEW a \in Int, NEW r \in Nat, a > r \/ -a > r
  PROVE  a * a > r * r
<1>1. ASSUME NEW b \in Int, b > r PROVE b * b > r * r
  <2>1. PICK e \in Nat : b = r + 1 + e
    <3>1. b - r - 1 \in Nat /\ b = r + 1 + (b - r - 1)
      BY <1>1
    <3> QED
      BY <3>1
  <2>2. b * b = r * r + (2 * r + 1) + 2 * (r + 1) * e + e * e
    BY <2>1
  <2>3. (r + 1) * e \in Nat /\ e * e \in Nat /\ r * r \in Nat
    OBVIOUS
  <2>4. 2 * (r + 1) * e = 2 * ((r + 1) * e)
    OBVIOUS
  <2> QED
    BY <2>2, <2>3, <2>4
<1>2. CASE a > r
  BY <1>1, <1>2
<1>3. CASE -a > r
  <2>1. (-a) * (-a) > r * r
    BY <1>1, <1>3
  <2>2. (-a) * (-a) = a * a
    OBVIOUS
  <2> QED
    BY <2>1, <2>2
<1> QED
  BY <1>2, <1>3

\* A square is a natural number.
LEMMA Square ==
  ASSUME NEW a \in Int
  PROVE  a * a \in Nat
<1>1. CASE a \in Nat
  BY <1>1
<1>2. CASE -a \in Nat
  <2>1. (-a) * (-a) \in Nat
    BY <1>2
  <2>2. (-a) * (-a) = a * a
    OBVIOUS
  <2> QED
    BY <2>1, <2>2
<1> QED
  BY <1>1, <1>2

LEMMA Distance ==
  ASSUME NEW n \in Nat, NEW p \in [1 .. n -> Int], NEW q \in [1 .. n -> Int]
  PROVE  Dist2(p, q) \in Nat /\ \A d \in 1 .. n : (p[d] - q[d]) * (p[d] - q[d]) <= Dist2(p, q)
<1> DEFINE f == [d \in 1 .. n |-> (p[d] - q[d]) * (p[d] - q[d])]
<1>1. ASSUME NEW d \in 1 .. n PROVE f[d] = (p[d] - q[d]) * (p[d] - q[d]) /\ f[d] \in Nat
  <2>1. p[d] - q[d] \in Int
    OBVIOUS
  <2>2. (p[d] - q[d]) * (p[d] - q[d]) \in Nat
    BY <2>1, Square
  <2> QED
    BY <2>2
<1>2. f \in [1 .. n -> Nat]
  BY <1>1
<1>3. DOMAIN p = 1 .. n /\ Len(p) = n
  OBVIOUS
<1>4. Dist2(p, q) = RunningSum(f, n)[n]
  BY <1>3 DEF Dist2
<1> HIDE DEF f
<1>5. RunningSum(f, n)[n] \in Nat /\ \A d \in 1 .. n : f[d] <= RunningSum(f, n)[n]
  BY <1>2, SumBounds
<1> QED
  BY <1>1, <1>4, <1>5

\* The low bits hold some power of two of values.
LEMMA DimValuesFacts ==
  ASSUME NEW tree, IsTree(tree), Parses(tree)
  PROVE  DimValues(tree) \in Nat \ {0} /\ (Has(tree, "splitdim") => DimValues(tree) = 1)
<1> DEFINE S == {v \in {1, 2, 4, 8} : tree.ndim <= v}
<1>1. tree.ndim \in 1 .. 8
  BY Shape
<1>2. \E x \in S : \A y \in S : x <= y
  <2>1. S \in SUBSET Nat /\ 8 \in S
    BY <1>1
  <2> HIDE DEF S
  <2> QED
    BY <2>1, LeastNatural
<1>3. Min(S) \in S
  <2> HIDE DEF S
  <2> QED
    BY <1>2 DEF Min
<1> QED
  BY <1>3 DEF DimValues

\* The plane of an interior node is one.
LEMMA PlaneFacts ==
  ASSUME NEW tree, IsTree(tree), Parses(tree), NEW node \in 0 .. NInterior(tree) - 1,
         Has(tree, "split"),
         Has(tree, "splitdim") => Len(tree.tables["splitdim"]) = NInterior(tree)
  PROVE  SplitPlane(tree, node).val \in Int /\ SplitPlane(tree, node).dim \in Nat
<1>1. NInterior(tree) \in Nat /\ node + 1 \in 1 .. NInterior(tree)
  BY Shape
<1>2. Entry(tree, "split", node) \in Int
  <2>1. tree.tables["split"] \in Seq(Int) /\ Len(tree.tables["split"]) = NInterior(tree)
    BY DEF IsTree, Parses
  <2> QED
    BY <1>1, <2>1, LenProperties DEF Entry
<1>3. PICK raw \in Int : raw = Entry(tree, "split", node)
  BY <1>2
<1>4. PICK v \in Nat \ {0} : v = DimValues(tree)
  BY DimValuesFacts
<1>5. CASE Has(tree, "splitdim")
  <2>1. tree.tables["splitdim"] \in Seq(Nat) /\ Len(tree.tables["splitdim"]) = NInterior(tree)
    BY <1>5 DEF IsTree
  <2>2. Entry(tree, "splitdim", node) \in Nat
    BY <1>1, <2>1, LenProperties DEF Entry
  <2>3. SplitPlane(tree, node) = [dim |-> Entry(tree, "splitdim", node), val |-> raw]
    BY <1>3, <1>5 DEF SplitPlane
  <2> QED
    BY <2>2, <2>3
<1>6. CASE ~Has(tree, "splitdim")
  <2>1. raw % v \in Nat /\ raw - (raw % v) \in Int
    OBVIOUS
  <2>2. SplitPlane(tree, node) = [dim |-> raw % v, val |-> raw - (raw % v)]
    BY <1>3, <1>4, <1>6 DEF SplitPlane
  <2> QED
    BY <2>1, <2>2
<1> QED
  BY <1>5, <1>6

\* What a search is after.
Scan(tree, query, radius) == {i \in 0 .. tree.ndata - 1 : Near(tree, query, radius, i)}

\* A child that is not visited has no datum within the radius.
LEMMA Pruned ==
  ASSUME NEW tree, IsTree(tree), Parses(tree), WellFormed(tree),
         NEW node \in 0 .. NInterior(tree) - 1,
         NEW query \in [1 .. tree.ndim -> Int], NEW radius \in Nat
  PROVE  LET plane == SplitPlane(tree, node)
             q == query[plane.dim + 1]
             below == DataBelow(tree)
         IN /\ ~(q - radius <= plane.val + SplitEps(tree)) =>
                 below[2 * node + 1] \cap Scan(tree, query, radius) = {}
            /\ ~(q + radius >= plane.val - SplitEps(tree)) =>
                 below[2 * node + 2] \cap Scan(tree, query, radius) = {}
<1> DEFINE plane == SplitPlane(tree, node)
           q == query[plane.dim + 1]
           below == DataBelow(tree)
           data == tree.tables["data"]
           rounding == IF tree.floats THEN 0 ELSE 1
           eps == SplitEps(tree)
           At(i) == data[i + 1][plane.dim + 1]
<1>1. tree.ndata \in Nat /\ tree.ndim \in Nat
  BY Shape
<1>2. plane.val \in Int /\ plane.dim \in Nat /\ plane.dim < tree.ndim
  BY PlaneFacts DEF WellFormed
<1>3. plane.dim + 1 \in 1 .. tree.ndim
  BY <1>1, <1>2
<1>4. q \in Int
  BY <1>3
<1>5. PICK v \in Nat \ {0} : v = DimValues(tree) /\ (tree.floats => v = 1)
  BY DimValuesFacts DEF WellFormed
<1>6. eps = IF tree.floats THEN 0 ELSE v + 1
  BY <1>5 DEF SplitEps
<1>7. PICK val \in plane.val .. plane.val + v - 1 :
        /\ \A i \in below[2 * node + 1] : At(i) <= val + rounding
        /\ \A i \in below[2 * node + 2] : At(i) >= val - rounding
  BY <1>5 DEF WellFormed
<1>8. data \in Seq([1 .. tree.ndim -> Int]) /\ Len(data) = tree.ndata
  BY DEF IsTree, Parses
<1>9. ASSUME NEW i \in 0 .. tree.ndata - 1
      PROVE  data[i + 1] \in [1 .. tree.ndim -> Int] /\ At(i) \in Int
  <2>1. i + 1 \in 1 .. tree.ndata
    BY <1>1
  <2> HIDE DEF data, plane
  <2>2. data[i + 1] \in [1 .. tree.ndim -> Int]
    BY <1>8, <2>1, LenProperties
  <2> QED
    BY <1>3, <2>2
<1>10. ASSUME NEW i \in Scan(tree, query, radius)
       PROVE  ~(At(i) - q > radius) /\ ~(-(At(i) - q) > radius) /\ At(i) \in Int
  <2>1. i \in 0 .. tree.ndata - 1 /\ Dist2(data[i + 1], query) <= radius * radius
    BY DEF Scan, Near
  <2>2. data[i + 1] \in [1 .. tree.ndim -> Int] /\ At(i) \in Int
    BY <1>9, <2>1
  <2>3. /\ Dist2(data[i + 1], query) \in Nat
        /\ (At(i) - q) * (At(i) - q) <= Dist2(data[i + 1], query)
    <3> HIDE DEF data
    <3>1. PICK pt \in [1 .. tree.ndim -> Int] : pt = data[i + 1]
      BY <2>2
    <3>2. PICK d \in 1 .. tree.ndim : d = plane.dim + 1
      BY <1>3
    <3>3. Dist2(pt, query) \in Nat /\ (pt[d] - query[d]) * (pt[d] - query[d]) <= Dist2(pt, query)
      BY <1>1, Distance
    <3> QED
      BY <3>1, <3>2, <3>3
  <2>4. PICK a \in Int : a = At(i) - q
    BY <1>4, <2>2
  <2>5. PICK d2 \in Nat : d2 = Dist2(data[i + 1], query)
    BY <2>3
  <2>6. a * a <= radius * radius
    <3>1. a * a \in Int /\ radius * radius \in Int
      OBVIOUS
    <3>2. a * a <= d2 /\ d2 <= radius * radius
      BY <2>1, <2>3, <2>4, <2>5
    <3> QED
      BY <3>1, <3>2
  <2>7. ~(a * a > radius * radius)
    <3>1. a * a \in Int /\ radius * radius \in Int
      OBVIOUS
    <3> QED
      BY <2>6, <3>1
  <2>8. ~(a > radius \/ -a > radius)
    BY <2>7, FarApart
  <2> QED
    BY <2>2, <2>4, <2>8
<1> HIDE DEF plane, q, below, data, eps, At
<1>11. ASSUME ~(q - radius <= plane.val + eps), NEW i \in below[2 * node + 1],
              i \in Scan(tree, query, radius)
       PROVE  FALSE
  <2>1. At(i) <= val + rounding /\ ~(-(At(i) - q) > radius) /\ At(i) \in Int
    BY <1>7, <1>10, <1>11
  <2>2. val \in Int /\ val <= plane.val + v - 1
    BY <1>2, <1>5
  <2>3. CASE tree.floats
    <3>1. v = 1 /\ eps = 0 /\ rounding = 0
      BY <1>5, <1>6, <2>3
    <3> QED
      BY <1>2, <1>4, <1>11, <2>1, <2>2, <3>1
  <2>4. CASE ~tree.floats
    <3>1. eps = v + 1 /\ rounding = 1
      BY <1>6, <2>4
    <3>2. PICK x \in Int, y \in Int, b \in Int : x = At(i) /\ y = q /\ b = plane.val
      BY <1>2, <1>4, <2>1
    <3>3. x <= val + 1 /\ val <= b + v - 1 /\ val \in Int
      BY <2>1, <2>2, <3>1, <3>2
    <3>4. ~(y - radius <= b + (v + 1)) /\ ~(-(x - y) > radius)
      BY <1>11, <2>1, <3>1, <3>2
    <3> QED
      BY <3>3, <3>4
  <2> QED
    BY <2>3, <2>4
<1>12. ASSUME ~(q + radius >= plane.val - eps), NEW i \in below[2 * node + 2],
              i \in Scan(tree, query, radius)
       PROVE  FALSE
  <2>1. At(i) >= val - rounding /\ ~(At(i) - q > radius) /\ At(i) \in Int
    BY <1>7, <1>10, <1>12
  <2>2. val \in Int /\ val >= plane.val
    BY <1>2, <1>5
  <2>3. CASE tree.floats
    <3>1. eps = 0 /\ rounding = 0
      BY <1>6, <2>3
    <3> QED
      BY <1>2, <1>4, <1>12, <2>1, <2>2, <3>1
  <2>4. CASE ~tree.floats
    <3>1. eps = v + 1 /\ rounding = 1
      BY <1>6, <2>4
    <3> QED
      BY <1>2, <1>4, <1>5, <1>12, <2>1, <2>2, <3>1
  <2> QED
    BY <2>3, <2>4
<1> QED
  BY <1>11, <1>12 DEF plane, q, below, eps

-----------------------------------------------------------------------------
(* The inductive invariant.                                                 *)

\* The opened files are files that open, and nothing is done with them before
\* all are there.
OpenInv ==
  /\ dir \in Directories
  /\ files \in Seq(DOMAIN dir)
  /\ next \in Nat \ {0}
  /\ \A i \in DOMAIN files : Opens(dir[files[i]])
  /\ phase \in {"open", "opened", "failed"} => warm = {} /\ search = NoSearch

\* What comes before place n of the order.
Ahead(n) == {order[m] : m \in {k \in DOMAIN order : k < n}}

OrderInv ==
  /\ order \in Seq(DOMAIN files)
  /\ \A i \in DOMAIN files : \E n \in DOMAIN order : order[n] = i
  /\ \A m, n \in DOMAIN order : m < n /\ Relevant(order[n], band) => Relevant(order[m], band)

WarmInv ==
  /\ warm \subseteq DOMAIN files
  /\ Bytes(warm) <= Budget
  /\ phase \in {"warming", "ready", "searching", "panic"} =>
       /\ OrderInv
       /\ warm \subseteq Ahead(next)
       /\ \A n \in DOMAIN order :
            n < next /\ order[n] \notin warm =>
              Bytes(warm \cap Ahead(n)) + dir[files[order[n]]].bytes > Budget
  /\ phase \in {"ready", "searching", "panic"} => next > Len(order)

SearchInv ==
  phase = "searching" =>
    /\ IsTree(search.tree) /\ Parses(search.tree)
    /\ search.query \in [1 .. search.tree.ndim -> Int] /\ search.radius \in Nat
    /\ stack \in Seq(0 .. search.tree.nnodes - 1)
    /\ out \in Seq(Nat)

\* What some nodes hold together, and that no two of them hold the same.
Held(below, nodes) == UNION {below[nodes[j]] : j \in DOMAIN nodes}
Apart(below, nodes) ==
  \A j, n \in DOMAIN nodes : j < n => below[nodes[j]] \cap below[nodes[n]] = {}

\* A result that reports some data, each once.
Found(tree, result, S) ==
  /\ ToSet(result) = {Reported(tree, i) : i \in S}
  /\ Len(result) = Cardinality(S)

\* What the nodes to visit hold, and that the search has found S and nothing
\* else.
Pending == Held(DataBelow(search.tree), stack)
Finds(S) == Found(search.tree, out, S)
Hits == Scan(search.tree, search.query, search.radius)

\* On the way a search of a tree as libkd writes it has found all but what lies
\* below the nodes to visit, and no datum lies below two of them.
ExactInv ==
  search # NoSearch /\ WellFormed(search.tree) =>
    /\ phase = "searching" =>
         /\ Finds(Hits \ Pending)
         /\ Apart(DataBelow(search.tree), stack)
    /\ phase \in {"ready", "warming"} => Finds(Hits)

IndexInv == OpenInv /\ WarmInv /\ SearchInv /\ ExactInv

-----------------------------------------------------------------------------
(* Sizes.                                                                   *)

\* A file of the directory has a size and two trees.
LEMMA DirFacts ==
  ASSUME OpenInv
  PROVE  /\ Len(dir) \in Nat /\ DOMAIN dir = 1 .. Len(dir)
         /\ Len(files) \in Nat /\ DOMAIN files = 1 .. Len(files)
         /\ \A i \in DOMAIN files :
              /\ files[i] \in DOMAIN dir
              /\ dir[files[i]].bytes \in Nat
              /\ IsTree(dir[files[i]].codes) /\ IsTree(dir[files[i]].stars)
<1>1. /\ Len(dir) \in Nat /\ DOMAIN dir = 1 .. Len(dir)
      /\ \A i \in DOMAIN dir : dir[i].bytes \in Nat /\ IsTree(dir[i].codes) /\ IsTree(dir[i].stars)
  BY IndexAssumption DEF OpenInv
<1>2. files \in Seq(DOMAIN dir)
  BY DEF OpenInv
<1>3. Len(files) \in Nat /\ DOMAIN files = 1 .. Len(files) /\ \A i \in DOMAIN files : files[i] \in DOMAIN dir
  BY <1>2, LenProperties
<1> QED
  BY <1>1, <1>3

\* More files are no less, one more adds its size.
LEMMA BytesFacts ==
  ASSUME OpenInv
  PROVE  /\ \A S : Bytes(S) \in Nat
         /\ \A S, T : (\A i \in DOMAIN files : i \in S => i \in T) => Bytes(S) <= Bytes(T)
         /\ \A S : \A j \in DOMAIN files : Bytes(S \cup {j}) <= Bytes(S) + dir[files[j]].bytes
<1> DEFINE n == Len(files)
           size(i) == dir[files[i]].bytes
           f(S) == [i \in 1 .. n |-> IF i \in S THEN size(i) ELSE 0]
<1>1. n \in Nat /\ DOMAIN files = 1 .. n /\ \A i \in 1 .. n : size(i) \in Nat
  BY DirFacts
<1>2. \A S : Bytes(S) = RunningSum(f(S), n)[n]
  BY DEF Bytes
<1> HIDE DEF n, size
<1>3. \A S : f(S) \in [1 .. n -> Nat] /\ f(S) \in [1 .. n -> Int]
  BY <1>1
<1>4. ASSUME NEW S PROVE Bytes(S) \in Nat
  <2>1. PICK g \in [1 .. n -> Nat] : g = f(S)
    BY <1>3
  <2> HIDE DEF f
  <2>2. RunningSum(g, n)[n] \in Nat
    BY <1>1, SumBounds
  <2> QED
    BY <1>2, <2>1, <2>2
<1>5. ASSUME NEW S, NEW T, \A i \in 1 .. n : i \in S => i \in T
      PROVE  Bytes(S) <= Bytes(T)
  <2>1. PICK g \in [1 .. n -> Int] : g = f(S)
    BY <1>3
  <2>2. PICK h \in [1 .. n -> Int] : h = f(T)
    BY <1>3
  <2>3. \A i \in 1 .. n : g[i] <= h[i]
    BY <1>1, <1>5, <2>1, <2>2
  <2> HIDE DEF f
  <2>4. \A i \in 0 .. n : RunningSum(g, n)[i] <= RunningSum(h, n)[i]
    BY <1>1, <2>3, SumMonotone
  <2>5. n \in 0 .. n
    BY <1>1
  <2> QED
    BY <1>2, <2>1, <2>2, <2>4, <2>5
<1>6. ASSUME NEW S, NEW j \in 1 .. n PROVE Bytes(S \cup {j}) <= Bytes(S) + size(j)
  <2>1. PICK g \in [1 .. n -> Int] : g = f(S)
    BY <1>3
  <2>2. PICK h \in [1 .. n -> Int] : h = f(S \cup {j})
    BY <1>3
  <2>3. \A i \in 1 .. n : i # j => h[i] <= g[i]
    BY <1>1, <2>1, <2>2
  <2>4. h[j] <= g[j] + size(j)
    BY <1>1, <2>1, <2>2
  <2>5. size(j) \in Nat
    BY <1>1
  <2> HIDE DEF f
  <2>6. RunningSum(h, n)[n] <= RunningSum(g, n)[n] + size(j)
    BY <1>1, <2>3, <2>4, <2>5, SumOneMore
  <2> QED
    BY <1>2, <2>1, <2>2, <2>6
<1> QED
  BY <1>1, <1>4, <1>5, <1>6 DEF size

\* Nothing has no size.
LEMMA BytesNone == OpenInv => Bytes({}) = 0
<1> SUFFICES ASSUME OpenInv PROVE Bytes({}) = 0
  OBVIOUS
<1> DEFINE n == Len(files)
           f == [i \in 1 .. n |-> IF i \in {} THEN dir[files[i]].bytes ELSE 0]
           sum == RunningSum(f, n)
           T == {i \in 0 .. n : sum[i] = 0}
<1>1. n \in Nat
  BY DirFacts
<1>2. f \in [1 .. n -> Int] /\ \A i \in 1 .. n : f[i] = 0
  OBVIOUS
<1>3. Bytes({}) = sum[n]
  BY DEF Bytes
<1> HIDE DEF n, f
<1>4. sum[0] = 0 /\ \A i \in 1 .. n : sum[i] = sum[i - 1] + f[i]
  BY <1>1, <1>2, SumRecursion
<1> HIDE DEF sum
<1>5. 0 \in T
  BY <1>1, <1>4
<1>6. ASSUME NEW i \in 1 .. n, i - 1 \in T PROVE i \in T
  BY <1>1, <1>2, <1>4, <1>6
<1> HIDE DEF T
<1>7. \A i \in 0 .. n : i \in T
  BY <1>1, <1>5, <1>6, BoundedInduction
<1> QED
  BY <1>1, <1>3, <1>7 DEF T

-----------------------------------------------------------------------------
(* The directory and the prefetch.                                          *)

\* As long as nothing is done with the files.
LEMMA EarlyInv == OpenInv /\ phase \in {"open", "opened", "failed"} => IndexInv
<1> SUFFICES ASSUME OpenInv, phase \in {"open", "opened", "failed"} PROVE IndexInv
  OBVIOUS
<1>1. warm = {} /\ search = NoSearch
  BY DEF OpenInv
<1>2. Bytes(warm) <= Budget
  BY <1>1, BytesNone, IndexAssumption
<1> QED
  BY <1>1, <1>2 DEF IndexInv, WarmInv, SearchInv, ExactInv

LEMMA InitInv == Init => IndexInv
<1> SUFFICES ASSUME Init PROVE IndexInv
  OBVIOUS
<1>1. files = <<>> /\ <<>> \in Seq(DOMAIN dir) /\ DOMAIN files = {}
  BY EmptySeq DEF Init
<1>2. OpenInv
  BY <1>1 DEF Init, OpenInv
<1> QED
  BY <1>2, EarlyInv DEF Init

LEMMA OpenFileInv ==
  ASSUME IndexInv, OpenFile
  PROVE  IndexInv'
<1>1. OpenInv /\ next \in 1 .. Len(dir)
  BY DEF IndexInv, OpenInv, OpenFile
<1>2. next \in DOMAIN dir
  BY <1>1, DirFacts
<1>3. /\ files' \in Seq(DOMAIN dir)
      /\ \A i \in DOMAIN files' : Opens(dir[files'[i]])
  <2>1. files \in Seq(DOMAIN dir) /\ \A i \in DOMAIN files : Opens(dir[files[i]])
    BY <1>1 DEF OpenInv
  <2>2. CASE files' = files
    BY <2>1, <2>2
  <2>3. CASE Opens(dir[next]) /\ files' = Append(files, next)
    <3>1. /\ files' \in Seq(DOMAIN dir) /\ Len(files) \in Nat /\ Len(files') = Len(files) + 1
          /\ \A i \in 1 .. Len(files) : files'[i] = files[i]
          /\ files'[Len(files) + 1] = next
      BY <1>2, <2>1, <2>3, Pushed
    <3>2. DOMAIN files' = 1 .. Len(files) + 1 /\ DOMAIN files = 1 .. Len(files)
      BY <2>1, <3>1, LenProperties
    <3>3. \A i \in DOMAIN files' : i = Len(files) + 1 \/ i \in 1 .. Len(files)
      BY <3>1, <3>2
    <3> QED
      BY <2>1, <2>3, <3>1, <3>2, <3>3
  <2> QED
    BY <2>2, <2>3 DEF OpenFile
<1>4. OpenInv'
  <2>1. next' \in Nat \ {0}
    BY <1>1 DEF OpenInv, OpenFile
  <2>2. dir' = dir /\ phase' = phase /\ warm' = warm /\ search' = search
    BY DEF OpenFile, searchVars
  <2>3. \A i \in DOMAIN files' : Opens(dir[files[i]])'
    BY <1>3, <2>2 DEF Opens
  <2> QED
    BY <1>1, <1>3, <2>1, <2>2, <2>3 DEF OpenInv
<1>5. (phase \in {"open", "opened", "failed"})'
  BY DEF OpenFile
<1> QED
  BY <1>4, <1>5, EarlyInv, PTL

LEMMA DirectoryReadInv ==
  ASSUME IndexInv, DirectoryRead
  PROVE  IndexInv'
<1>1. OpenInv /\ phase = "open"
  BY DEF IndexInv, DirectoryRead
<1>2. files \in Seq(DOMAIN dir) /\ \A i \in DOMAIN files : Opens(dir[files[i]])
  BY <1>1 DEF OpenInv
<1>3. files' \in [DOMAIN files -> ToSet(files)]
  BY DEF DirectoryRead, Sorted
<1>4. /\ Len(files) \in Nat /\ DOMAIN files = 1 .. Len(files)
      /\ \A f \in ToSet(files) : f \in DOMAIN dir /\ Opens(dir[f])
  <2>1. Len(files) \in Nat /\ DOMAIN files = 1 .. Len(files)
    BY <1>2, LenProperties
  <2> QED
    BY <1>2, <2>1, LenProperties DEF ToSet
<1>5. /\ files' \in Seq(DOMAIN dir)
      /\ \A i \in DOMAIN files' : Opens(dir[files'[i]])
  BY <1>3, <1>4
<1>6. (phase \in {"open", "opened", "failed"})'
  BY DEF DirectoryRead
<1>7. OpenInv'
  BY <1>1, <1>5, <1>6 DEF OpenInv, DirectoryRead, Opens, searchVars
<1> QED
  BY <1>6, <1>7, EarlyInv, PTL

\* The order has every file, the relevant ones first.
LEMMA PriorityFacts ==
  ASSUME OpenInv, NEW b
  PROVE  LET o == Priority(b)
         IN /\ o \in Seq(DOMAIN files)
            /\ \A i \in DOMAIN files : \E n \in DOMAIN o : o[n] = i
            /\ \A m, n \in DOMAIN o : m < n /\ Relevant(o[n], b) => Relevant(o[m], b)
<1> DEFINE D == DOMAIN files
           len == Len(files)
           all == [i \in D |-> i]
           R == {i \in D : Relevant(i, b)}
           front == Retain(all, R)
           back == Retain(all, D \ R)
           o == front \o back
<1>1. len \in Nat /\ D = 1 .. len
  BY DirFacts
<1>2. all \in Seq(D) /\ Len(all) = len /\ \A i \in 1 .. len : all[i] = i
  BY <1>1
<1> HIDE DEF D, len, all
<1>3. ASSUME NEW places \in SUBSET D
      PROVE  /\ Retain(all, places) \in Seq(D)
             /\ \A i \in 1 .. Len(Retain(all, places)) : Retain(all, places)[i] \in places
             /\ \A p \in places : \E i \in 1 .. Len(Retain(all, places)) : Retain(all, places)[i] = p
  <2>1. Retain(all, places) \in Seq(D)
    BY <1>2, RetainFacts
  <2>2. PICK at : Picks(Retain(all, places), all, places, len, at)
    BY <1>2, RetainFacts
  <2>3. \A i \in 1 .. Len(Retain(all, places)) : Retain(all, places)[i] = at[i] /\ at[i] \in places
    BY <1>2, <2>2 DEF Picks
  <2>4. \A p \in places : \E i \in 1 .. Len(Retain(all, places)) : at[i] = p
    BY <1>1, <2>2 DEF Picks
  <2> QED
    BY <2>1, <2>3, <2>4
<1>4. /\ front \in Seq(D)
      /\ \A i \in 1 .. Len(front) : front[i] \in R
      /\ \A p \in R : \E i \in 1 .. Len(front) : front[i] = p
  BY <1>3
<1>5. /\ back \in Seq(D)
      /\ \A i \in 1 .. Len(back) : back[i] \in D \ R
      /\ \A p \in D \ R : \E i \in 1 .. Len(back) : back[i] = p
  BY <1>3
<1>6. \A i \in D : i \in R <=> Relevant(i, b)
  OBVIOUS
<1>7. Priority(b) = o
  BY DEF Priority, D, all
<1> HIDE DEF front, back, R
<1>8. /\ o \in Seq(D) /\ Len(front) \in Nat /\ Len(back) \in Nat
      /\ DOMAIN o = 1 .. Len(front) + Len(back)
      /\ \A i \in 1 .. Len(front) + Len(back) : o[i] = IF i <= Len(front) THEN front[i] ELSE back[i - Len(front)]
  BY <1>4, <1>5, ConcatProperties, LenProperties
<1> HIDE DEF o
<1>9. ASSUME NEW i \in D PROVE \E n \in DOMAIN o : o[n] = i
  <2>1. CASE i \in R
    <3>1. PICK m \in 1 .. Len(front) : front[m] = i
      BY <1>4, <2>1
    <3>2. m \in DOMAIN o /\ o[m] = i
      BY <1>8, <3>1
    <3> QED
      BY <3>2
  <2>2. CASE i \notin R
    <3>1. PICK m \in 1 .. Len(back) : back[m] = i
      BY <1>5, <2>2
    <3>2. PICK n \in 1 .. Len(front) + Len(back) : n = m + Len(front) /\ ~(n <= Len(front)) /\ n - Len(front) = m
      <4>1. m + Len(front) \in 1 .. Len(front) + Len(back) /\ ~(m + Len(front) <= Len(front)) /\ m + Len(front) - Len(front) = m
        BY <1>8
      <4> QED
        BY <4>1
    <3> QED
      BY <1>8, <3>1, <3>2
  <2> QED
    BY <2>1, <2>2
<1>10. ASSUME NEW m \in DOMAIN o, NEW n \in DOMAIN o, m < n, Relevant(o[n], b) PROVE Relevant(o[m], b)
  <2>1. n <= Len(front)
    <3> SUFFICES ASSUME ~(n <= Len(front)) PROVE FALSE
      OBVIOUS
    <3>1. n - Len(front) \in 1 .. Len(back)
      BY <1>8
    <3>2. o[n] \in D \ R
      BY <1>5, <1>8, <3>1
    <3> QED
      BY <1>6, <1>10, <3>2
  <2>2. m \in 1 .. Len(front) /\ m <= Len(front)
    BY <1>8, <1>10, <2>1
  <2>3. o[m] \in R /\ o[m] \in D
    BY <1>4, <1>8, <2>2 DEF R
  <2> QED
    BY <1>6, <2>3
<1> QED
  BY <1>7, <1>8, <1>9, <1>10 DEF D

Warmed == {"warming", "ready", "searching", "panic"}

\* Sizes do not change when the cache does not.
LEMMA BytesKept ==
  ASSUME UNCHANGED <<dir, files>>, NEW S
  PROVE  Bytes(S)' = Bytes(S)
<1> DEFINE n == Len(files)
           f == [i \in 1 .. n |-> IF i \in S THEN dir[files[i]].bytes ELSE 0]
<1>1. dir' = dir /\ files' = files
  OBVIOUS
<1>2. (n)' = n /\ (f)' = f
  BY <1>1
<1>3. Bytes(S) = RunningSum(f, n)[n]
  BY DEF Bytes
<1>4. Bytes(S)' = RunningSum((f)', (n)')[(n)']
  BY DEF Bytes
<1> HIDE DEF f, n
<1> QED
  BY <1>2, <1>3, <1>4

\* A step that leaves the cache alone.
LEMMA CacheKept ==
  ASSUME OpenInv, WarmInv, UNCHANGED cacheVars, phase \in Warmed, phase' \in Warmed,
         phase' # "warming" => next > Len(order)
  PROVE  OpenInv' /\ WarmInv'
<1>1. dir' = dir /\ files' = files /\ next' = next /\ order' = order /\ band' = band /\ warm' = warm
  BY DEF cacheVars
<1>2. OpenInv'
  BY <1>1 DEF OpenInv, Opens, Warmed
<1>3. OrderInv'
  BY <1>1 DEF OrderInv, Relevant, WarmInv, Warmed
<1>4. \A n : Ahead(n)' = Ahead(n)
  BY <1>1 DEF Ahead
<1>5. \A S : Bytes(S)' = Bytes(S)
  BY <1>1, BytesKept
<1>6. (Bytes(warm))' = Bytes(warm)
  <2>1. PICK w : w = warm
    OBVIOUS
  <2>2. (Bytes(warm))' = Bytes(w)'
    BY <1>1, <2>1 DEF Bytes
  <2> QED
    BY <1>5, <2>1, <2>2
<1>7. \A n : (Bytes(warm \cap Ahead(n)))' = Bytes(warm \cap Ahead(n))
  <2> TAKE n
  <2>1. PICK w : w = warm \cap Ahead(n)
    OBVIOUS
  <2>2. w = (warm \cap Ahead(n))'
    BY <1>1, <2>1 DEF Ahead
  <2>3. (Bytes(warm \cap Ahead(n)))' = Bytes(w)'
    BY <2>2 DEF Bytes
  <2> QED
    BY <1>5, <2>1, <2>3
<1>8. WarmInv'
  BY <1>1, <1>3, <1>4, <1>6, <1>7 DEF WarmInv, Warmed
<1> QED
  BY <1>2, <1>8

\* A step that leaves the search alone.
LEMMA SearchKept ==
  ASSUME SearchInv, ExactInv, UNCHANGED searchVars,
         phase' = "searching" => phase = "searching",
         phase' \in {"ready", "warming"} => phase \in {"ready", "warming"}
  PROVE  SearchInv' /\ ExactInv'
<1>1. search' = search /\ stack' = stack /\ out' = out
  BY DEF searchVars
<1>2. SearchInv'
  BY <1>1 DEF SearchInv
<1>3. Pending' = Pending /\ Hits' = Hits
  BY <1>1 DEF Pending, Hits
<1>4. (Finds(Hits) => Finds(Hits)') /\ (Finds(Hits \ Pending) => Finds(Hits \ Pending)')
  BY <1>1, <1>3 DEF Finds
<1>5. ExactInv'
  BY <1>1, <1>4 DEF ExactInv
<1> QED
  BY <1>2, <1>5

LEMMA BeginPrewarmInv ==
  ASSUME IndexInv, BeginPrewarm
  PROVE  IndexInv'
<1>1. OpenInv /\ WarmInv /\ SearchInv /\ ExactInv
  BY DEF IndexInv
<1>2. /\ dir' = dir /\ files' = files /\ phase' = "warming" /\ next' = 1 /\ warm' = {}
      /\ UNCHANGED searchVars
  BY DEF BeginPrewarm
<1>3. OpenInv'
  BY <1>1, <1>2 DEF OpenInv, Opens
<1>4. OrderInv'
  <2>1. PICK b : b = band'
    OBVIOUS
  <2>2. PICK o : o = Priority(b)
    OBVIOUS
  <2>3. order' = o
    BY <2>1, <2>2 DEF BeginPrewarm
  <2>4. /\ o \in Seq(DOMAIN files)
        /\ \A i \in DOMAIN files : \E n \in DOMAIN o : o[n] = i
        /\ \A m, n \in DOMAIN o : m < n /\ Relevant(o[n], b) => Relevant(o[m], b)
    BY <1>1, <2>2, PriorityFacts
  <2>5. \A i : Relevant(i, b)' <=> Relevant(i, b)
    BY <1>2 DEF Relevant
  <2>6. \A n : Relevant(order[n], band)' <=> Relevant(o[n], b)'
    BY <2>1, <2>3 DEF Relevant
  <2>7. \A n : Relevant(order[n], band)' <=> Relevant(o[n], b)
    BY <2>5, <2>6
  <2> QED
    BY <1>2, <2>3, <2>4, <2>7 DEF OrderInv
<1>5. (Bytes(warm) <= Budget)'
  <2>1. (Bytes({}) = 0)'
    BY <1>3, BytesNone, PTL
  <2>2. (Bytes(warm))' = (Bytes({}))'
    BY <1>2 DEF Bytes
  <2> QED
    BY <2>1, <2>2, IndexAssumption
<1>6. WarmInv'
  <2>1. order' \in Seq(DOMAIN files')
    BY <1>4 DEF OrderInv
  <2>2. \A n \in DOMAIN order' : ~(n < 1)
    BY <2>1, LenProperties
  <2> QED
    BY <1>2, <1>4, <1>5, <2>2 DEF WarmInv
<1>7. SearchInv' /\ ExactInv'
  <2>1. CASE phase = "opened"
    <3>1. search' = NoSearch
      BY <1>1, <1>2, <2>1 DEF OpenInv, searchVars
    <3> QED
      BY <1>2, <3>1 DEF SearchInv, ExactInv
  <2>2. CASE phase = "ready"
    BY <1>1, <1>2, <2>2, SearchKept
  <2> QED
    BY <2>1, <2>2 DEF BeginPrewarm
<1> QED
  BY <1>3, <1>6, <1>7 DEF IndexInv

LEMMA PrewarmFileInv ==
  ASSUME IndexInv, PrewarmFile
  PROVE  IndexInv'
<1>1. OpenInv /\ WarmInv /\ SearchInv /\ ExactInv /\ OrderInv
  BY DEF IndexInv, WarmInv, PrewarmFile
<1>2. /\ dir' = dir /\ files' = files /\ order' = order /\ band' = band
      /\ phase = "warming" /\ phase' = "warming" /\ next' = next + 1 /\ next <= Len(order)
      /\ UNCHANGED searchVars
  BY DEF PrewarmFile
<1>3. /\ next \in 1 .. Len(order) /\ order \in Seq(DOMAIN files)
      /\ Len(order) \in Nat /\ DOMAIN order = 1 .. Len(order)
      /\ order[next] \in DOMAIN files
  <2>1. order \in Seq(DOMAIN files) /\ next \in Nat \ {0}
    BY <1>1 DEF OrderInv, OpenInv
  <2> QED
    BY <1>2, <2>1, LenProperties
<1>4. PICK w : w = warm'
  OBVIOUS
<1>5. \/ w = warm /\ ~Fits(order[next])
      \/ w = warm \cup {order[next]} /\ Fits(order[next])
  BY <1>4 DEF PrewarmFile
<1>6. OpenInv'
  BY <1>1, <1>2, <1>3 DEF OpenInv, Opens
<1>7. OrderInv'
  BY <1>1, <1>2 DEF OrderInv, Relevant
<1>8. /\ \A S : Bytes(S) \in Nat
      /\ \A S, T : (\A i \in DOMAIN files : i \in S => i \in T) => Bytes(S) <= Bytes(T)
      /\ \A S : \A j \in DOMAIN files : Bytes(S \cup {j}) <= Bytes(S) + dir[files[j]].bytes
      /\ \A i \in DOMAIN files : dir[files[i]].bytes \in Nat
  BY <1>1, BytesFacts, DirFacts
<1>9. /\ warm \subseteq DOMAIN files /\ Bytes(warm) <= Budget /\ warm \subseteq Ahead(next)
      /\ \A n \in DOMAIN order :
           n < next /\ order[n] \notin warm =>
             Bytes(warm \cap Ahead(n)) + dir[files[order[n]]].bytes > Budget
  BY <1>1, <1>2 DEF WarmInv
<1>10. w \subseteq DOMAIN files
  BY <1>3, <1>5, <1>9
<1>11. Bytes(w) <= Budget
  <2>1. CASE w = warm
    BY <1>9, <2>1
  <2>2. CASE w = warm \cup {order[next]} /\ Fits(order[next])
    <3>1. Bytes(w) <= Bytes(warm) + dir[files[order[next]]].bytes
      BY <1>3, <1>8, <2>2
    <3>2. Bytes(warm) + dir[files[order[next]]].bytes <= Budget
      BY <2>2 DEF Fits
    <3> QED
      BY <1>3, <1>8, <3>1, <3>2, IndexAssumption
  <2> QED
    BY <1>5, <2>1, <2>2
<1>12. w \subseteq Ahead(next + 1)
  <2>1. \A k \in DOMAIN order : k < next => k < next + 1
    BY <1>3
  <2>2. Ahead(next) \subseteq Ahead(next + 1)
    BY <2>1 DEF Ahead
  <2>3. order[next] \in Ahead(next + 1)
    BY <1>3 DEF Ahead
  <2> QED
    BY <1>5, <1>9, <2>2, <2>3
<1>13. ASSUME NEW n \in DOMAIN order, n < next + 1, order[n] \notin w
       PROVE  Bytes(w \cap Ahead(n)) + dir[files[order[n]]].bytes > Budget
  <2>1. order[n] \in DOMAIN files
    BY <1>3
  <2>2. PICK a \in Nat : a = Bytes(w \cap Ahead(n))
    BY <1>8
  <2>3. PICK s \in Nat : s = dir[files[order[n]]].bytes
    BY <1>8, <2>1
  <2>4. CASE n < next
    <3>1. order[n] \notin warm
      BY <1>5, <1>13
    <3>2. PICK c \in Nat : c = Bytes(warm \cap Ahead(n))
      BY <1>8
    <3>3. c + s > Budget
      BY <1>9, <2>3, <2>4, <3>1, <3>2
    <3>4. c <= a
      BY <1>5, <1>8, <2>2, <3>2
    <3> QED
      BY <2>2, <2>3, <3>3, <3>4, IndexAssumption
  <2>5. CASE ~(n < next)
    <3>1. n = next
      BY <1>3, <1>13, <2>5
    <3>2. ~Fits(order[next]) /\ w = warm
      BY <1>5, <1>13, <3>1
    <3>3. PICK c \in Nat : c = Bytes(warm)
      BY <1>8
    <3>4. ~(c + s <= Budget)
      BY <2>3, <3>1, <3>2, <3>3 DEF Fits
    <3>5. c <= a
      BY <1>8, <1>9, <2>2, <3>1, <3>2, <3>3
    <3> QED
      BY <2>2, <2>3, <3>4, <3>5, IndexAssumption
  <2> QED
    BY <2>4, <2>5
<1>14. \A S : Bytes(S)' = Bytes(S)
  BY <1>2, BytesKept
<1>15. (Bytes(warm))' = Bytes(w)
  <2>1. (Bytes(warm))' = Bytes(w)'
    BY <1>4 DEF Bytes
  <2> QED
    BY <1>14, <2>1
<1>16. \A n : (Bytes(warm \cap Ahead(n)))' = Bytes(w \cap Ahead(n)) /\ Ahead(n)' = Ahead(n)
  <2> TAKE n
  <2>1. PICK v : v = w \cap Ahead(n)
    OBVIOUS
  <2>2. v = (warm \cap Ahead(n))' /\ Ahead(n)' = Ahead(n)
    BY <1>2, <1>4, <2>1 DEF Ahead
  <2>3. (Bytes(warm \cap Ahead(n)))' = Bytes(v)'
    BY <2>2 DEF Bytes
  <2> QED
    BY <1>14, <2>1, <2>2, <2>3
<1>17. (warm \subseteq Ahead(next))'
  <2>1. (Ahead(next))' = Ahead(next + 1)
    BY <1>2 DEF Ahead
  <2> QED
    BY <1>4, <1>12, <2>1
<1>18. (\A n \in DOMAIN order :
          n < next /\ order[n] \notin warm =>
            Bytes(warm \cap Ahead(n)) + dir[files[order[n]]].bytes > Budget)'
  BY <1>2, <1>4, <1>13, <1>16
<1>19. WarmInv'
  BY <1>2, <1>4, <1>7, <1>10, <1>11, <1>15, <1>17, <1>18 DEF WarmInv
<1>20. SearchInv' /\ ExactInv'
  BY <1>1, <1>2, SearchKept
<1> QED
  BY <1>6, <1>19, <1>20 DEF IndexInv

LEMMA PrewarmEndsInv ==
  ASSUME IndexInv, PrewarmEnds
  PROVE  IndexInv'
<1>1. OpenInv /\ WarmInv /\ SearchInv /\ ExactInv
  BY DEF IndexInv
<1>2. OpenInv' /\ WarmInv'
  BY <1>1, CacheKept DEF PrewarmEnds, Warmed
<1>3. SearchInv' /\ ExactInv'
  BY <1>1, SearchKept DEF PrewarmEnds
<1> QED
  BY <1>2, <1>3 DEF IndexInv

-----------------------------------------------------------------------------
(* The search.                                                              *)

\* The node to visit next is one of those that hold what is pending.
LEMMA HeldFront ==
  ASSUME NEW S, NEW s \in Seq(S), s # <<>>, NEW below
  PROVE  /\ Front(s) \in Seq(S) /\ Last(s) \in S
         /\ Held(below, s) = Held(below, Front(s)) \cup below[Last(s)]
         /\ Apart(below, s) =>
              /\ Held(below, Front(s)) \cap below[Last(s)] = {}
              /\ Apart(below, Front(s))
<1> DEFINE len == Len(s)
<1>1. len \in Nat \ {0} /\ DOMAIN s = 1 .. len /\ \A j \in 1 .. len : s[j] \in S
  BY LenProperties, EmptySeq
<1>2. /\ Front(s) \in Seq(S) /\ DOMAIN Front(s) = 1 .. len - 1
      /\ \A j \in 1 .. len - 1 : Front(s)[j] = s[j]
  BY <1>1 DEF Front
<1>3. Last(s) = s[len] /\ len \in 1 .. len
  BY <1>1 DEF Last
<1>9. len \in Nat
  BY <1>1
<1> HIDE DEF len
<1>4. \A j \in 1 .. len : j = len \/ j \in 1 .. len - 1
  BY <1>9
<1>5. \A j \in 1 .. len - 1 : j \in 1 .. len /\ j < len
  BY <1>9
<1>6. Held(below, s) = Held(below, Front(s)) \cup below[Last(s)]
  BY <1>1, <1>2, <1>3, <1>4, <1>5 DEF Held
<1>7. Apart(below, s) => Held(below, Front(s)) \cap below[Last(s)] = {}
  BY <1>1, <1>2, <1>3, <1>5 DEF Held, Apart
<1>8. Apart(below, s) => Apart(below, Front(s))
  BY <1>1, <1>2, <1>5 DEF Apart
<1> QED
  BY <1>1, <1>2, <1>3, <1>6, <1>7, <1>8

\* More nodes to visit.
LEMMA HeldMore ==
  ASSUME NEW S, NEW s \in Seq(S), NEW t \in Seq(S), NEW below,
         Apart(below, s), Apart(below, t), Held(below, s) \cap Held(below, t) = {}
  PROVE  /\ s \o t \in Seq(S)
         /\ Held(below, s \o t) = Held(below, s) \cup Held(below, t)
         /\ Apart(below, s \o t)
<1> DEFINE m == Len(s)
           k == Len(t)
           u == s \o t
<1>1. /\ m \in Nat /\ DOMAIN s = 1 .. m
      /\ k \in Nat /\ DOMAIN t = 1 .. k
  BY LenProperties
<1>2. /\ u \in Seq(S) /\ DOMAIN u = 1 .. m + k
      /\ \A j \in 1 .. m + k : u[j] = IF j <= m THEN s[j] ELSE t[j - m]
  BY <1>1, ConcatProperties, LenProperties
<1> HIDE DEF m, k, u
<1>3. \A j \in 1 .. m : j \in DOMAIN u /\ u[j] = s[j]
  BY <1>1, <1>2
<1>4. ASSUME NEW j \in 1 .. k PROVE \E n \in DOMAIN u : u[n] = t[j]
  <2>1. PICK a \in Nat : a = m
    BY <1>1
  <2>2. j \in Nat \ {0} /\ k \in Nat /\ j <= k
    BY <1>1
  <2>3. PICK n \in 1 .. m + k : n = a + j
    BY <2>1, <2>2
  <2>4. ~(n <= m) /\ n - m = j
    BY <2>1, <2>2, <2>3
  <2> QED
    BY <1>2, <2>3, <2>4
<1>5. ASSUME NEW j \in DOMAIN u
      PROVE  \/ j \in 1 .. m /\ u[j] = s[j]
             \/ j > m /\ j - m \in 1 .. k /\ u[j] = t[j - m]
  <2>3. j \in 1 .. m + k
    BY <1>2
  <2>1. j <= m => j \in 1 .. m
    BY <1>1, <2>3
  <2>2. ~(j <= m) => j > m /\ j - m \in 1 .. k
    BY <1>1, <2>3
  <2> QED
    BY <1>2, <2>1, <2>2, <2>3
<1>6. Held(below, u) = Held(below, s) \cup Held(below, t)
  <2>1. ASSUME NEW x \in Held(below, u) PROVE x \in Held(below, s) \cup Held(below, t)
    <3>1. PICK j \in DOMAIN u : x \in below[u[j]]
      BY DEF Held
    <3> QED
      BY <1>1, <1>5, <3>1 DEF Held
  <2>2. ASSUME NEW x \in Held(below, s) PROVE x \in Held(below, u)
    <3>1. PICK j \in 1 .. m : x \in below[s[j]]
      BY <1>1 DEF Held
    <3> QED
      BY <1>3, <3>1 DEF Held
  <2>3. ASSUME NEW x \in Held(below, t) PROVE x \in Held(below, u)
    <3>1. PICK j \in 1 .. k : x \in below[t[j]]
      BY <1>1 DEF Held
    <3>2. PICK n \in DOMAIN u : u[n] = t[j]
      BY <1>4
    <3> QED
      BY <3>1, <3>2 DEF Held
  <2> QED
    BY <2>1, <2>2, <2>3
<1>7. ASSUME NEW j \in DOMAIN u, NEW n \in DOMAIN u, j < n
      PROVE  below[u[j]] \cap below[u[n]] = {}
  <2>1. j \in Int /\ n \in Int
    BY <1>1, <1>2
  <2>2. CASE n \in 1 .. m
    <3>1. j \in 1 .. m
      BY <1>1, <1>2, <1>7, <2>2
    <3> QED
      BY <1>1, <1>3, <1>7, <2>2, <3>1 DEF Apart
  <2>3. CASE j > m
    <3>1. n > m /\ j - m < n - m
      BY <1>1, <1>7, <2>1, <2>3
    <3>2. j \notin 1 .. m /\ n \notin 1 .. m
      BY <1>1, <2>1, <2>3, <3>1
    <3>3. PICK a \in 1 .. k : a = j - m /\ u[j] = t[a]
      BY <1>5, <3>2
    <3>4. PICK b \in 1 .. k : b = n - m /\ u[n] = t[b]
      BY <1>5, <3>2
    <3>5. a < b
      BY <3>1, <3>3, <3>4
    <3> QED
      BY <1>1, <3>3, <3>4, <3>5 DEF Apart
  <2>4. CASE ~(j > m) /\ n \notin 1 .. m
    <3>1. j \in 1 .. m
      BY <1>1, <1>2, <2>4
    <3>2. below[u[j]] \subseteq Held(below, s)
      BY <1>1, <1>3, <3>1 DEF Held
    <3>3. below[u[n]] \subseteq Held(below, t)
      BY <1>1, <1>5, <2>4 DEF Held
    <3> QED
      BY <3>2, <3>3
  <2> QED
    BY <2>2, <2>3, <2>4
<1> QED
  BY <1>2, <1>6, <1>7 DEF Apart, u

\* A reported index is a number.
LEMMA ReportedFacts ==
  ASSUME NEW tree, IsTree(tree), Parses(tree)
  PROVE  \A i \in 0 .. tree.ndata - 1 : Reported(tree, i) \in Nat
<1>1. tree.ndata \in Nat
  BY Shape
<1>2. CASE Has(tree, "perm")
  <2>1. tree.tables["perm"] \in Seq(Nat) /\ Len(tree.tables["perm"]) = tree.ndata
    BY <1>2 DEF IsTree, Parses
  <2>2. \A i \in 1 .. tree.ndata : tree.tables["perm"][i] \in Nat
    BY <2>1, LenProperties
  <2>3. \A i \in 0 .. tree.ndata - 1 : i + 1 \in 1 .. tree.ndata
    BY <1>1
  <2> QED
    BY <1>2, <2>2, <2>3 DEF Reported, Entry
<1>3. CASE ~Has(tree, "perm")
  BY <1>1, <1>3 DEF Reported
<1> QED
  BY <1>2, <1>3

\* A leaf reports its data that are near, each once.
LEMMA LeafReports ==
  ASSUME NEW tree, IsTree(tree), Parses(tree), NEW node \in Leaves(tree),
         NEW query, NEW radius
  PROVE  LET left == LeafRange(tree, node).left
             right == LeafRange(tree, node).right
             places == 1 .. IF left < right THEN right - left ELSE 0
             all == [n \in places |-> Reported(tree, left + n - 1)]
             near == {n \in places : Near(tree, query, radius, left + n - 1)}
             hits == {i \in LeafData(tree, node) : Near(tree, query, radius, i)}
             got == Retain(all, near)
         IN /\ got \in Seq(Nat)
            /\ IsFiniteSet(hits) /\ Found(tree, got, hits)
<1> DEFINE left == LeafRange(tree, node).left
           right == LeafRange(tree, node).right
           count == IF left < right THEN right - left ELSE 0
           places == 1 .. count
           R(i) == Reported(tree, i)
           Is(i) == Near(tree, query, radius, i)
           all == [n \in places |-> R(left + n - 1)]
           near == {n \in places : Is(left + n - 1)}
           hits == {i \in LeafData(tree, node) : Is(i)}
           got == Retain(all, near)
<1>1. /\ left \in Nat /\ right \in Nat
      /\ \A i \in left .. right - 1 : R(i) \in Nat
      /\ LeafData(tree, node) = left .. right - 1
  BY LeafInside, ReportedFacts DEF LeafData
<1>2. hits = {i \in left .. right - 1 : Is(i)}
  BY <1>1
<1> HIDE DEF left, right, R, Is, hits
<1>3. /\ count \in Nat
      /\ \A n \in places : left + n - 1 \in left .. right - 1
      /\ \A i \in left .. right - 1 : i - left + 1 \in places /\ left + (i - left + 1) - 1 = i
  BY <1>1
<1> HIDE DEF count
<1>4. all \in Seq(Nat) /\ Len(all) = count /\ \A n \in places : all[n] = R(left + n - 1)
  BY <1>1, <1>3
<1>5. \A n \in places : n \in near <=> Is(left + n - 1)
  OBVIOUS
<1> HIDE DEF all, near
<1>6. got \in Seq(Nat)
  BY <1>4, RetainFacts
<1>7. PICK at : Picks(got, all, near, count, at)
  BY <1>4, RetainFacts
<1> HIDE DEF got
<1>8. PICK len \in Nat : len = Len(got) /\ DOMAIN got = 1 .. len
  BY <1>6, LenProperties
<1>9. /\ at \in [1 .. len -> 1 .. count]
      /\ \A k \in 1 .. len : at[k] \in near /\ got[k] = all[at[k]]
      /\ \A k, m \in 1 .. len : k < m => at[k] < at[m]
      /\ \A p \in 1 .. count : p \in near => \E k \in 1 .. len : at[k] = p
  BY <1>7, <1>8 DEF Picks
<1> DEFINE datum == [k \in 1 .. len |-> left + at[k] - 1]
<1>10. \A k \in 1 .. len : datum[k] \in hits /\ got[k] = R(datum[k])
  BY <1>2, <1>3, <1>4, <1>5, <1>9
<1>11. ASSUME NEW i \in hits PROVE \E k \in 1 .. len : datum[k] = i
  <2>1. i \in left .. right - 1 /\ Is(i)
    BY <1>2
  <2>2. PICK p \in places : p = i - left + 1 /\ left + p - 1 = i
    BY <1>3, <2>1
  <2>3. p \in near
    BY <1>5, <2>1, <2>2
  <2>4. PICK k \in 1 .. len : at[k] = p
    BY <1>9, <2>3
  <2> QED
    BY <2>2, <2>4
<1>12. ASSUME NEW k \in 1 .. len, NEW m \in 1 .. len, datum[k] = datum[m] PROVE k = m
  <2>1. at[k] \in Int /\ at[m] \in Int
    BY <1>9
  <2>2. at[k] = at[m]
    BY <1>1, <1>12, <2>1
  <2>3. ~(k < m) /\ ~(m < k)
    BY <1>9, <2>1, <2>2
  <2> QED
    BY <1>8, <2>3
<1>13. datum \in [1 .. len -> hits]
  BY <1>10
<1>14. \A k \in 1 .. len : got[k] = R(datum[k])
  BY <1>10
<1> HIDE DEF datum
<1>15. ToSet(got) = {R(i) : i \in hits}
  <2>1. ToSet(got) = {got[k] : k \in 1 .. len}
    BY <1>8 DEF ToSet
  <2> QED
    BY <1>11, <1>13, <1>14, <2>1
<1>16. datum \in Bijection(1 .. len, hits)
  BY <1>11, <1>12, <1>13 DEF Bijection, Injection, Surjection, IsInjective
<1>17. IsFiniteSet(hits) /\ Cardinality(hits) = len
  <2>1. IsFiniteSet(1 .. len) /\ Cardinality(1 .. len) = len
    <3>1. IsFiniteSet(1 .. len) /\ Cardinality(1 .. len) = IF 1 > len THEN 0 ELSE len - 1 + 1
      BY FS_Interval
    <3> QED
      BY <3>1
  <2>2. ExistsBijection(1 .. len, hits)
    BY <1>16 DEF ExistsBijection
  <2> QED
    BY <2>1, <2>2, FS_Bijection
<1> QED
  BY <1>6, <1>8, <1>15, <1>17 DEF left, right, count, R, Is, all, near, hits, got, Found

\* What a leaf adds to the findings.
LEMMA FindsMore ==
  ASSUME NEW tree, NEW A, NEW B, IsFiniteSet(A), IsFiniteSet(B), A \cap B = {},
         NEW found \in Seq(Nat), NEW got \in Seq(Nat),
         Found(tree, found, A), Found(tree, got, B)
  PROVE  Found(tree, found \o got, A \cup B)
<1> DEFINE m == Len(found)
           k == Len(got)
           u == found \o got
<1>1. /\ m \in Nat /\ DOMAIN found = 1 .. m
      /\ k \in Nat /\ DOMAIN got = 1 .. k
  BY LenProperties
<1>2. /\ u \in Seq(Nat) /\ Len(u) = m + k /\ DOMAIN u = 1 .. m + k
      /\ \A j \in 1 .. m + k : u[j] = IF j <= m THEN found[j] ELSE got[j - m]
  <2>1. /\ u \in Seq(Nat) /\ Len(u) = m + k
        /\ \A j \in 1 .. m + k : u[j] = IF j <= m THEN found[j] ELSE got[j - m]
    BY ConcatProperties
  <2> QED
    BY <2>1, LenProperties
<1>3. Cardinality(A \cup B) = m + k
  <2>1. Cardinality(A \cup B) = Cardinality(A) + Cardinality(B) - Cardinality(A \cap B)
    BY FS_Union
  <2>2. Cardinality(A \cap B) = 0
    BY FS_EmptySet
  <2> QED
    BY <1>1, <2>1, <2>2 DEF Found
<1> HIDE DEF m, k, u
<1>4. ToSet(u) = ToSet(found) \cup ToSet(got)
  <2>1. ASSUME NEW j \in 1 .. m + k PROVE u[j] \in ToSet(found) \cup ToSet(got)
    <3>1. CASE j <= m
      <4>1. j \in 1 .. m
        BY <1>1, <3>1
      <4> QED
        BY <1>1, <1>2, <3>1, <4>1 DEF ToSet
    <3>2. CASE ~(j <= m)
      <4>1. j - m \in 1 .. k
        BY <1>1, <3>2
      <4> QED
        BY <1>1, <1>2, <3>2, <4>1 DEF ToSet
    <3> QED
      BY <3>1, <3>2
  <2>2. ASSUME NEW j \in 1 .. m PROVE found[j] \in ToSet(u)
    <3>1. j \in 1 .. m + k /\ j <= m
      BY <1>1
    <3> QED
      BY <1>2, <3>1 DEF ToSet
  <2>3. ASSUME NEW j \in 1 .. k PROVE got[j] \in ToSet(u)
    <3>1. PICK a \in Nat : a = m
      BY <1>1
    <3>2. j \in Nat \ {0} /\ k \in Nat /\ j <= k
      BY <1>1
    <3>3. PICK n \in 1 .. m + k : n = a + j
      BY <3>1, <3>2
    <3>4. ~(n <= m) /\ n - m = j
      BY <3>1, <3>2, <3>3
    <3> QED
      BY <1>2, <3>3, <3>4 DEF ToSet
  <2>4. ToSet(u) \subseteq ToSet(found) \cup ToSet(got)
    BY <1>2, <2>1 DEF ToSet
  <2>5. ToSet(found) \subseteq ToSet(u) /\ ToSet(got) \subseteq ToSet(u)
    BY <1>1, <2>2, <2>3 DEF ToSet
  <2> QED
    BY <2>4, <2>5
<1>5. ToSet(u) = {Reported(tree, i) : i \in A \cup B}
  BY <1>4 DEF Found
<1> QED
  BY <1>2, <1>3, <1>5 DEF u, Found

LEMMA BeginSearchInv ==
  ASSUME IndexInv, BeginSearch
  PROVE  IndexInv'
<1>1. OpenInv /\ WarmInv
  BY DEF IndexInv
<1>2. OpenInv' /\ WarmInv'
  <2>1. phase = "ready" /\ phase' = "searching" /\ UNCHANGED cacheVars
    BY DEF BeginSearch
  <2>2. next > Len(order)
    BY <1>1, <2>1 DEF WarmInv
  <2> QED
    BY <1>1, <2>1, <2>2, CacheKept DEF Warmed
<1>3. PICK i \in DOMAIN files, radius \in Radii :
        \E tree \in {dir[files[i]].codes, dir[files[i]].stars} :
        \E query \in Queries(tree.ndim) :
          search' = [tree |-> tree, query |-> query, radius |-> radius]
  BY DEF BeginSearch
<1>14. PICK tree \in {dir[files[i]].codes, dir[files[i]].stars} :
         \E query \in Queries(tree.ndim) :
           search' = [tree |-> tree, query |-> query, radius |-> radius]
  BY <1>3
<1>4. PICK query \in Queries(tree.ndim) :
        search' = [tree |-> tree, query |-> query, radius |-> radius]
  BY <1>14
<1>5. search'.tree = tree /\ search'.query = query /\ search'.radius = radius
  BY <1>4
<1>6. IsTree(tree) /\ Parses(tree)
  <2>1. Opens(dir[files[i]])
    BY <1>1 DEF OpenInv
  <2> QED
    BY <1>1, <2>1, DirFacts DEF Opens
<1>7. tree.nnodes \in Nat /\ 0 \in 0 .. tree.nnodes - 1 /\ tree.ndim \in 1 .. 8
  BY <1>6, Shape
<1>8. query \in [1 .. tree.ndim -> Int] /\ radius \in Nat
  BY <1>7, IndexAssumption
<1>9. phase' = "searching" /\ stack' = <<0>> /\ out' = <<>>
  BY DEF BeginSearch
<1>10. stack' \in Seq(0 .. tree.nnodes - 1) /\ out' \in Seq(Nat)
  BY <1>7, <1>9
<1>11. SearchInv'
  BY <1>5, <1>6, <1>8, <1>10 DEF SearchInv
<1>12. ASSUME WellFormed(tree)
       PROVE  (Finds(Hits \ Pending))' /\ Apart(DataBelow(tree), <<0>>)
  <2>1. DataBelow(tree)[0] = 0 .. tree.ndata - 1
    BY <1>6, <1>12, BelowFacts
  <2>2. Pending' = Held(DataBelow(tree), <<0>>)
    BY <1>5, <1>9 DEF Pending
  <2>3. DOMAIN <<0>> = {1} /\ <<0>>[1] = 0
    OBVIOUS
  <2>4. Held(DataBelow(tree), <<0>>) = 0 .. tree.ndata - 1
    BY <2>1, <2>3 DEF Held
  <2>5. Hits' = Scan(tree, query, radius)
    BY <1>5 DEF Hits
  <2>6. (Hits \ Pending)' = {}
    BY <2>2, <2>4, <2>5 DEF Scan
  <2>7. Found(tree, <<>>, {})
    BY FS_EmptySet DEF ToSet, Found
  <2>8. (Finds(Hits \ Pending))'
    BY <1>5, <1>9, <2>6, <2>7 DEF Finds
  <2>9. Apart(DataBelow(tree), <<0>>)
    BY <2>3 DEF Apart
  <2> QED
    BY <2>8, <2>9
<1>13. ExactInv'
  BY <1>5, <1>9, <1>12 DEF ExactInv
<1> QED
  BY <1>2, <1>11, <1>13 DEF IndexInv

\* What every step of a search starts from, and what it leaves alone.
LEMMA OnTheWay ==
  ASSUME IndexInv, phase = "searching", phase' \in Warmed, phase' # "warming", UNCHANGED cacheVars
  PROVE  /\ OpenInv' /\ WarmInv' /\ SearchInv /\ ExactInv
         /\ IsTree(search.tree) /\ Parses(search.tree)
         /\ search.query \in [1 .. search.tree.ndim -> Int] /\ search.radius \in Nat
         /\ stack \in Seq(0 .. search.tree.nnodes - 1) /\ out \in Seq(Nat)
<1>1. OpenInv /\ WarmInv /\ SearchInv /\ ExactInv
  BY DEF IndexInv
<1>2. next > Len(order)
  BY <1>1 DEF WarmInv
<1>3. OpenInv' /\ WarmInv'
  BY <1>1, <1>2, CacheKept DEF Warmed
<1> QED
  BY <1>1, <1>3 DEF SearchInv

LEMMA VisitLeafInv ==
  ASSUME IndexInv, VisitLeaf
  PROVE  IndexInv'
<1>1. /\ phase = "searching" /\ phase' = "searching" /\ UNCHANGED cacheVars /\ search' = search
      /\ stack # <<>> /\ stack' = Front(stack) /\ IsLeaf(search.tree, Node)
  BY DEF VisitLeaf
<1>2. PICK tree : tree = search.tree
  OBVIOUS
<1>3. PICK query : query = search.query
  OBVIOUS
<1>4. PICK radius : radius = search.radius
  OBVIOUS
<1>5. /\ OpenInv' /\ WarmInv' /\ ExactInv
      /\ IsTree(tree) /\ Parses(tree)
      /\ query \in [1 .. tree.ndim -> Int] /\ radius \in Nat
      /\ stack \in Seq(0 .. tree.nnodes - 1) /\ out \in Seq(Nat)
  BY <1>1, <1>2, <1>3, <1>4, OnTheWay DEF Warmed
<1>6. PICK node \in 0 .. tree.nnodes - 1 : node = Node
  BY <1>1, <1>5, HeldFront DEF Node
<1>7. tree.nnodes \in Nat /\ tree.ndata \in Nat /\ NInterior(tree) \in Nat
  BY <1>5, Shape
<1>8. node \in Leaves(tree)
  BY <1>1, <1>2, <1>6, <1>7 DEF Leaves, IsLeaf
<1> DEFINE left == LeafRange(tree, node).left
           right == LeafRange(tree, node).right
           places == 1 .. IF left < right THEN right - left ELSE 0
           all == [n \in places |-> Reported(tree, left + n - 1)]
           near == {n \in places : Near(tree, query, radius, left + n - 1)}
           B == {i \in LeafData(tree, node) : Near(tree, query, radius, i)}
           got == Retain(all, near)
<1>9. /\ got \in Seq(Nat)
      /\ IsFiniteSet(B) /\ Found(tree, got, B)
  BY <1>5, <1>8, LeafReports
<1>10. out' = out \o got
  BY <1>2, <1>3, <1>4, <1>6 DEF VisitLeaf
<1> HIDE DEF got, B
<1>11. stack' \in Seq(0 .. tree.nnodes - 1)
  BY <1>1, <1>5, HeldFront
<1>12. out' \in Seq(Nat)
  BY <1>5, <1>9, <1>10, ConcatProperties
<1>13. SearchInv'
  BY <1>1, <1>2, <1>3, <1>4, <1>5, <1>11, <1>12 DEF SearchInv
<1>14. ASSUME search # NoSearch, WellFormed(tree)
       PROVE  (Finds(Hits \ Pending))' /\ Apart(DataBelow(tree), stack')
  <2> DEFINE below == DataBelow(tree)
             H == Scan(tree, query, radius)
             P == Held(below, stack)
             P0 == Held(below, Front(stack))
  <2>1. Finds(H \ P) /\ Apart(below, stack)
    BY <1>1, <1>2, <1>3, <1>4, <1>5, <1>14 DEF ExactInv, Hits, Pending
  <2>2. Found(tree, out, H \ P)
    BY <1>2, <2>1 DEF Finds
  <2>3. below[node] = LeafData(tree, node)
    BY <1>5, <1>8, BelowRecursion
  <2>4. LeafData(tree, node) \subseteq 0 .. tree.ndata - 1
    BY <1>5, <1>8, LeafInside
  <2>5. P = P0 \cup below[node] /\ P0 \cap below[node] = {} /\ Apart(below, stack')
    BY <1>1, <1>5, <1>6, <2>1, HeldFront DEF Node
  <2>6. B \subseteq H /\ H \cap LeafData(tree, node) = B
    BY <2>4 DEF B, Scan
  <2>7. IsFiniteSet(H \ P)
    <3>1. IsFiniteSet(0 .. tree.ndata - 1)
      BY <1>7, FS_Interval
    <3>2. H \ P \in SUBSET (0 .. tree.ndata - 1)
      BY DEF Scan
    <3> QED
      BY <3>1, <3>2, FS_Subset
  <2>8. (H \ P) \cap B = {} /\ (H \ P) \cup B = H \ P0
    BY <2>3, <2>5, <2>6
  <2>9. Hits' = H /\ Pending' = P0
    BY <1>1, <1>2, <1>3, <1>4 DEF Hits, Pending
  <2> HIDE DEF H, P, P0, below
  <2>10. Found(tree, out', (H \ P) \cup B)
    BY <1>5, <1>9, <1>10, <2>2, <2>7, <2>8, FindsMore
  <2>11. (Finds(Hits \ Pending))'
    BY <1>1, <1>2, <2>8, <2>9, <2>10 DEF Finds
  <2> QED
    BY <2>5, <2>11 DEF below
<1>15. ExactInv'
  BY <1>1, <1>2, <1>14 DEF ExactInv
<1> QED
  BY <1>5, <1>13, <1>15 DEF IndexInv

LEMMA VisitInteriorInv ==
  ASSUME IndexInv, VisitInterior
  PROVE  IndexInv'
<1>1. /\ phase = "searching" /\ phase' = "searching" /\ UNCHANGED cacheVars /\ search' = search
      /\ stack # <<>> /\ stack' = Front(stack) \o Reached(search.tree, Node) /\ out' = out
      /\ ~IsLeaf(search.tree, Node) /\ ~Panics(search.tree, Node)
  BY DEF VisitInterior
<1>2. PICK tree : tree = search.tree
  OBVIOUS
<1>3. PICK query : query = search.query
  OBVIOUS
<1>4. PICK radius : radius = search.radius
  OBVIOUS
<1>5. /\ OpenInv' /\ WarmInv' /\ ExactInv
      /\ IsTree(tree) /\ Parses(tree)
      /\ query \in [1 .. tree.ndim -> Int] /\ radius \in Nat
      /\ stack \in Seq(0 .. tree.nnodes - 1) /\ out \in Seq(Nat)
  BY <1>1, <1>2, <1>3, <1>4, OnTheWay DEF Warmed
<1> DEFINE N == tree.nnodes
           I == NInterior(tree)
<1>6. PICK node \in 0 .. N - 1 : node = Node
  BY <1>1, <1>5, HeldFront DEF Node
<1>7. N \in Nat /\ tree.ndata \in Nat /\ I \in Nat /\ N = 2 * I + 1
  <2>1. IsTree(tree) /\ Parses(tree)
    BY <1>5
  <2> QED
    BY <2>1, Shape
<1>8. node \in 0 .. I - 1
  BY <1>1, <1>2, <1>6, <1>7 DEF IsLeaf
<1> HIDE DEF N, I
<1>9. PICK l \in 0 .. N - 1 : l = 2 * node + 1
  <2>1. 2 * node + 1 \in 0 .. N - 1
    BY <1>7, <1>8
  <2> QED
    BY <2>1
<1>10. PICK r \in 0 .. N - 1 : r = 2 * node + 2
  <2>1. 2 * node + 2 \in 0 .. N - 1
    BY <1>7, <1>8
  <2> QED
    BY <2>1
<1> DEFINE plane == SplitPlane(tree, node)
           q == query[plane.dim + 1]
           L == q - radius <= plane.val + SplitEps(tree)
           R == q + radius >= plane.val - SplitEps(tree)
           more == (IF L THEN <<l>> ELSE <<>>) \o (IF R THEN <<r>> ELSE <<>>)
<1>11. stack' = Front(stack) \o more
  BY <1>1, <1>2, <1>3, <1>4, <1>6, <1>9, <1>10 DEF Reached
<1> HIDE DEF plane, q, L, R
<1>12. more = IF L THEN IF R THEN <<l, r>> ELSE <<l>> ELSE IF R THEN <<r>> ELSE <<>>
  <2>1. <<l>> \o <<r>> = <<l, r>>
    <3>1. <<l>> \in Seq(0 .. N - 1) /\ <<r>> \in Seq(0 .. N - 1)
      OBVIOUS
    <3> DEFINE u == <<l>> \o <<r>>
    <3>3. Len(<<l>>) = 1 /\ Len(<<r>>) = 1 /\ <<l>>[1] = l /\ <<r>>[1] = r
      OBVIOUS
    <3>4. /\ u \in Seq(0 .. N - 1) /\ Len(u) = 1 + 1
          /\ \A i \in 1 .. 1 + 1 : u[i] = IF i <= 1 THEN <<l>>[i] ELSE <<r>>[i - 1]
      BY <3>1, <3>3, ConcatProperties
    <3>2. u \in Seq(0 .. N - 1) /\ Len(u) = 2 /\ u[1] = l /\ u[2] = r
      BY <3>3, <3>4
    <3> HIDE DEF u
    <3>5. u = <<l, r>>
      BY <3>2
    <3> QED
      BY <3>5 DEF u
  <2>2. <<l>> \o <<>> = <<l>> /\ <<>> \o <<r>> = <<r>> /\ <<>> \o <<>> = <<>>
    BY ConcatEmptySeq, EmptySeq
  <2>3. CASE L
    BY <2>1, <2>2, <2>3
  <2>4. CASE ~L
    BY <2>2, <2>4
  <2> QED
    BY <2>3, <2>4
<1> HIDE DEF more
<1>13. more \in Seq(0 .. N - 1)
  <2>1. <<l, r>> \in Seq(0 .. N - 1) /\ <<l>> \in Seq(0 .. N - 1)
        /\ <<r>> \in Seq(0 .. N - 1) /\ <<>> \in Seq(0 .. N - 1)
    OBVIOUS
  <2> QED
    BY <1>12, <2>1
<1>14. Front(stack) \in Seq(0 .. N - 1)
  BY <1>1, <1>5, HeldFront DEF N
<1>15. stack' \in Seq(0 .. tree.nnodes - 1)
  BY <1>11, <1>13, <1>14, ConcatProperties DEF N
<1>16. SearchInv'
  BY <1>1, <1>2, <1>3, <1>4, <1>5, <1>15 DEF SearchInv
<1>17. ASSUME search # NoSearch, WellFormed(tree)
       PROVE  (Finds(Hits \ Pending))' /\ Apart(DataBelow(tree), stack')
  <2> DEFINE below == DataBelow(tree)
             H == Scan(tree, query, radius)
             P == Held(below, stack)
             P0 == Held(below, Front(stack))
             P1 == Held(below, more)
  <2>1. Finds(H \ P) /\ Apart(below, stack)
    BY <1>1, <1>2, <1>3, <1>4, <1>5, <1>17 DEF ExactInv, Hits, Pending
  <2>2. below[node] = below[l] \cup below[r] /\ below[l] \cap below[r] = {}
    BY <1>5, <1>8, <1>9, <1>10, <1>17, BelowRecursion, BelowFacts DEF I
  <2>3. /\ ~L => below[l] \cap H = {}
        /\ ~R => below[r] \cap H = {}
    BY <1>5, <1>8, <1>9, <1>10, <1>17, Pruned DEF I, L, R, plane, q
  <2>4. P = P0 \cup below[node] /\ P0 \cap below[node] = {} /\ Apart(below, Front(stack))
    BY <1>1, <1>5, <1>6, <2>1, HeldFront DEF Node
  <2>5. P1 = (IF L THEN below[l] ELSE {}) \cup (IF R THEN below[r] ELSE {}) /\ Apart(below, more)
    <3>1. CASE L /\ R
      <4>1. more = <<l, r>> /\ DOMAIN <<l, r>> = {1, 2} /\ <<l, r>>[1] = l /\ <<l, r>>[2] = r
        BY <1>12, <3>1
      <4> HIDE DEF below
      <4> QED
        BY <2>2, <3>1, <4>1 DEF Held, Apart
    <3>2. ASSUME NEW x, more = <<x>> PROVE P1 = below[x] /\ Apart(below, more)
      <4>1. DOMAIN <<x>> = {1} /\ <<x>>[1] = x
        OBVIOUS
      <4> HIDE DEF below
      <4> QED
        BY <3>2, <4>1 DEF Held, Apart
    <3>3. ASSUME more = <<>> PROVE P1 = {} /\ Apart(below, more)
      <4> HIDE DEF below
      <4> QED
        BY <3>3 DEF Held, Apart
    <3> HIDE DEF below, P1
    <3> QED
      BY <1>12, <3>1, <3>2, <3>3
  <2>6. Hits' = H /\ Pending' = Held(below, stack')
    BY <1>1, <1>2, <1>3, <1>4 DEF Hits, Pending
  <2> HIDE DEF H, P, P0, P1, below
  <2>7. P0 \cap P1 = {}
    BY <2>2, <2>4, <2>5
  <2>8. Held(below, stack') = P0 \cup P1 /\ Apart(below, stack')
    BY <1>11, <1>13, <1>14, <2>4, <2>5, <2>7, HeldMore DEF P0, P1
  <2>9. H \ (P0 \cup P1) = H \ P
    BY <2>2, <2>3, <2>4, <2>5
  <2>10. (Finds(Hits \ Pending))'
    BY <1>1, <1>2, <2>1, <2>6, <2>8, <2>9 DEF Finds
  <2> QED
    BY <2>8, <2>10 DEF below
<1>18. ExactInv'
  BY <1>1, <1>2, <1>17 DEF ExactInv
<1> QED
  BY <1>5, <1>16, <1>18 DEF IndexInv

LEMMA PanicInv ==
  ASSUME IndexInv, Panic
  PROVE  IndexInv'
<1>1. phase = "searching" /\ phase' = "panic" /\ UNCHANGED cacheVars /\ UNCHANGED searchVars
  BY DEF Panic
<1>2. OpenInv' /\ WarmInv' /\ SearchInv /\ ExactInv
  BY <1>1, OnTheWay DEF Warmed
<1>3. SearchInv' /\ ExactInv'
  BY <1>1, <1>2, SearchKept
<1> QED
  BY <1>2, <1>3 DEF IndexInv

LEMMA SearchEndsInv ==
  ASSUME IndexInv, SearchEnds
  PROVE  IndexInv'
<1>1. /\ phase = "searching" /\ phase' = "ready" /\ stack = <<>>
      /\ UNCHANGED cacheVars /\ search' = search /\ out' = out
  BY DEF SearchEnds, searchVars
<1>2. OpenInv' /\ WarmInv' /\ SearchInv /\ ExactInv
  BY <1>1, OnTheWay DEF Warmed
<1>3. SearchInv'
  BY <1>1 DEF SearchInv
<1>4. Pending = {}
  BY <1>1 DEF Pending, Held
<1>5. Hits' = Hits
  BY <1>1 DEF Hits
<1>6. Finds(Hits \ Pending) => Finds(Hits)'
  BY <1>1, <1>4, <1>5 DEF Finds
<1>7. ExactInv'
  BY <1>1, <1>2, <1>6 DEF ExactInv
<1> QED
  BY <1>2, <1>3, <1>7 DEF IndexInv

LEMMA StepInv == IndexInv /\ [Next]_vars => IndexInv'
<1> SUFFICES ASSUME IndexInv, [Next]_vars PROVE IndexInv'
  OBVIOUS
<1>1. CASE OpenFile
  BY <1>1, OpenFileInv
<1>2. CASE DirectoryRead
  BY <1>2, DirectoryReadInv
<1>3. CASE BeginPrewarm
  BY <1>3, BeginPrewarmInv
<1>4. CASE PrewarmFile
  BY <1>4, PrewarmFileInv
<1>5. CASE PrewarmEnds
  BY <1>5, PrewarmEndsInv
<1>6. CASE BeginSearch
  BY <1>6, BeginSearchInv
<1>7. CASE VisitLeaf
  BY <1>7, VisitLeafInv
<1>8. CASE VisitInterior
  BY <1>8, VisitInteriorInv
<1>9. CASE Panic
  BY <1>9, PanicInv
<1>10. CASE SearchEnds
  BY <1>10, SearchEndsInv
<1>11. CASE UNCHANGED vars
  <2>1. /\ UNCHANGED cacheVars /\ UNCHANGED searchVars /\ phase' = phase
        /\ OpenInv /\ WarmInv /\ SearchInv /\ ExactInv
    BY <1>11 DEF IndexInv, vars, cacheVars, searchVars
  <2>2. SearchInv' /\ ExactInv'
    BY <2>1, SearchKept
  <2>3. OpenInv' /\ WarmInv'
    <3>1. CASE phase \in Warmed
      <4>1. phase # "warming" => next > Len(order)
        BY <2>1, <3>1 DEF WarmInv, Warmed
      <4> QED
        BY <2>1, <3>1, <4>1, CacheKept
    <3>2. CASE phase \notin Warmed
      <4>1. dir' = dir /\ files' = files /\ next' = next /\ warm' = warm /\ search' = search
        BY <2>1 DEF cacheVars, searchVars
      <4>2. OpenInv'
        BY <2>1, <4>1 DEF OpenInv, Opens
      <4>3. (Bytes(warm) <= Budget)'
        <5>1. PICK w : w = warm
          OBVIOUS
        <5>2. (Bytes(warm))' = Bytes(w)'
          BY <4>1, <5>1 DEF Bytes
        <5>3. Bytes(w)' = Bytes(w)
          BY <4>1, BytesKept
        <5> QED
          BY <2>1, <5>1, <5>2, <5>3 DEF WarmInv
      <4>4. WarmInv'
        BY <2>1, <3>2, <4>1, <4>3 DEF WarmInv, Warmed
      <4> QED
        BY <4>2, <4>4
    <3> QED
      BY <3>1, <3>2
  <2> QED
    BY <2>2, <2>3 DEF IndexInv
<1> QED
  BY <1>1, <1>2, <1>3, <1>4, <1>5, <1>6, <1>7, <1>8, <1>9, <1>10, <1>11 DEF Next

\* The inductive invariant holds of the whole specification.
THEOREM Invariance == Spec => []IndexInv
<1>1. Init => IndexInv
  BY InitInv
<1>2. IndexInv /\ [Next]_vars => IndexInv'
  BY StepInv
<1> QED
  BY <1>1, <1>2, PTL DEF Spec

-----------------------------------------------------------------------------
(* The properties.                                                          *)

\* A search of any tree that libkd writes finds what a scan of all points
\* finds, each point once (KdTree::range_search), however many bits of the
\* planes went to the dimension and whatever subtrees were pruned.
THEOREM Exactness == Spec => []SearchIsExact
<1>1. IndexInv => SearchIsExact
  BY DEF IndexInv, ExactInv, Finds, Found, Hits, Scan, SearchIsExact
<1> QED
  BY <1>1, Invariance, PTL

\* No search reads past the data, whatever the leaf ranges of a file that
\* parses may be (KdTree::leaf_range).
THEOREM InsideReads == Spec => []ReadsStayInside
<1>1. IndexInv => ReadsStayInside
  <2> SUFFICES ASSUME IndexInv, phase = "searching", stack # <<>>, IsLeaf(search.tree, Node)
               PROVE  LeafData(search.tree, Node) \subseteq 0 .. search.tree.ndata - 1
    BY DEF ReadsStayInside
  <2>1. PICK tree : tree = search.tree
    OBVIOUS
  <2>2. IsTree(tree) /\ Parses(tree) /\ stack \in Seq(0 .. tree.nnodes - 1)
    BY <2>1 DEF IndexInv, SearchInv
  <2>3. Node \in 0 .. tree.nnodes - 1
    BY <2>2, HeldFront DEF Node
  <2>4. Node >= NInterior(tree) /\ NInterior(tree) \in Nat /\ tree.nnodes \in Nat
    BY <2>1, <2>2, Shape DEF IsLeaf
  <2>5. Node \in Leaves(tree)
    BY <2>3, <2>4 DEF Leaves
  <2> QED
    BY <2>1, <2>2, <2>5, LeafInside
<1> QED
  BY <1>1, Invariance, PTL

\* The prefetch never exceeds its budget, and leaves a file cold only if the
\* warm files of its own kind or better leave no room for it
\* (Engine::prewarm, IndexCache::prewarm).
THEOREM BudgetSpent == Spec => []BudgetWellSpent
<1>1. IndexInv => BudgetWellSpent
  <2> SUFFICES ASSUME IndexInv PROVE BudgetWellSpent
    OBVIOUS
  <2>1. OpenInv /\ WarmInv /\ Bytes(warm) <= Budget
    BY DEF IndexInv, WarmInv
  <2>2. ASSUME phase = "ready", NEW i \in DOMAIN files \ warm
        PROVE  Bytes({j \in warm : Relevant(i, band) => Relevant(j, band)}) + dir[files[i]].bytes > Budget
    <3> DEFINE rivals == {j \in warm : Relevant(i, band) => Relevant(j, band)}
    <3>1. OrderInv /\ next > Len(order)
      BY <2>1, <2>2 DEF WarmInv
    <3>2. PICK n \in DOMAIN order : order[n] = i
      BY <3>1 DEF OrderInv
    <3>3. n < next
      <4>1. order \in Seq(DOMAIN files) /\ next \in Nat
        BY <2>1, <3>1 DEF OrderInv, OpenInv
      <4>2. Len(order) \in Nat /\ n \in 1 .. Len(order)
        BY <4>1, LenProperties
      <4> QED
        BY <3>1, <4>1, <4>2
    <3>4. Bytes(warm \cap Ahead(n)) + dir[files[i]].bytes > Budget
      BY <2>1, <2>2, <3>2, <3>3 DEF WarmInv
    <3>5. warm \cap Ahead(n) \subseteq rivals
      BY <3>1, <3>2 DEF Ahead, OrderInv
    <3> HIDE DEF rivals
    <3>6. PICK a \in Nat : a = Bytes(warm \cap Ahead(n))
      BY <2>1, BytesFacts
    <3>7. PICK b \in Nat : b = Bytes(rivals)
      BY <2>1, BytesFacts
    <3>8. a <= b
      BY <2>1, <3>5, <3>6, <3>7, BytesFacts
    <3>9. PICK c \in Nat : c = dir[files[i]].bytes
      BY <2>1, DirFacts
    <3>10. a + c > Budget
      BY <3>4, <3>6, <3>9
    <3>11. b + c > Budget
      BY <3>8, <3>10, IndexAssumption
    <3>12. Bytes(rivals) + dir[files[i]].bytes > Budget
      BY <3>7, <3>9, <3>11
    <3> QED
      BY <3>12 DEF rivals
  <2> QED
    BY <2>1, <2>2 DEF BudgetWellSpent
<1> QED
  BY <1>1, Invariance, PTL
=============================================================================
