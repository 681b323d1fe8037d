------------------------- MODULE StarExtractProofs -------------------------
(***************************************************************************)
(* The proofs of the star extraction, for images of any size.              *)
(*                                                                         *)
(* First the forest of the union-find: every step keeps a label's parent   *)
(* at or below the label, so find, which follows parents until a label is  *)
(* its own, ends.  Then what the forest says.  A map r gives every label   *)
(* its root; halving a path leaves r, joining changes it where it was the  *)
(* higher root.  RootsConnect relates r and the pixels seen: next to each  *)
(* other means the same root, the same root means connected.  So the       *)
(* pixels of a root are the smallest closed set around any of them, which  *)
(* is what Component computes (ComponentFacts).  Last the second pass: a   *)
(* root's measure is always that of its pixels so far (Measures), and the  *)
(* sort is a permutation, so that no star is lost in it.                   *)
(***************************************************************************)
EXTENDS StarExtract, DataInduction, FiniteSetTheorems

\* The elements of a sequence, and their indices, are numbers.
LEMMA ElementFacts ==
  ASSUME NEW s \in Seq(Nat)
  PROVE  /\ Len(s) \in Nat /\ DOMAIN s = 1 .. Len(s)
         /\ \A i \in DOMAIN s : i \in Nat /\ s[i] \in Nat
<1>1. Len(s) \in Nat /\ DOMAIN s = 1 .. Len(s)
  OBVIOUS
<1>2. \A i \in 1 .. Len(s) : s[i] \in Nat
  OBVIOUS
<1> QED
  BY <1>1, <1>2

\* Changing one element.
LEMMA ExceptFacts ==
  ASSUME NEW s \in Seq(Nat), NEW i \in DOMAIN s, NEW n \in Nat
  PROVE  /\ [s EXCEPT ![i] = n] \in Seq(Nat)
         /\ DOMAIN [s EXCEPT ![i] = n] = DOMAIN s
         /\ \A j \in DOMAIN s : [s EXCEPT ![i] = n][j] = IF j = i THEN n ELSE s[j]
<1>1. [s EXCEPT ![i] = n] \in Seq(Nat)
  BY ExceptSeq
<1> QED
  BY <1>1

\* What the steps need to know: labels of the forest are what pixels carry and
\* what find walks along.
Forest ==
  /\ parent \in Seq(Nat)
  /\ \A l \in DOMAIN parent : parent[l] \in DOMAIN parent /\ parent[l] <= l
  /\ cursors \in Seq(Nat)
  /\ \A i \in DOMAIN cursors : cursors[i] \in DOMAIN parent
  /\ label \in [Pixels -> Nat]
  /\ \A p \in Pixels : label[p] # 0 => label[p] \in DOMAIN parent
  /\ k \in Nat /\ k >= 1

\* A row above the first is at least Width pixels in.
LEMMA RowAbove ==
  ASSUME NEW n \in Nat, NEW w \in Nat \ {0}, n \div w > 0
  PROVE  n >= w
<1>1. SUFFICES ASSUME n < w PROVE FALSE
  OBVIOUS
<1>2. n \div w = 0
  BY <1>1
<1> QED
  BY <1>2

\* The pixel to the left of one that is not in the first column exists.
LEMMA FirstColumn ==
  ASSUME NEW n \in Nat, NEW w \in Nat \ {0}, n % w > 0
  PROVE  n >= 1
<1>1. SUFFICES ASSUME n = 0 PROVE FALSE
  OBVIOUS
<1>2. 0 % w = 0
  OBVIOUS
<1> QED
  BY <1>1, <1>2

\* The neighbours a pixel reads are pixels of the image.
LEMMA NeighboursAreLabels ==
  ASSUME Forest, k \in Pixels
  PROVE  /\ Neighbours(k) \in Seq(Nat)
         /\ \A i \in DOMAIN Neighbours(k) : Neighbours(k)[i] \in DOMAIN parent
<1>1. Width \in Nat \ {0} /\ Height \in Nat \ {0} /\ Width * Height \in Nat
  BY ExtractAssumption DEF ExtractAssumption
<1>2. k \in Nat /\ k >= 1 /\ k <= Width * Height
  BY <1>1 DEF Pixels
<1>3. X(k) > 0 => k - 1 \in Pixels
  BY <1>1, <1>2, FirstColumn DEF X, Pixels
<1>4. Y(k) > 0 => k - Width \in Pixels
  BY <1>1, <1>2, RowAbove DEF Y, Pixels
<1>5. \/ Left(k) = <<>>
      \/ Left(k) = <<label[k - 1]>> /\ label[k - 1] \in DOMAIN parent /\ label[k - 1] \in Nat
  BY <1>3 DEF Left, Forest
<1>6. \/ Above(k) = <<>>
      \/ Above(k) = <<label[k - Width]>> /\ label[k - Width] \in DOMAIN parent
           /\ label[k - Width] \in Nat
  BY <1>4 DEF Above, Forest
<1> DEFINE OfLabels(s) == s \in Seq(Nat) /\ \A i \in DOMAIN s : s[i] \in DOMAIN parent
<1>7. OfLabels(Left(k)) /\ OfLabels(Above(k))
  <2>1. OfLabels(<<>>)
    OBVIOUS
  <2>2. ASSUME NEW l \in Nat, l \in DOMAIN parent PROVE OfLabels(<<l>>)
    BY <2>2
  <2> HIDE DEF OfLabels
  <2> QED
    BY <1>1, <1>5, <1>6, <2>1, <2>2
<1>8. ASSUME NEW s, OfLabels(s), NEW t, OfLabels(t) PROVE OfLabels(s \o t)
  <2>1. /\ s \o t \in Seq(Nat) /\ DOMAIN (s \o t) = 1 .. Len(s) + Len(t)
        /\ Len(s) \in Nat /\ Len(t) \in Nat
        /\ DOMAIN s = 1 .. Len(s) /\ DOMAIN t = 1 .. Len(t)
    BY <1>8, ElementFacts, ConcatProperties
  <2>2. \A i \in 1 .. Len(s) + Len(t) : (s \o t)[i] = IF i <= Len(s) THEN s[i] ELSE t[i - Len(s)]
    BY <1>8, ConcatProperties
  <2>3. ASSUME NEW i \in 1 .. Len(s) + Len(t) PROVE (s \o t)[i] \in DOMAIN parent
    <3>1. CASE i <= Len(s)
      <4>1. i \in DOMAIN s
        BY <2>1, <3>1
      <4>2. (s \o t)[i] = s[i]
        BY <2>2, <3>1
      <4>3. \A n \in DOMAIN s : s[n] \in DOMAIN parent
        BY <1>8
      <4> QED
        BY <4>1, <4>2, <4>3
    <3>2. CASE ~(i <= Len(s))
      <4>1. i - Len(s) \in DOMAIN t
        BY <2>1, <3>2
      <4>2. (s \o t)[i] = t[i - Len(s)]
        BY <2>2, <3>2
      <4>3. \A n \in DOMAIN t : t[n] \in DOMAIN parent
        BY <1>8
      <4> QED
        BY <4>1, <4>2, <4>3
    <3> QED
      BY <3>1, <3>2
  <2> QED
    BY <2>1, <2>3
<1> QED
  BY <1>7, <1>8 DEF Neighbours

\* At the start the forest is empty.
LEMMA InitForest == Init => Forest
<1>1. 1 \in Nat /\ 0 \in Nat
  OBVIOUS
<1> QED
  BY <1>1 DEF Init, Forest

\* Walking up: the grandparent is a label, at or below the parent.
LEMMA FindForest ==
  ASSUME Forest, Find
  PROVE  Forest'
<1>1. PICK i \in DOMAIN cursors :
        /\ parent' = [parent EXCEPT ![cursors[i]] = parent[parent[cursors[i]]]]
        /\ cursors' = [cursors EXCEPT ![i] = parent[parent[cursors[i]]]]
  BY DEF Find
<1>2. /\ cursors[i] \in DOMAIN parent
      /\ parent[cursors[i]] \in DOMAIN parent
      /\ parent[parent[cursors[i]]] \in DOMAIN parent
      /\ parent[parent[cursors[i]]] <= parent[cursors[i]]
      /\ parent[cursors[i]] <= cursors[i]
  BY <1>1 DEF Forest
<1>3. /\ \A l \in DOMAIN parent : parent[l] \in Nat /\ l \in Nat
      /\ \A j \in DOMAIN cursors : cursors[j] \in Nat
  BY ElementFacts DEF Forest
<1>4. /\ parent' \in Seq(Nat) /\ DOMAIN parent' = DOMAIN parent
      /\ \A l \in DOMAIN parent :
           parent'[l] = IF l = cursors[i] THEN parent[parent[cursors[i]]] ELSE parent[l]
  BY <1>1, <1>2, <1>3, ExceptFacts DEF Forest
<1>5. /\ cursors' \in Seq(Nat) /\ DOMAIN cursors' = DOMAIN cursors
      /\ \A j \in DOMAIN cursors :
           cursors'[j] = IF j = i THEN parent[parent[cursors[i]]] ELSE cursors[j]
  BY <1>1, <1>2, <1>3, ExceptFacts DEF Forest
<1>6. ASSUME NEW l \in DOMAIN parent
      PROVE  parent'[l] \in DOMAIN parent /\ parent'[l] <= l
  <2>1. CASE l = cursors[i]
    <3>1. /\ parent[l] \in DOMAIN parent /\ parent[parent[l]] \in DOMAIN parent
          /\ parent[l] \in Nat /\ parent[parent[l]] \in Nat /\ l \in Nat
          /\ parent[parent[l]] <= parent[l] /\ parent[l] <= l
      BY <1>2, <1>3, <2>1
    <3> QED
      BY <1>4, <2>1, <3>1
  <2>2. CASE l # cursors[i]
    BY <1>4, <2>2 DEF Forest
  <2> QED
    BY <2>1, <2>2
<1>7. \A j \in DOMAIN cursors' : cursors'[j] \in DOMAIN parent'
  BY <1>1, <1>2, <1>4, <1>5 DEF Forest
<1> QED
  BY <1>4, <1>5, <1>6, <1>7 DEF Find, Forest

\* A pixel that gets a label which is in the forest, or none.
LEMMA NextPixelForest ==
  ASSUME Forest, NEW l \in Nat, NextPixel(l),
         parent' \in Seq(Nat),
         DOMAIN parent \subseteq DOMAIN parent',
         \A m \in DOMAIN parent' : parent'[m] \in DOMAIN parent' /\ parent'[m] <= m,
         l # 0 => l \in DOMAIN parent'
  PROVE  Forest'
<1>1. cursors' \in Seq(Nat) /\ \A i \in DOMAIN cursors' : cursors'[i] \in DOMAIN parent'
  BY DEF NextPixel
<1>2. label' \in [Pixels -> Nat] /\ \A p \in Pixels : label'[p] # 0 => label'[p] \in DOMAIN parent'
  BY DEF NextPixel, Forest
<1>3. k' \in Nat /\ k' >= 1
  BY DEF NextPixel, Forest
<1> QED
  BY <1>1, <1>2, <1>3 DEF Forest

\* A new label is its own parent.
LEMMA NewLabelForest ==
  ASSUME Forest, NewLabel
  PROVE  Forest'
<1> DEFINE n == Len(parent) + 1
<1>1. n \in Nat /\ DOMAIN parent = 1 .. n - 1 /\ \A l \in DOMAIN parent : parent[l] \in Nat
  BY DEF Forest
<1>2. parent' = Append(parent, n) /\ NextPixel(n)
  BY DEF NewLabel
<1>3. parent' \in Seq(Nat) /\ DOMAIN parent' = 1 .. n
  BY <1>1, <1>2 DEF Forest
<1>4. parent'[n] = n /\ \A l \in DOMAIN parent : parent'[l] = parent[l]
  BY <1>1, <1>2 DEF Forest
<1>5. \A m \in DOMAIN parent' : parent'[m] \in DOMAIN parent' /\ parent'[m] <= m
  <2> SUFFICES ASSUME NEW m \in 1 .. n PROVE parent'[m] \in 1 .. n /\ parent'[m] <= m
    BY <1>3
  <2>1. CASE m = n
    BY <1>1, <1>4, <2>1
  <2>2. CASE m # n
    <3>1. m \in DOMAIN parent
      BY <1>1, <2>2
    <3>2. parent[m] \in 1 .. n - 1 /\ parent[m] <= m
      BY <1>1, <3>1 DEF Forest
    <3> QED
      BY <1>1, <1>4, <3>1, <3>2
  <2> QED
    BY <2>1, <2>2
<1>6. DOMAIN parent \subseteq DOMAIN parent' /\ n \in DOMAIN parent'
  BY <1>1, <1>3
<1> QED
  BY <1>1, <1>2, <1>3, <1>5, <1>6, NextPixelForest

\* Joining two components: the higher root goes under the lower.
LEMMA JoinForest ==
  ASSUME Forest, Join
  PROVE  Forest'
<1> DEFINE l == cursors[1]
           m == cursors[Len(cursors)]
<1>1. l \in DOMAIN parent /\ m \in DOMAIN parent
  BY DEF Join, Forest
<1>2. \A i \in DOMAIN parent : i \in Nat /\ parent[i] \in Nat
  BY DEF Forest
<1>3. /\ Lower(l, m) \in DOMAIN parent /\ Higher(l, m) \in DOMAIN parent
      /\ Lower(l, m) \in Nat /\ Lower(l, m) <= Higher(l, m)
  BY <1>1, <1>2 DEF Lower, Higher
<1>4. parent' = [parent EXCEPT ![Higher(l, m)] = Lower(l, m)] /\ NextPixel(Lower(l, m))
  BY DEF Join, Joined
<1> HIDE DEF l, m
<1>5. /\ parent' \in Seq(Nat) /\ DOMAIN parent' = DOMAIN parent
      /\ \A i \in DOMAIN parent :
           parent'[i] = IF i = Higher(l, m) THEN Lower(l, m) ELSE parent[i]
  BY <1>3, <1>4, ExceptFacts DEF Forest
<1>6. \A i \in DOMAIN parent' : parent'[i] \in DOMAIN parent' /\ parent'[i] <= i
  BY <1>2, <1>3, <1>4, <1>5 DEF Forest
<1> QED
  BY <1>3, <1>4, <1>5, <1>6, NextPixelForest

\* Every step keeps the forest.
LEMMA StepForest == Forest /\ [Next]_vars => Forest'
<1> SUFFICES ASSUME Forest, [Next]_vars PROVE Forest'
  OBVIOUS
<1>1. CASE Find
  BY <1>1, FindForest
<1>2. CASE Dark
  <2>1. parent' = parent /\ NextPixel(0) /\ 0 \in Nat
    BY <1>2 DEF Dark
  <2> QED
    BY <2>1, NextPixelForest DEF Forest
<1>3. CASE NewLabel
  BY <1>3, NewLabelForest
<1>4. CASE StartFind
  <2>1. cursors' = Neighbours(k) /\ UNCHANGED <<parent, label, k>> /\ k \in Pixels
    BY <1>4 DEF StartFind
  <2> QED
    BY <2>1, NeighboursAreLabels DEF Forest
<1>5. CASE Join
  BY <1>5, JoinForest
<1>6. CASE Labelled
  BY <1>6 DEF Labelled, Forest
<1>7. CASE Unlabelled
  <2>1. UNCHANGED <<parent, label, cursors>> /\ k' = k + 1
    BY <1>7 DEF Unlabelled
  <2> QED
    BY <2>1 DEF Forest
<1>8. CASE LookUp
  <2>1. cursors' = <<label[k]>> /\ label[k] # 0 /\ k \in Pixels /\ UNCHANGED <<parent, label, k>>
    BY <1>8 DEF LookUp
  <2>2. label[k] \in DOMAIN parent /\ label[k] \in Nat
    BY <2>1 DEF Forest
  <2> QED
    BY <2>1, <2>2 DEF Forest
<1>9. CASE Measure
  <2>1. cursors' = <<>> /\ k' = k + 1 /\ UNCHANGED <<parent, label>>
    BY <1>9 DEF Measure
  <2> QED
    BY <2>1 DEF Forest
<1>10. CASE Collect
  BY <1>10 DEF Collect, Forest
<1>11. CASE UNCHANGED vars
  BY <1>11 DEF vars, Forest
<1> QED
  BY <1>1, <1>2, <1>3, <1>4, <1>5, <1>6, <1>7, <1>8, <1>9, <1>10, <1>11 DEF Next

\* The strengthened invariant: parents at or below their labels, and every
\* label on a pixel or in a find is a label of the forest.
THEOREM ForestInvariant == Spec => []Forest
  BY InitForest, StepForest, PTL DEF Spec

\* Union-find: no joining and no halving of paths ever closes a cycle, so that
\* every find ends, in an image of any size (simplexy.rs:162-168, 184-190).
THEOREM NoCycle == Spec => []ParentsPointDown
<1>1. Forest => ParentsPointDown
  BY DEF Forest, ParentsPointDown
<1> QED
  BY <1>1, ForestInvariant, PTL

-----------------------------------------------------------------------------
(* The grid.                                                                *)

\* A quotient and a remainder are what they are meant to be.
LEMMA Division ==
  ASSUME NEW n \in Nat, NEW w \in Nat \ {0}
  PROVE  \E q \in Nat, r \in 0 .. w - 1 : q = n \div w /\ r = n % w /\ n = w * q + r
<1>1. PICK q \in Nat : q = n \div w
  OBVIOUS
<1>2. PICK r \in 0 .. w - 1 : r = n % w
  OBVIOUS
<1>3. n % w = n - w * (n \div w)
  OBVIOUS
<1>4. PICK m \in Int : m = w * q
  OBVIOUS
<1>5. r = n - m
  BY <1>1, <1>2, <1>3, <1>4
<1>6. n = w * q + r
  BY <1>4, <1>5
<1> QED
  BY <1>1, <1>2, <1>6

\* There is no other.
LEMMA DivisionUnique ==
  ASSUME NEW w \in Nat \ {0}, NEW y \in Int, NEW z \in Int,
         NEW x \in 0 .. w - 1, NEW v \in 0 .. w - 1, w * y + x = w * z + v
  PROVE  y = z /\ x = v
<1>1. ASSUME NEW a \in Int, NEW b \in Int, a < b PROVE w * a + w <= w * b
  <2>1. PICK e \in Nat : e = b - a - 1
    <3>1. b - a - 1 \in Nat
      BY <1>1
    <3> QED
      BY <3>1
  <2>2. b = a + 1 + e
    BY <2>1
  <2>3. w * b = w * a + w + w * e
    BY <2>2
  <2>4. w * e \in Nat /\ w * a \in Int
    OBVIOUS
  <2> QED
    BY <2>3, <2>4
<1>2. w * y \in Int /\ w * z \in Int
  OBVIOUS
<1>3. ~(y < z)
  <2>1. SUFFICES ASSUME w * y + w <= w * z PROVE FALSE
    BY <1>1
  <2> QED
    BY <1>2, <2>1
<1>4. ~(z < y)
  <2>1. SUFFICES ASSUME w * z + w <= w * y PROVE FALSE
    BY <1>1
  <2> QED
    BY <1>2, <2>1
<1>5. y = z
  BY <1>3, <1>4
<1> QED
  BY <1>2, <1>5

\* A pixel is where its column and row say.
LEMMA Grid ==
  ASSUME NEW p \in Pixels
  PROVE  /\ Width \in Nat \ {0} /\ p \in Nat
         /\ X(p) \in 0 .. Width - 1 /\ Y(p) \in Nat
         /\ p = Width * Y(p) + X(p) + 1
<1>1. Width \in Nat \ {0} /\ Height \in Nat \ {0} /\ Width * Height \in Nat
  BY ExtractAssumption
<1>2. p - 1 \in Nat
  BY <1>1 DEF Pixels
<1>3. PICK n \in Nat : n = p - 1
  BY <1>2
<1>4. PICK y \in Nat, x \in 0 .. Width - 1 :
        y = n \div Width /\ x = n % Width /\ n = Width * y + x
  BY <1>1, Division
<1>5. X(p) = n % Width /\ Y(p) = n \div Width
  BY <1>3 DEF X, Y
<1>6. y = Y(p)
  BY <1>4, <1>5
<1>7. x = X(p)
  BY <1>4, <1>5
<1>8. n = Width * y + x /\ Width * y \in Int
  BY <1>1, <1>4
<1>9. p \in Nat /\ p = n + 1
  BY <1>1, <1>3 DEF Pixels
<1> QED
  BY <1>1, <1>6, <1>7, <1>8, <1>9

\* The pixels next to one that are seen before it are the one to the left and
\* the one above.
LEMMA SeenBefore ==
  ASSUME NEW p \in Pixels, NEW q \in Pixels, q < p, Adjacent(q, p)
  PROVE  (X(p) > 0 /\ q = p - 1) \/ (Y(p) > 0 /\ q = p - Width)
<1>1. /\ Width \in Nat \ {0} /\ p \in Nat /\ q \in Nat
      /\ X(p) \in 0 .. Width - 1 /\ Y(p) \in Nat /\ p = Width * Y(p) + X(p) + 1
      /\ X(q) \in 0 .. Width - 1 /\ Y(q) \in Nat /\ q = Width * Y(q) + X(q) + 1
  BY Grid
<1>2. PICK y \in Nat, z \in Nat : y = Y(p) /\ z = Y(q)
  BY <1>1
<1>3. PICK x \in 0 .. Width - 1, v \in 0 .. Width - 1 : x = X(p) /\ v = X(q)
  BY <1>1
<1>4. PICK a \in Int, b \in Int : a = Width * y /\ b = Width * z
  BY <1>1
<1>5. p = a + x + 1 /\ q = b + v + 1
  BY <1>1, <1>2, <1>3, <1>4
<1>6. \/ z = y /\ v - x \in {-1, 1}
      \/ v = x /\ z - y \in {-1, 1}
  BY <1>2, <1>3, <1>1 DEF Adjacent
<1>7. CASE z = y /\ v - x \in {-1, 1}
  <2>1. a = b
    BY <1>4, <1>7
  <2>2. v = x - 1
    BY <1>1, <1>5, <1>7, <2>1
  <2>3. q = p - 1 /\ x > 0
    BY <1>1, <1>5, <2>1, <2>2
  <2> QED
    BY <1>3, <2>3
<1>8. CASE v = x /\ z - y \in {-1, 1}
  <2>1. b < a
    BY <1>1, <1>5, <1>8
  <2>2. CASE z = y - 1
    <3>1. b = a - Width
      BY <1>1, <1>4, <2>2
    <3>2. q = p - Width /\ y > 0
      BY <1>1, <1>5, <1>8, <2>2, <3>1
    <3> QED
      BY <1>2, <3>2
  <2>3. CASE z = y + 1
    <3>1. b = a + Width
      BY <1>1, <1>4, <2>3
    <3> QED
      BY <1>1, <2>1, <3>1
  <2> QED
    BY <1>8, <2>2, <2>3
<1> QED
  BY <1>6, <1>7, <1>8

\* Both are pixels of the image, and next to it.
LEMMA LeftAndAbove ==
  ASSUME NEW p \in Pixels
  PROVE  /\ X(p) > 0 => p - 1 \in Pixels /\ Adjacent(p - 1, p)
         /\ Y(p) > 0 => p - Width \in Pixels /\ p - Width < p /\ Adjacent(p - Width, p)
<1>1. /\ Width \in Nat \ {0} /\ p \in Nat
      /\ X(p) \in 0 .. Width - 1 /\ Y(p) \in Nat /\ p = Width * Y(p) + X(p) + 1
  BY Grid
<1>2. Width * Height \in Nat /\ p >= 1 /\ p <= Width * Height
  BY ExtractAssumption DEF Pixels
<1>3. PICK y \in Nat : y = Y(p)
  BY <1>1
<1>4. PICK x \in 0 .. Width - 1 : x = X(p)
  BY <1>1
<1>5. PICK a \in Int : a = Width * y
  BY <1>1
<1>6. p = a + x + 1
  BY <1>1, <1>3, <1>4, <1>5
<1>7. ASSUME x > 0 PROVE p - 1 \in Pixels /\ Adjacent(p - 1, p)
  <2>1. p - 1 \in Pixels
    <3>1. a >= 0
      BY <1>1, <1>5
    <3>2. p - 1 >= 1 /\ p - 1 <= Width * Height /\ p - 1 \in Int
      BY <1>1, <1>2, <1>6, <1>7, <3>1
    <3> QED
      BY <3>2, <1>2 DEF Pixels
  <2>2. PICK q \in Pixels : q = p - 1
    BY <2>1
  <2>3. /\ X(q) \in 0 .. Width - 1 /\ Y(q) \in Nat /\ q = Width * Y(q) + X(q) + 1
    BY Grid
  <2>4. PICK z \in Nat, v \in 0 .. Width - 1 : z = Y(q) /\ v = X(q)
    BY <2>3
  <2>5. x - 1 \in 0 .. Width - 1
    BY <1>1, <1>7
  <2>6. PICK u \in 0 .. Width - 1 : u = x - 1
    BY <2>5
  <2>7. PICK b \in Int : b = Width * z
    BY <1>1
  <2>8. q = b + v + 1
    BY <2>3, <2>4, <2>7
  <2>9. a + u = b + v
    BY <1>1, <1>6, <2>2, <2>6, <2>8
  <2>10. Width * y + u = Width * z + v
    BY <1>5, <2>7, <2>9
  <2>11. y = z /\ u = v
    BY <1>1, <2>10, DivisionUnique
  <2>12. Y(q) = Y(p) /\ X(q) - X(p) = -1
    BY <1>3, <1>4, <2>4, <2>6, <2>11
  <2> QED
    BY <2>2, <2>12 DEF Adjacent
<1>8. ASSUME y > 0 PROVE p - Width \in Pixels /\ p - Width < p /\ Adjacent(p - Width, p)
  <2>1. PICK h \in Nat : h = y - 1
    BY <1>8
  <2>2. PICK c \in Int : c = Width * h
    BY <1>1
  <2>3. a = c + Width /\ c >= 0
    BY <1>1, <1>5, <2>1, <2>2
  <2>4. p - Width \in Pixels /\ p - Width < p
    <3>1. p - Width >= 1 /\ p - Width <= Width * Height /\ p - Width \in Int /\ p - Width < p
      BY <1>1, <1>2, <1>6, <2>3
    <3> QED
      BY <3>1, <1>2 DEF Pixels
  <2>5. PICK q \in Pixels : q = p - Width
    BY <2>4
  <2>6. /\ X(q) \in 0 .. Width - 1 /\ Y(q) \in Nat /\ q = Width * Y(q) + X(q) + 1
    BY Grid
  <2>7. PICK z \in Nat, v \in 0 .. Width - 1 : z = Y(q) /\ v = X(q)
    BY <2>6
  <2>8. PICK b \in Int : b = Width * z
    BY <1>1
  <2>9. q = b + v + 1
    BY <2>6, <2>7, <2>8
  <2>10. c + x = b + v
    BY <1>1, <1>6, <2>3, <2>5, <2>9
  <2>11. Width * h + x = Width * z + v
    BY <2>2, <2>8, <2>10
  <2>12. h = z /\ x = v
    BY <1>1, <2>11, DivisionUnique
  <2>13. X(q) = X(p) /\ Y(q) - Y(p) = -1
    BY <1>3, <1>4, <2>1, <2>7, <2>12
  <2> QED
    BY <2>4, <2>5, <2>13 DEF Adjacent
<1> QED
  BY <1>3, <1>4, <1>7, <1>8

-----------------------------------------------------------------------------
(* Roots and components.                                                    *)

\* A map that gives each label its root.
IsRootMap(par, r) ==
  /\ r \in [DOMAIN par -> DOMAIN par]
  /\ \A l \in DOMAIN par : /\ r[l] = r[par[l]] /\ par[r[l]] = r[l]
                           /\ par[l] = l => r[l] = l

\* There is one such map, and RootOf computes it.
LEMMA RootUnique ==
  ASSUME Forest, NEW r, IsRootMap(parent, r)
  PROVE  \A l \in DOMAIN parent : RootOf(l) = r[l]
<1> DEFINE n == Len(parent)
           Eq(f) == f = [i \in DOMAIN parent |-> IF parent[i] = i THEN i ELSE f[parent[i]]]
           up == CHOOSE f : Eq(f)
           T == {m \in 0 .. n : \A l \in 1 .. m : up[l] = r[l]}
<1>1. n \in Nat /\ DOMAIN parent = 1 .. n /\ \A l \in 1 .. n : parent[l] \in 1 .. n /\ parent[l] <= l
  BY ElementFacts DEF Forest
<1>2. \A l : RootOf(l) = up[l]
  BY DEF RootOf
<1>10. r \in [DOMAIN parent -> DOMAIN parent]
  BY DEF IsRootMap
<1>6. ASSUME NEW l \in DOMAIN parent PROVE r[l] = IF parent[l] = l THEN l ELSE r[parent[l]]
  <2>1. r[l] = r[parent[l]] /\ (parent[l] = l => r[l] = l)
    BY DEF IsRootMap
  <2> QED
    BY <2>1
<1>3. Eq(r)
  BY <1>6, <1>10
<1>4. Eq(up)
  <2> HIDE DEF Eq
  <2> QED
    BY <1>3
<1> HIDE DEF n, up
<1>5. \A l \in 1 .. n : up[l] = IF parent[l] = l THEN l ELSE up[parent[l]]
  BY <1>1, <1>4
<1>7. 0 \in T
  BY <1>1
<1>8. ASSUME NEW m \in 1 .. n, m - 1 \in T PROVE m \in T
  <2>1. \A l \in 1 .. m - 1 : up[l] = r[l]
    BY <1>8
  <2>2. parent[m] # m => parent[m] \in 1 .. m - 1
    BY <1>1
  <2>3. up[m] = r[m]
    BY <1>1, <1>5, <1>6, <2>1, <2>2
  <2>4. \A l \in 1 .. m : l = m \/ l \in 1 .. m - 1
    BY <1>1
  <2>5. m \in 0 .. n
    BY <1>1
  <2> QED
    BY <2>1, <2>3, <2>4, <2>5
<1> HIDE DEF T
<1>9. n \in T
  <2>1. \A m \in 0 .. n : m \in T
    BY <1>1, <1>7, <1>8, BoundedInduction
  <2> QED
    BY <1>1, <2>1
<1> QED
  BY <1>1, <1>2, <1>9 DEF T

\* No bright pixel among the first n that is next to the set is missing in it.
Closed(T, n) == \A q \in 1 .. n : Bright(q) /\ (\E r \in T : Adjacent(q, r)) => q \in T

\* A component is the smallest set with its first pixel that is closed.
LEMMA ComponentFacts ==
  ASSUME NEW n \in Nat, NEW p \in 1 .. n
  PROVE  /\ p \in Component(p, n) /\ Component(p, n) \subseteq 1 .. n
         /\ Closed(Component(p, n), n)
         /\ \A T \in SUBSET (1 .. n) : p \in T /\ Closed(T, n) => Component(p, n) \subseteq T
<1> DEFINE All == SUBSET (1 .. n)
           Wider(S) == S \cup {q \in 1 .. n : Bright(q) /\ \E r \in S : Adjacent(q, r)}
           Eq(f) == f = [S \in All |-> IF Wider(S) = S THEN S ELSE f[Wider(S)]]
           grow == CHOOSE f : Eq(f)
           \* The smallest closed set, said without recursion.
           Hull(S) == {q \in 1 .. n : \A T \in All : S \subseteq T /\ Closed(T, n) => q \in T}
           hull == [S \in All |-> Hull(S)]
<1>1. \A S : Component(p, n) = grow[{p}]
  BY DEF Component
<1>2. \A S \in All : Wider(S) \in All /\ S \subseteq Wider(S) /\ (Wider(S) = S <=> Closed(S, n))
  BY DEF Closed
<1>3. \A S, T \in All : Closed(T, n) /\ S \subseteq T => Wider(S) \subseteq T
  BY DEF Closed
<1> HIDE DEF Wider
<1>4. Eq(hull)
  <2>1. ASSUME NEW S \in All, Wider(S) = S PROVE Hull(S) = S
    BY <1>2, <2>1
  <2>2. ASSUME NEW S \in All PROVE Hull(S) = Hull(Wider(S))
    <3>1. \A T \in All : Closed(T, n) => (S \subseteq T <=> Wider(S) \subseteq T)
      BY <1>2, <1>3
    <3> QED
      BY <3>1
  <2> HIDE DEF Hull
  <2>3. \A S \in All : hull[S] = IF Wider(S) = S THEN S ELSE hull[Wider(S)]
    BY <1>2, <2>1, <2>2
  <2> HIDE DEF All
  <2> QED
    BY <2>3
<1>5. Eq(grow)
  <2> HIDE DEF Eq, hull
  <2> QED
    BY <1>4
<1> HIDE DEF grow, hull
<1>6. \A S \in All : grow[S] = IF Wider(S) = S THEN S ELSE grow[Wider(S)]
  <2> HIDE DEF All
  <2> QED
    BY <1>5
<1> DEFINE Good(S) == /\ grow[S] \in All /\ S \subseteq grow[S] /\ Closed(grow[S], n)
                      /\ \A T \in All : S \subseteq T /\ Closed(T, n) => grow[S] \subseteq T
           D == {m \in 0 .. n : \A S \in All : Cardinality((1 .. n) \ S) <= m => Good(S)}
<1>7. IsFiniteSet(1 .. n) /\ Cardinality(1 .. n) = n
  <2>1. IsFiniteSet(1 .. n) /\ Cardinality(1 .. n) = IF 1 > n THEN 0 ELSE n - 1 + 1
    BY FS_Interval
  <2> QED
    BY <2>1
<1>8. \A S \in All : /\ IsFiniteSet((1 .. n) \ S)
                     /\ Cardinality((1 .. n) \ S) \in Nat /\ Cardinality((1 .. n) \ S) <= n
  <2> TAKE S \in All
  <2>1. (1 .. n) \ S \in SUBSET (1 .. n)
    OBVIOUS
  <2> QED
    BY <1>7, <2>1, FS_Subset, FS_CardinalityType
<1>9. ASSUME NEW S \in All, Wider(S) = S PROVE Good(S)
  <2>1. grow[S] = S
    BY <1>6, <1>9
  <2> HIDE DEF grow
  <2> QED
    BY <1>2, <1>9, <2>1
<1>10. ASSUME NEW S \in All, Wider(S) # S, Good(Wider(S)) PROVE Good(S)
  <2>1. grow[S] = grow[Wider(S)]
    BY <1>6, <1>10
  <2> QED
    BY <1>2, <1>3, <1>10, <2>1
<1>11. ASSUME NEW S \in All, Wider(S) # S
       PROVE  Cardinality((1 .. n) \ Wider(S)) < Cardinality((1 .. n) \ S)
  <2> DEFINE A == (1 .. n) \ S
             B == (1 .. n) \ Wider(S)
  <2>1. B \in SUBSET A /\ A # B
    BY <1>2, <1>11
  <2>2. IsFiniteSet(A) /\ Cardinality(A) \in Nat
    BY <1>8
  <2>4. Cardinality(B) \in Nat
    BY <1>2, <1>8
  <2> HIDE DEF A, B
  <2>3. Cardinality(B) <= Cardinality(A) /\ Cardinality(A) # Cardinality(B)
    BY <2>1, <2>2, FS_Subset
  <2> QED
    BY <2>2, <2>3, <2>4 DEF A, B
<1> HIDE DEF Good
<1>12. 0 \in D
  <2>1. ASSUME NEW S \in All, Cardinality((1 .. n) \ S) <= 0 PROVE Good(S)
    <3>1. CASE Wider(S) = S
      BY <1>9, <3>1
    <3>2. CASE Wider(S) # S
      <4>1. /\ Cardinality((1 .. n) \ Wider(S)) < Cardinality((1 .. n) \ S)
            /\ Cardinality((1 .. n) \ Wider(S)) \in Nat /\ Cardinality((1 .. n) \ S) \in Nat
        BY <1>2, <1>8, <1>11, <3>2
      <4> QED
        BY <2>1, <4>1
    <3> QED
      BY <3>1, <3>2
  <2> QED
    BY <2>1
<1>13. ASSUME NEW m \in 1 .. n, m - 1 \in D PROVE m \in D
  <2>1. ASSUME NEW S \in All, Cardinality((1 .. n) \ S) <= m PROVE Good(S)
    <3>1. CASE Wider(S) = S
      BY <1>9, <3>1
    <3>2. CASE Wider(S) # S
      <4>1. /\ Cardinality((1 .. n) \ Wider(S)) < Cardinality((1 .. n) \ S)
            /\ Cardinality((1 .. n) \ Wider(S)) \in Nat /\ Cardinality((1 .. n) \ S) \in Nat
            /\ Wider(S) \in All
        BY <1>2, <1>8, <1>11, <3>2
      <4>2. Cardinality((1 .. n) \ Wider(S)) <= m - 1
        BY <2>1, <4>1
      <4> QED
        BY <1>10, <1>13, <3>2, <4>1, <4>2
    <3> QED
      BY <3>1, <3>2
  <2>2. m \in 0 .. n
    OBVIOUS
  <2> QED
    BY <2>1, <2>2
<1> HIDE DEF D
<1>14. n \in D
  <2>1. \A m \in 0 .. n : m \in D
    BY <1>12, <1>13, BoundedInduction
  <2> QED
    BY <2>1
<1>15. \A S \in All : Good(S)
  BY <1>8, <1>14 DEF D
<1>16. Good({p})
  BY <1>15
<1> QED
  BY <1>1, <1>16 DEF Good

\* A pixel that lies in every closed set another one lies in.
Connected(p, q, n) == \A T \in SUBSET (1 .. n) : p \in T /\ Closed(T, n) => q \in T

\* Neighbours are connected, and so are their neighbours; more pixels
\* disconnect nothing.
LEMMA ConnectedFacts ==
  ASSUME NEW n \in Nat
  PROVE  /\ \A p \in 1 .. n : Connected(p, p, n)
         /\ \A p, q, s \in 1 .. n : Connected(p, q, n) /\ Connected(q, s, n) => Connected(p, s, n)
         /\ \A p, q \in 1 .. n : Bright(q) /\ Adjacent(q, p) => Connected(p, q, n)
         /\ \A p, q \in 1 .. n : Connected(p, q, n) => Connected(p, q, n + 1)
<1>1. \A p \in 1 .. n : Connected(p, p, n)
  BY DEF Connected
<1>2. \A p, q, s \in 1 .. n : Connected(p, q, n) /\ Connected(q, s, n) => Connected(p, s, n)
  BY DEF Connected
<1>3. \A p, q \in 1 .. n : Bright(q) /\ Adjacent(q, p) => Connected(p, q, n)
  BY DEF Connected, Closed
<1>4. ASSUME NEW p \in 1 .. n, NEW q \in 1 .. n, Connected(p, q, n),
             NEW T \in SUBSET (1 .. n + 1), p \in T, Closed(T, n + 1)
      PROVE  q \in T
  <2> DEFINE U == T \cap (1 .. n)
  <2>1. \A s \in 1 .. n : s \in 1 .. n + 1
    OBVIOUS
  <2>2. Closed(U, n)
    BY <1>4, <2>1 DEF Closed
  <2>3. U \in SUBSET (1 .. n) /\ p \in U
    BY <1>4
  <2>4. q \in U
    BY <1>4, <2>2, <2>3 DEF Connected
  <2> QED
    BY <2>4
<1>5. \A p, q \in 1 .. n : Connected(p, q, n) => Connected(p, q, n + 1)
  BY <1>4 DEF Connected
<1> QED
  BY <1>1, <1>2, <1>3, <1>5

\* An image that stays keeps its bright pixels and what connects them.
LEMMA ConnectedKept ==
  ASSUME UNCHANGED value
  PROVE  /\ \A p : Bright(p)' <=> Bright(p)
         /\ \A p, q, n : Connected(p, q, n)' <=> Connected(p, q, n)
<1>1. \A p : Bright(p)' <=> Bright(p)
  BY DEF Bright
<1>2. \A T, n : Closed(T, n)' <=> Closed(T, n)
  BY <1>1 DEF Closed
<1>3. \A p, q, n : Connected(p, q, n)' <=> Connected(p, q, n)
  BY <1>2 DEF Connected
<1> QED
  BY <1>1, <1>3

\* To be next to each other goes both ways.
LEMMA AdjacentBothWays ==
  ASSUME NEW p \in Pixels, NEW q \in Pixels, Adjacent(p, q)
  PROVE  Adjacent(q, p)
<1>1. PICK x \in Int, v \in Int : x = X(p) /\ v = X(q)
  BY Grid
<1>2. PICK y \in Int, z \in Int : y = Y(p) /\ z = Y(q)
  BY Grid
<1>3. \/ y = z /\ x - v \in {-1, 1}
      \/ x = v /\ y - z \in {-1, 1}
  BY <1>1, <1>2 DEF Adjacent
<1>4. \/ z = y /\ v - x \in {-1, 1}
      \/ v = x /\ z - y \in {-1, 1}
  BY <1>3
<1> QED
  BY <1>1, <1>2, <1>4 DEF Adjacent

\* Short sequences put together.
LEMMA Pairs ==
  ASSUME NEW S, NEW l \in S, NEW r \in S
  PROVE  /\ <<l>> \o <<r>> = <<l, r>>
         /\ <<l>> \o <<>> = <<l>> /\ <<>> \o <<r>> = <<r>> /\ <<>> \o <<>> = <<>>
<1>1. <<l>> \in Seq(S) /\ <<r>> \in Seq(S)
  OBVIOUS
<1>2. <<l>> \o <<r>> = <<l, r>>
  <2> DEFINE u == <<l>> \o <<r>>
  <2>1. Len(<<l>>) = 1 /\ Len(<<r>>) = 1 /\ <<l>>[1] = l /\ <<r>>[1] = r
    OBVIOUS
  <2>2. /\ u \in Seq(S) /\ Len(u) = 1 + 1
        /\ \A i \in 1 .. 1 + 1 : u[i] = IF i <= 1 THEN <<l>>[i] ELSE <<r>>[i - 1]
    BY <1>1, <2>1, ConcatProperties
  <2>3. u \in Seq(S) /\ Len(u) = 2 /\ u[1] = l /\ u[2] = r
    BY <2>1, <2>2
  <2> HIDE DEF u
  <2>4. u = <<l, r>>
    BY <2>3
  <2> QED
    BY <2>4 DEF u
<1>3. <<l>> \o <<>> = <<l>> /\ <<>> \o <<r>> = <<r>> /\ <<>> \o <<>> = <<>>
  BY <1>1, ConcatEmptySeq, EmptySeq
<1> QED
  BY <1>2, <1>3

\* The neighbours of a pixel are the labels of the pixels next to it that are
\* seen before it.
LEMMA NeighboursFacts ==
  ASSUME Forest, k \in Pixels
  PROVE  /\ \A i \in DOMAIN Neighbours(k) :
              \E q \in Pixels : q < k /\ Adjacent(q, k) /\ label[q] # 0 /\ Neighbours(k)[i] = label[q]
         /\ \A q \in Pixels : q < k /\ Adjacent(q, k) /\ label[q] # 0 =>
              \E i \in DOMAIN Neighbours(k) : Neighbours(k)[i] = label[q]
<1> DEFINE HasLeft == X(k) > 0 /\ label[k - 1] # 0
           HasAbove == Y(k) > 0 /\ label[k - Width] # 0
           a == label[k - 1]
           b == label[k - Width]
           N == Neighbours(k)
           Is(q) == q \in Pixels /\ q < k /\ Adjacent(q, k) /\ label[q] # 0
<1>1. k \in Nat /\ Width \in Nat \ {0}
  BY ExtractAssumption DEF Forest
<1>2. HasLeft => Is(k - 1)
  BY <1>1, LeftAndAbove
<1>3. HasAbove => Is(k - Width)
  BY <1>1, LeftAndAbove
<1>4. ASSUME NEW q, Is(q) PROVE (HasLeft /\ q = k - 1) \/ (HasAbove /\ q = k - Width)
  BY <1>4, SeenBefore
<1>5. Left(k) = (IF HasLeft THEN <<a>> ELSE <<>>) /\ Above(k) = (IF HasAbove THEN <<b>> ELSE <<>>)
  BY DEF Left, Above
<1>6. N = Left(k) \o Above(k)
  BY DEF Neighbours
<1> HIDE DEF HasLeft, HasAbove, a, b, N
<1>7. \E S : a \in S /\ b \in S
  <2>1. a \in {a, b} /\ b \in {a, b}
    OBVIOUS
  <2> QED
    BY <2>1
<1>8. N = IF HasLeft THEN IF HasAbove THEN <<a, b>> ELSE <<a>> ELSE IF HasAbove THEN <<b>> ELSE <<>>
  BY <1>5, <1>6, <1>7, Pairs
<1> HIDE DEF Is
<1>9. ASSUME NEW i \in DOMAIN N PROVE \E q : Is(q) /\ N[i] = label[q]
  <2>1. (HasLeft /\ N[i] = a) \/ (HasAbove /\ N[i] = b)
    <3>1. CASE HasLeft /\ HasAbove
      <4>1. N = <<a, b>>
        BY <1>8, <3>1
      <4>2. i = 1 \/ i = 2
        BY <4>1
      <4> QED
        BY <3>1, <4>1, <4>2
    <3>2. CASE HasLeft /\ ~HasAbove
      <4>1. N = <<a>>
        BY <1>8, <3>2
      <4>2. i = 1
        BY <4>1
      <4> QED
        BY <3>2, <4>1, <4>2
    <3>3. CASE ~HasLeft /\ HasAbove
      <4>1. N = <<b>>
        BY <1>8, <3>3
      <4>2. i = 1
        BY <4>1
      <4> QED
        BY <3>3, <4>1, <4>2
    <3>4. CASE ~HasLeft /\ ~HasAbove
      <4>1. N = <<>>
        BY <1>8, <3>4
      <4> QED
        BY <4>1
    <3> QED
      BY <3>1, <3>2, <3>3, <3>4
  <2> QED
    BY <1>2, <1>3, <2>1 DEF a, b
<1>10. ASSUME NEW q, Is(q) PROVE \E i \in DOMAIN N : N[i] = label[q]
  <2>1. CASE HasLeft /\ q = k - 1
    <3>1. N = <<a, b>> \/ N = <<a>>
      BY <1>8, <2>1
    <3>2. 1 \in DOMAIN N /\ N[1] = a
      BY <3>1
    <3> QED
      BY <2>1, <3>2 DEF a
  <2>2. CASE HasAbove /\ q = k - Width
    <3>1. CASE HasLeft
      <4>1. N = <<a, b>>
        BY <1>8, <2>2, <3>1
      <4>2. 2 \in DOMAIN N /\ N[2] = b
        BY <4>1
      <4> QED
        BY <2>2, <4>2 DEF b
    <3>2. CASE ~HasLeft
      <4>1. N = <<b>>
        BY <1>8, <2>2, <3>2
      <4>2. 1 \in DOMAIN N /\ N[1] = b
        BY <4>1
      <4> QED
        BY <2>2, <4>2 DEF b
    <3> QED
      BY <3>1, <3>2
  <2> QED
    BY <1>4, <1>10, <2>1, <2>2
<1> QED
  BY <1>9, <1>10 DEF Is, N

-----------------------------------------------------------------------------
(* The first pass.                                                          *)

\* The pixels that have been through the first pass.
Seen == IF pc = "label" THEN k - 1 ELSE Width * Height

\* The roots are the components of the pixels seen: every label is on a pixel,
\* the bright pixels have the labels, two next to each other have the same
\* root, and two with the same root are connected.
RootsConnect(r) ==
  /\ IsRootMap(parent, r)
  /\ \A l \in DOMAIN parent : \E p \in Pixels : label[p] = l
  /\ \A p \in Pixels : label[p] # 0 <=> p <= Seen /\ Bright(p)
  /\ \A p, q \in Pixels :
       label[p] # 0 /\ label[q] # 0 /\ Adjacent(p, q) => r[label[p]] = r[label[q]]
  /\ \A p, q \in Pixels :
       label[p] # 0 /\ label[q] # 0 /\ r[label[p]] = r[label[q]] => Connected(p, q, Seen)

\* The finds are on the way from the labels they started at to their roots.
OnTheWay(r) ==
  /\ cursors # <<>> => k \in Pixels
  /\ cursors # <<>> /\ pc = "label" =>
       /\ Bright(k)
       /\ DOMAIN cursors = DOMAIN Neighbours(k)
       /\ \A i \in DOMAIN cursors : r[cursors[i]] = r[Neighbours(k)[i]]
  /\ cursors # <<>> /\ pc # "label" =>
       /\ label[k] # 0
       /\ DOMAIN cursors = {1} /\ r[cursors[1]] = r[label[k]]

\* The pixels up to n whose root is l.
OfRoot(r, l, n) == {q \in 1 .. n : q \in Pixels /\ label[q] # 0 /\ r[label[q]] = l}

\* What is measured of some pixels: how many they are; the first without a
\* value, or their light; and the first of the brightest that have one.
Measures(comp, C) ==
  /\ comp.npix = Cardinality(C)
  /\ \/ \E p \in C : /\ value[p] \in NaNs /\ comp.flux = value[p]
                     /\ \A q \in C : value[q] \in NaNs => p <= q
     \/ /\ \A p \in C : value[p] \notin NaNs
        /\ comp.flux = Light(value, C)
  /\ \/ /\ comp.at \in C /\ value[comp.at] \notin NaNs /\ comp.peak = value[comp.at]
        /\ \A q \in C : value[q] \notin NaNs =>
             value[q] < comp.peak \/ (value[q] = comp.peak /\ comp.at <= q)
     \/ /\ \A p \in C : value[p] \in NaNs
        /\ comp.at = 1 /\ comp.peak = NegNaN

\* Each root has what is measured of its pixels so far.
Measured(r) ==
  pc # "label" =>
    /\ DOMAIN comps = DOMAIN parent
    /\ \A l \in DOMAIN parent : Measures(comps[l], OfRoot(r, l, k - 1))

\* The stars come from what was measured of all pixels.
FoundStars ==
  Retain([l \in DOMAIN parent |-> [at |-> comps[l].at, flux |-> comps[l].flux]],
         {l \in DOMAIN parent : IsStar(l)})

Collected == pc = "done" => k \notin Pixels /\ stars \in Brightest(FoundStars)

LabelInv ==
  /\ Forest
  /\ value \in Images
  /\ pc \in {"label", "measure", "done"} /\ k <= Width * Height + 1
  /\ \E r : RootsConnect(r) /\ OnTheWay(r) /\ Measured(r)
  /\ Collected

\* A pixel has at most two neighbours seen before it.
LEMMA AtMostTwo ==
  ASSUME Forest, k \in Pixels, Neighbours(k) # <<>>
  PROVE  DOMAIN Neighbours(k) = {1} \/ DOMAIN Neighbours(k) = {1, 2}
<1> DEFINE HasLeft == X(k) > 0 /\ label[k - 1] # 0
           HasAbove == Y(k) > 0 /\ label[k - Width] # 0
           a == label[k - 1]
           b == label[k - Width]
           N == Neighbours(k)
<1>1. Left(k) = (IF HasLeft THEN <<a>> ELSE <<>>) /\ Above(k) = (IF HasAbove THEN <<b>> ELSE <<>>)
  BY DEF Left, Above
<1>2. N = Left(k) \o Above(k)
  BY DEF Neighbours
<1> HIDE DEF HasLeft, HasAbove, a, b, N
<1>3. \E S : a \in S /\ b \in S
  <2>1. a \in {a, b} /\ b \in {a, b}
    OBVIOUS
  <2> QED
    BY <2>1
<1>4. N = <<a, b>> \/ N = <<a>> \/ N = <<b>> \/ N = <<>>
  BY <1>1, <1>2, <1>3, Pairs
<1> QED
  BY <1>4 DEF N

\* One more pixel: its neighbours' components become one, and the pixel's.
LEMMA OnePixelMore ==
  ASSUME LabelInv, pc = "label", k \in Pixels,
         NEW l \in Nat, NextPixel(l), Forest',
         NEW r, RootsConnect(r), NEW s, IsRootMap(parent', s),
         DOMAIN parent \subseteq DOMAIN parent',
         \A x \in DOMAIN parent' : x \in DOMAIN parent \/ x = l,
         l # 0 <=> Bright(k),
         \A x, y \in DOMAIN parent : r[x] = r[y] => s[x] = s[y],
         \A x, y \in DOMAIN parent : s[x] = s[y] => r[x] = r[y] \/ (l # 0 /\ s[x] = s[l]),
         l # 0 => \A i \in DOMAIN Neighbours(k) : s[Neighbours(k)[i]] = s[l],
         l # 0 => \A x \in DOMAIN parent :
                    s[x] = s[l] => \E i \in DOMAIN Neighbours(k) : r[x] = r[Neighbours(k)[i]]
  PROVE  LabelInv'
<1> DEFINE new == label'
<1>1. /\ k \in Nat /\ k >= 1 /\ k <= Width * Height /\ Width * Height \in Nat
      /\ Pixels = 1 .. Width * Height
  BY ExtractAssumption DEF Pixels
<1>2. Forest /\ label \in [Pixels -> Nat] /\ Seen = k - 1
  BY DEF LabelInv, Forest, Seen
<1>3. /\ k' = k + 1 /\ pc' = "label" /\ cursors' = <<>> /\ Seen' = k /\ value' = value
      /\ new = [label EXCEPT ![k] = l]
  BY <1>1 DEF NextPixel, Seen
<1>4. new \in [Pixels -> Nat] /\ new[k] = l /\ \A p \in Pixels : p # k => new[p] = label[p]
  BY <1>2, <1>3
<1>5. /\ \A p \in Pixels : label[p] # 0 <=> p <= k - 1 /\ Bright(p)
      /\ \A p \in Pixels : label[p] # 0 => label[p] \in DOMAIN parent
  BY <1>2 DEF RootsConnect, Forest
<1>6. \A p : Bright(p)' <=> Bright(p)
  BY <1>3, ConnectedKept
<1>7. \A p, q, n : Connected(p, q, n)' <=> Connected(p, q, n)
  BY <1>3, ConnectedKept
<1> HIDE DEF new
<1>8. \A p \in Pixels : new[p] # 0 <=> p <= k /\ Bright(p)
  <2> TAKE p \in Pixels
  <2>1. CASE p = k
    BY <1>1, <1>4, <2>1
  <2>2. CASE p # k
    BY <1>1, <1>4, <1>5, <2>2
  <2> QED
    BY <2>1, <2>2
<1>9. \A x \in DOMAIN parent' : \E p \in Pixels : new[p] = x
  <2> SUFFICES ASSUME NEW x \in DOMAIN parent' PROVE \E p \in Pixels : new[p] = x
    OBVIOUS
  <2>1. CASE x = l
    BY <1>4, <2>1
  <2>2. CASE x # l
    <3>1. PICK p \in Pixels : label[p] = x
      BY <2>2 DEF RootsConnect
    <3>2. x # 0
      BY <2>2, ElementFacts DEF Forest
    <3>3. p # k
      BY <1>1, <1>5, <3>1, <3>2
    <3> QED
      BY <1>4, <3>1, <3>3
  <2> QED
    BY <2>1, <2>2
\* The labels of two pixels of which one is new.
<1>10. ASSUME NEW q \in Pixels, q # k, new[q] # 0
       PROVE  label[q] # 0 /\ new[q] = label[q] /\ label[q] \in DOMAIN parent /\ q <= k - 1 /\ q < k /\ Bright(q)
  BY <1>1, <1>4, <1>5, <1>10
<1>11. ASSUME NEW q \in Pixels, q # k, new[q] # 0, Adjacent(q, k), l # 0 PROVE s[new[q]] = s[l]
  <2>1. label[q] # 0 /\ new[q] = label[q] /\ q < k
    BY <1>10, <1>11
  <2>2. PICK i \in DOMAIN Neighbours(k) : Neighbours(k)[i] = label[q]
    BY <1>2, <1>11, <2>1, NeighboursFacts
  <2> QED
    BY <1>11, <2>1, <2>2
<1>12. ASSUME NEW p \in Pixels, NEW q \in Pixels, new[p] # 0, new[q] # 0, Adjacent(p, q)
       PROVE  s[new[p]] = s[new[q]]
  <2>1. CASE p = k /\ q = k
    BY <2>1
  <2>2. CASE p = k /\ q # k
    BY <1>4, <1>11, <1>12, <2>2, AdjacentBothWays
  <2>3. CASE p # k /\ q = k
    BY <1>4, <1>11, <1>12, <2>3
  <2>4. CASE p # k /\ q # k
    <3>1. /\ label[p] # 0 /\ new[p] = label[p] /\ label[p] \in DOMAIN parent
          /\ label[q] # 0 /\ new[q] = label[q] /\ label[q] \in DOMAIN parent
      BY <1>10, <1>12, <2>4
    <3>2. r[label[p]] = r[label[q]]
      BY <1>12, <3>1 DEF RootsConnect
    <3> QED
      BY <3>1, <3>2
  <2> QED
    BY <2>1, <2>2, <2>3, <2>4
<1>13. PICK m \in Nat : m = k - 1 /\ k = m + 1 /\ k \in Nat
  BY <1>1
<1>14. \A p, q \in 1 .. m : Connected(p, q, m) => Connected(p, q, k)
  BY <1>13, ConnectedFacts
<1>15. /\ \A p, q, t \in 1 .. k : Connected(p, q, k) /\ Connected(q, t, k) => Connected(p, t, k)
       /\ \A p, q \in 1 .. k : Bright(q) /\ Adjacent(q, p) => Connected(p, q, k)
       /\ \A p \in 1 .. k : Connected(p, p, k)
  BY <1>1, ConnectedFacts
<1>16. ASSUME NEW p \in Pixels, NEW q \in Pixels, p # k, q # k, new[p] # 0, new[q] # 0,
              r[label[p]] = r[label[q]]
       PROVE  Connected(p, q, k)
  <2>1. label[p] # 0 /\ label[q] # 0 /\ p <= k - 1 /\ q <= k - 1
    BY <1>10, <1>16
  <2>2. Connected(p, q, m)
    BY <1>2, <1>13, <1>16, <2>1 DEF RootsConnect
  <2>3. p \in 1 .. m /\ q \in 1 .. m
    BY <1>1, <1>13, <2>1
  <2> QED
    BY <1>14, <2>2, <2>3
\* What has the root of the new pixel is connected with it.
<1>17. ASSUME NEW p \in Pixels, p # k, new[p] # 0, l # 0, s[new[p]] = s[l]
       PROVE  Connected(p, k, k) /\ Connected(k, p, k)
  <2>1. label[p] # 0 /\ new[p] = label[p] /\ label[p] \in DOMAIN parent /\ p < k
    BY <1>10, <1>17
  <2>2. PICK i \in DOMAIN Neighbours(k) : r[label[p]] = r[Neighbours(k)[i]]
    BY <1>17, <2>1
  <2>3. PICK q \in Pixels : q < k /\ Adjacent(q, k) /\ label[q] # 0 /\ Neighbours(k)[i] = label[q]
    BY <1>2, NeighboursFacts
  <2>4. q # k /\ new[q] # 0 /\ Bright(q) /\ Bright(k)
    BY <1>1, <1>4, <1>5, <1>17, <2>3
  <2>5. Connected(p, q, k) /\ Connected(q, p, k)
    BY <1>16, <1>17, <2>2, <2>3, <2>4
  <2>6. q \in 1 .. k /\ p \in 1 .. k /\ k \in 1 .. k
    BY <1>1, <2>1, <2>3
  <2>7. Connected(q, k, k) /\ Connected(k, q, k)
    BY <1>15, <2>3, <2>4, <2>6, AdjacentBothWays
  <2> QED
    BY <1>15, <2>5, <2>6, <2>7
<1>18. ASSUME NEW p \in Pixels, NEW q \in Pixels, new[p] # 0, new[q] # 0, s[new[p]] = s[new[q]]
       PROVE  Connected(p, q, k)
  <2>0. k \in 1 .. k
    BY <1>1
  <2>1. CASE p = k /\ q = k
    BY <1>15, <2>0, <2>1
  <2>2. CASE p = k /\ q # k
    BY <1>4, <1>17, <1>18, <2>2
  <2>3. CASE p # k /\ q = k
    BY <1>4, <1>17, <1>18, <2>3
  <2>4. CASE p # k /\ q # k
    <3>1. /\ new[p] = label[p] /\ label[p] \in DOMAIN parent /\ p < k
          /\ new[q] = label[q] /\ label[q] \in DOMAIN parent /\ q < k
      BY <1>10, <1>18, <2>4
    <3>2. CASE r[label[p]] = r[label[q]]
      BY <1>16, <1>18, <2>4, <3>2
    <3>3. CASE l # 0 /\ s[label[p]] = s[l]
      <4>1. Connected(p, k, k) /\ Connected(k, q, k)
        BY <1>17, <1>18, <2>4, <3>1, <3>3
      <4>2. p \in 1 .. k /\ q \in 1 .. k
        BY <1>1, <3>1
      <4> QED
        BY <1>15, <2>0, <4>1, <4>2
    <3>4. r[label[p]] = r[label[q]] \/ (l # 0 /\ s[label[p]] = s[l])
      BY <1>18, <3>1
    <3> QED
      BY <3>2, <3>3, <3>4
  <2> QED
    BY <2>1, <2>2, <2>3, <2>4
<1>19. RootsConnect(s)'
  <2>1. \A p \in Pixels : new[p] # 0 <=> p <= Seen' /\ Bright(p)'
    BY <1>3, <1>6, <1>8
  <2>2. \A p, q \in Pixels : new[p] # 0 /\ new[q] # 0 /\ s[new[p]] = s[new[q]] => Connected(p, q, Seen)'
    BY <1>3, <1>7, <1>18
  <2> QED
    BY <1>9, <1>12, <2>1, <2>2 DEF RootsConnect, new
<1>20. OnTheWay(s)'
  BY <1>3 DEF OnTheWay
<1>21. pc' \in {"label", "measure", "done"} /\ k' <= Width * Height + 1 /\ value' \in Images
  BY <1>1, <1>3 DEF LabelInv
<1>22. Measured(s)' /\ Collected'
  BY <1>3 DEF Measured, Collected
<1> QED
  BY <1>19, <1>20, <1>21, <1>22 DEF LabelInv

\* At the start nothing has been seen.
LEMMA InitLabels == Init => LabelInv
<1> SUFFICES ASSUME Init PROVE LabelInv
  OBVIOUS
<1> DEFINE r == [x \in DOMAIN parent |-> x]
<1>1. Width * Height \in Nat /\ Pixels = 1 .. Width * Height
  BY ExtractAssumption DEF Pixels
<1>2. /\ Forest /\ k = 1 /\ pc = "label" /\ Seen = 0 /\ cursors = <<>>
      /\ parent = <<>> /\ DOMAIN parent = {} /\ \A p \in Pixels : label[p] = 0
  BY InitForest DEF Init, Seen
<1>3. IsRootMap(parent, r)
  BY <1>2 DEF IsRootMap
<1>4. \A p \in Pixels : label[p] # 0 <=> p <= Seen /\ Bright(p)
  BY <1>1, <1>2
<1>5. RootsConnect(r)
  BY <1>2, <1>3, <1>4 DEF RootsConnect
<1>6. OnTheWay(r)
  BY <1>2 DEF OnTheWay
<1>7. Measured(r) /\ Collected /\ value \in Images
  BY <1>2 DEF Measured, Collected, Init
<1> QED
  BY <1>1, <1>2, <1>5, <1>6, <1>7 DEF LabelInv

\* A dark pixel gets no label.
LEMMA DarkLabels ==
  ASSUME LabelInv, Forest', Dark
  PROVE  LabelInv'
<1>1. PICK r : RootsConnect(r)
  BY DEF LabelInv
<1>2. NextPixel(0) /\ parent' = parent /\ pc = "label" /\ k \in Pixels /\ ~Bright(k) /\ 0 \in Nat
  BY DEF Dark
<1>3. IsRootMap(parent', r)
  BY <1>1, <1>2 DEF RootsConnect
<1> QED
  BY <1>1, <1>2, <1>3, OnePixelMore

\* A bright pixel without neighbours is a component of its own.
LEMMA NewLabels ==
  ASSUME LabelInv, Forest', NewLabel
  PROVE  LabelInv'
<1> DEFINE l == Len(parent) + 1
<1>1. PICK r : RootsConnect(r)
  BY DEF LabelInv
<1> DEFINE s == [x \in DOMAIN parent' |-> IF x = l THEN l ELSE r[x]]
<1>2. /\ NextPixel(l) /\ parent' = Append(parent, l) /\ pc = "label" /\ k \in Pixels
      /\ Bright(k) /\ Neighbours(k) = <<>>
  BY DEF NewLabel
<1>3. parent \in Seq(Nat) /\ Len(parent) \in Nat /\ DOMAIN parent = 1 .. Len(parent)
  BY DEF LabelInv, Forest
<1>4. l \in Nat /\ l # 0 /\ l \notin DOMAIN parent
  BY <1>3
<1>5. /\ DOMAIN parent' = 1 .. l /\ parent'[l] = l
      /\ \A x \in DOMAIN parent : parent'[x] = parent[x]
  <2>1. /\ Append(parent, l) \in Seq(Nat) /\ Len(Append(parent, l)) = l
        /\ \A x \in 1 .. Len(parent) : Append(parent, l)[x] = parent[x]
        /\ Append(parent, l)[l] = l
    BY <1>3, <1>4, Pushed
  <2>2. parent' \in Seq(Nat) /\ Len(parent') = l
    BY <1>2, <2>1
  <2> HIDE DEF l
  <2>3. DOMAIN parent' = 1 .. l
    BY <2>2
  <2>4. parent' = Append(parent, l)
    BY <1>2
  <2>5. \A x \in DOMAIN parent : Append(parent, l)[x] = parent[x]
    BY <1>3, <2>1
  <2> QED
    BY <2>1, <2>3, <2>4, <2>5
<1>6. DOMAIN parent' = DOMAIN parent \cup {l}
  BY <1>3, <1>5
<1>7. /\ r \in [DOMAIN parent -> DOMAIN parent]
      /\ \A x \in DOMAIN parent : r[x] = r[parent[x]] /\ parent[r[x]] = r[x] /\ (parent[x] = x => r[x] = x)
      /\ \A x \in DOMAIN parent : parent[x] \in DOMAIN parent
  BY <1>1 DEF RootsConnect, IsRootMap, LabelInv, Forest
<1> HIDE DEF l
<1>8. s[l] = l /\ \A x \in DOMAIN parent : s[x] = r[x]
  BY <1>4, <1>6
<1>9. s \in [DOMAIN parent' -> DOMAIN parent']
  BY <1>6, <1>7
<1> HIDE DEF s
<1>10. IsRootMap(parent', s)
  <2> SUFFICES ASSUME NEW x \in DOMAIN parent'
               PROVE  s[x] = s[parent'[x]] /\ parent'[s[x]] = s[x] /\ (parent'[x] = x => s[x] = x)
    BY <1>9 DEF IsRootMap
  <2>1. CASE x = l
    BY <1>5, <1>8, <2>1
  <2>2. CASE x # l
    <3>1. x \in DOMAIN parent /\ parent'[x] = parent[x] /\ parent[x] \in DOMAIN parent
      BY <1>5, <1>6, <1>7, <2>2
    <3>2. s[x] = r[x] /\ s[parent[x]] = r[parent[x]] /\ r[x] \in DOMAIN parent
      BY <1>7, <1>8, <3>1
    <3>3. parent'[r[x]] = parent[r[x]]
      BY <1>5, <3>2
    <3> QED
      BY <1>7, <3>1, <3>2, <3>3
  <2> QED
    BY <2>1, <2>2
<1>11. \A x, y \in DOMAIN parent : r[x] = r[y] <=> s[x] = s[y]
  BY <1>8
<1>12. \A x \in DOMAIN parent : s[x] # s[l]
  BY <1>4, <1>7, <1>8
<1>13. DOMAIN Neighbours(k) = {}
  BY <1>2
<1> QED
  BY <1>1, <1>2, <1>4, <1>6, <1>10, <1>11, <1>12, <1>13, OnePixelMore DEF l

\* Two components a pixel connects become one: all labels whose root was the
\* higher of the two roots have the lower one now.
LEMMA JoinLabels ==
  ASSUME LabelInv, Forest', Join
  PROVE  LabelInv'
<1> DEFINE last == Len(cursors)
           a == cursors[1]
           b == cursors[last]
           lo == Lower(a, b)
           hi == Higher(a, b)
<1>1. PICK r : RootsConnect(r) /\ OnTheWay(r)
  BY DEF LabelInv
<1> DEFINE s == [x \in DOMAIN parent |-> IF r[x] = hi THEN lo ELSE r[x]]
<1>2. /\ Forest /\ NextPixel(lo) /\ parent' = [parent EXCEPT ![hi] = lo]
      /\ pc = "label" /\ cursors # <<>>
      /\ \A i \in DOMAIN cursors : parent[cursors[i]] = cursors[i]
  BY DEF Join, AtRoots, LabelInv, Joined
<1>3. /\ k \in Pixels /\ Bright(k) /\ DOMAIN cursors = DOMAIN Neighbours(k)
      /\ \A i \in DOMAIN cursors : r[cursors[i]] = r[Neighbours(k)[i]]
  BY <1>1, <1>2 DEF OnTheWay
<1>4. last \in Nat /\ DOMAIN cursors = 1 .. last
  BY <1>2 DEF Forest
<1>5. Neighbours(k) # <<>>
  <2>1. last # 0
    BY <1>2 DEF Forest
  <2>2. 1 \in DOMAIN Neighbours(k)
    BY <1>3, <1>4, <2>1
  <2> QED
    BY <2>2
<1>6. DOMAIN cursors = {1} \/ DOMAIN cursors = {1, 2}
  BY <1>2, <1>3, <1>5, AtMostTwo
<1>7. /\ 1 \in DOMAIN cursors /\ last \in DOMAIN cursors
      /\ \A i \in DOMAIN cursors : i = 1 \/ i = last
  BY <1>4, <1>6
<1>8. /\ r \in [DOMAIN parent -> DOMAIN parent]
      /\ \A x \in DOMAIN parent : r[x] = r[parent[x]] /\ parent[r[x]] = r[x] /\ (parent[x] = x => r[x] = x)
      /\ \A x \in DOMAIN parent : parent[x] \in DOMAIN parent /\ x \in Nat
      /\ \A i \in DOMAIN cursors : cursors[i] \in DOMAIN parent
  <2>1. \A x \in DOMAIN parent : x \in Nat
    BY <1>2, ElementFacts DEF Forest
  <2> QED
    BY <1>1, <1>2, <2>1 DEF RootsConnect, IsRootMap, Forest
<1>9. \A i \in DOMAIN cursors : r[cursors[i]] = cursors[i] /\ (cursors[i] = a \/ cursors[i] = b)
  BY <1>2, <1>7, <1>8
<1>10. /\ {lo, hi} = {a, b} /\ lo \in DOMAIN parent /\ hi \in DOMAIN parent
       /\ lo \in Nat /\ lo # 0 /\ r[lo] = lo /\ r[hi] = hi
       /\ parent[lo] = lo /\ parent[hi] = hi
  <2>1. /\ a \in DOMAIN parent /\ b \in DOMAIN parent /\ r[a] = a /\ r[b] = b
        /\ parent[a] = a /\ parent[b] = b
    BY <1>2, <1>7, <1>8, <1>9
  <2>2. \A x \in DOMAIN parent : x # 0
    BY <1>2, ElementFacts DEF Forest
  <2>3. (lo = a /\ hi = b) \/ (lo = b /\ hi = a)
    BY DEF Lower, Higher
  <2> HIDE DEF a, b, lo, hi
  <2> QED
    BY <1>8, <2>1, <2>2, <2>3
<1>11. /\ \E i \in DOMAIN cursors : lo = cursors[i]
       /\ \E i \in DOMAIN cursors : hi = cursors[i]
       /\ \A i \in DOMAIN cursors : cursors[i] = lo \/ cursors[i] = hi
  <2> HIDE DEF lo, hi
  <2> QED
    BY <1>7, <1>9, <1>10
<1> HIDE DEF last, a, b, lo, hi
<1>12. /\ DOMAIN parent' = DOMAIN parent
       /\ \A x \in DOMAIN parent : parent'[x] = IF x = hi THEN lo ELSE parent[x]
  BY <1>2, <1>10, ExceptFacts DEF Forest
<1>13. \A x \in DOMAIN parent : s[x] = IF r[x] = hi THEN lo ELSE r[x]
  OBVIOUS
<1>14. s \in [DOMAIN parent' -> DOMAIN parent']
  BY <1>8, <1>10, <1>12
<1> HIDE DEF s
<1>15. IsRootMap(parent', s)
  <2> SUFFICES ASSUME NEW x \in DOMAIN parent
               PROVE  s[x] = s[parent'[x]] /\ parent'[s[x]] = s[x] /\ (parent'[x] = x => s[x] = x)
    BY <1>12, <1>14 DEF IsRootMap
  <2>1. s[x] = s[parent'[x]]
    BY <1>8, <1>10, <1>12, <1>13
  <2>2. parent'[s[x]] = s[x]
    BY <1>8, <1>10, <1>12, <1>13
  <2>3. parent'[x] = x => s[x] = x
    BY <1>8, <1>10, <1>12, <1>13
  <2> QED
    BY <2>1, <2>2, <2>3
<1>16. s[lo] = lo /\ s[hi] = lo
  BY <1>10, <1>13
<1>17. \A x, y \in DOMAIN parent : r[x] = r[y] => s[x] = s[y]
  BY <1>13
<1>18. \A x, y \in DOMAIN parent : s[x] = s[y] => r[x] = r[y] \/ s[x] = s[lo]
  BY <1>13, <1>16
<1>19. \A i \in DOMAIN Neighbours(k) : s[Neighbours(k)[i]] = s[lo]
  <2> TAKE i \in DOMAIN Neighbours(k)
  <2>1. r[Neighbours(k)[i]] = lo \/ r[Neighbours(k)[i]] = hi
    BY <1>3, <1>9, <1>11
  <2>2. Neighbours(k)[i] \in DOMAIN parent
    BY <1>2, <1>3, NeighboursAreLabels
  <2> QED
    BY <1>13, <1>16, <2>1, <2>2
<1>20. \A x \in DOMAIN parent : s[x] = s[lo] =>
         \E i \in DOMAIN Neighbours(k) : r[x] = r[Neighbours(k)[i]]
  <2> SUFFICES ASSUME NEW x \in DOMAIN parent, s[x] = s[lo]
               PROVE  \E i \in DOMAIN Neighbours(k) : r[x] = r[Neighbours(k)[i]]
    OBVIOUS
  <2>1. r[x] = lo \/ r[x] = hi
    BY <1>13, <1>16
  <2>2. PICK i \in DOMAIN cursors : r[x] = cursors[i]
    BY <1>11, <2>1
  <2> QED
    BY <1>3, <1>9, <2>2
<1>21. /\ lo \in Nat /\ NextPixel(lo) /\ (lo # 0 <=> Bright(k)) /\ k \in Pixels /\ pc = "label"
       /\ DOMAIN parent \subseteq DOMAIN parent'
       /\ \A x \in DOMAIN parent' : x \in DOMAIN parent \/ x = lo
  BY <1>2, <1>3, <1>10, <1>12
<1>22. \A x, y \in DOMAIN parent : s[x] = s[y] => r[x] = r[y] \/ (lo # 0 /\ s[x] = s[lo])
  BY <1>10, <1>18
<1> QED
  BY <1>1, <1>15, <1>17, <1>19, <1>20, <1>21, <1>22, OnePixelMore

-----------------------------------------------------------------------------
(* The second pass.                                                         *)

\* The light of bright pixels with values is a number below that of the NaN.
LEMMA LightIsNoNaN ==
  ASSUME value \in Images, NEW C \in SUBSET Pixels,
         \A p \in C : Bright(p) /\ value[p] \notin NaNs
  PROVE  Light(value, C) \in Nat /\ Light(value, C) \notin NaNs
<1> DEFINE len == Width * Height
           All == {p \in Pixels : value[p] \in Nat \ NaNs}
           f == [p \in Pixels |-> IF p \in C THEN value[p] ELSE 0]
           g == [p \in Pixels |-> IF p \in All THEN value[p] ELSE 0]
<1>1. len \in Nat /\ Pixels = 1 .. len /\ value \in [Pixels -> Int]
  BY ExtractAssumption DEF Pixels
<1>2. \A p \in C : value[p] \in Nat /\ p \in All
  <2> SUFFICES ASSUME NEW p \in C PROVE value[p] \in Nat \ NaNs
    OBVIOUS
  <2>1. value[p] > Limit /\ Limit \in Nat /\ value[p] \in Int
    BY <1>1, ExtractAssumption DEF Bright
  <2> QED
    BY <2>1
<1>3. f \in [1 .. len -> Nat] /\ f \in [1 .. len -> Int] /\ g \in [1 .. len -> Int]
  BY <1>1, <1>2
<1>4. \A p \in 1 .. len : f[p] <= g[p]
  BY <1>1, <1>2
<1>5. /\ RunningSum(f, len)[len] = Light(value, C)
      /\ RunningSum(g, len)[len] = Light(value, All)
  BY DEF Light
<1> HIDE DEF f, g, All
<1>6. Light(value, C) \in Nat
  BY <1>1, <1>3, <1>5, SumBounds
<1>7. Light(value, C) <= Light(value, All)
  <2>1. len \in 0 .. len
    BY <1>1
  <2> QED
    BY <1>1, <1>3, <1>4, <1>5, <2>1, SumMonotone
<1>8. Light(value, All) \in Int
  <2>1. len \in 0 .. len
    BY <1>1
  <2>2. \A i \in 0 .. len : RunningSum(g, len)[i] \in Int
    BY <1>1, <1>3, SumRecursion
  <2> QED
    BY <1>5, <2>1, <2>2
<1>9. Light(value, All) < PosNaN
  BY ExtractAssumption DEF All
<1>10. PosNaN \in Nat /\ NegNaN \in Int \ Nat
  BY ExtractAssumption
<1>11. Light(value, C) # PosNaN
  BY <1>6, <1>7, <1>8, <1>9, <1>10
<1> QED
  BY <1>6, <1>10, <1>11 DEF NaNs

\* One more pixel adds its value.
LEMMA MoreLight ==
  ASSUME value \in Images, NEW C \in SUBSET Pixels, NEW p \in Pixels, p \notin C
  PROVE  Light(value, C \cup {p}) = Light(value, C) + value[p]
<1> DEFINE len == Width * Height
           f == [q \in Pixels |-> IF q \in C THEN value[q] ELSE 0]
           g == [q \in Pixels |-> IF q \in C \cup {p} THEN value[q] ELSE 0]
<1>1. len \in Nat /\ Pixels = 1 .. len /\ value \in [Pixels -> Int]
  BY ExtractAssumption DEF Pixels
<1>2. f \in [1 .. len -> Int] /\ g \in [1 .. len -> Int] /\ value[p] \in Int /\ p \in 1 .. len
  BY <1>1
<1>3. /\ \A q \in 1 .. len : q # p => g[q] = f[q]
      /\ f[p] = 0 /\ g[p] = value[p] /\ g[p] = f[p] + value[p]
  BY <1>1
<1>4. /\ RunningSum(f, len)[len] = Light(value, C)
      /\ RunningSum(g, len)[len] = Light(value, C \cup {p})
  BY DEF Light
<1> HIDE DEF f, g
<1>5. PICK x \in Int : x = value[p]
  BY <1>2
<1>6. (\A q \in 1 .. len : q # p => g[q] = f[q]) /\ g[p] = f[p] + x
  BY <1>3, <1>5
<1>7. RunningSum(g, len)[len] = RunningSum(f, len)[len] + x
  <2> HIDE DEF len
  <2> QED
    BY <1>1, <1>2, <1>6, SumAdd
<1> QED
  BY <1>4, <1>5, <1>7

\* Nothing is measured of no pixel.
LEMMA NothingMeasured == Measures(NoComp, {})
<1> DEFINE len == Width * Height
           f == [q \in Pixels |-> IF q \in {} THEN value[q] ELSE 0]
<1>1. len \in Nat /\ Pixels = 1 .. len
  BY ExtractAssumption DEF Pixels
<1>2. f \in [1 .. len -> Int] /\ \A q \in 1 .. len : f[q] = 0
  BY <1>1
<1>3. RunningSum(f, len)[len] = Light(value, {})
  BY DEF Light
<1> HIDE DEF f
<1>4. Light(value, {}) = 0
  BY <1>1, <1>2, <1>3, SumOfZeros
<1>5. Cardinality({}) = 0
  BY FS_EmptySet
<1> QED
  BY <1>4, <1>5 DEF Measures, NoComp

\* What With adds of a pixel is what is measured with the pixel.
LEMMA OneMeasuredMore ==
  ASSUME value \in Images, k \in Pixels, Bright(k),
         NEW C \in SUBSET (1 .. k - 1), C \subseteq Pixels, \A p \in C : Bright(p),
         NEW comp, Measures(comp, C)
  PROVE  Measures(With(comp, k), C \cup {k})
<1> DEFINE v == value[k]
           D == C \cup {k}
           new == With(comp, k)
<1>1. /\ value \in [Pixels -> Int] /\ k \in Nat /\ v \in Int
      /\ Pixels = 1 .. Width * Height /\ PosNaN \in Int /\ NegNaN \in Int
  BY ExtractAssumption DEF Pixels
<1>2. \A q \in C : q \in Nat /\ q < k /\ q <= k /\ value[q] \in Int /\ q # k
  BY <1>1
<1>3. /\ new.flux = Plus(comp.flux, v)
      /\ new.npix = comp.npix + 1
      /\ new.peak = IF Beats(v, comp.peak) THEN v ELSE comp.peak
      /\ new.at = IF Beats(v, comp.peak) THEN k ELSE comp.at
  BY DEF With
<1> HIDE DEF new
<1>4. k \in D /\ C \subseteq D /\ \A q \in D : q \in C \/ q = k
  OBVIOUS
<1>5. new.npix = Cardinality(D)
  <2>1. IsFiniteSet(1 .. k - 1)
    BY <1>1, FS_Interval
  <2>2. IsFiniteSet(C) /\ k \notin C
    BY <1>2, <2>1, FS_Subset
  <2>3. Cardinality(D) = Cardinality(C) + 1
    BY <2>2, FS_AddElement
  <2> QED
    BY <1>3, <2>3 DEF Measures
<1>6. \/ \E p \in D : /\ value[p] \in NaNs /\ new.flux = value[p]
                      /\ \A q \in D : value[q] \in NaNs => p <= q
      \/ /\ \A p \in D : value[p] \notin NaNs
         /\ new.flux = Light(value, D)
  <2>1. CASE \E p \in C : /\ value[p] \in NaNs /\ comp.flux = value[p]
                          /\ \A q \in C : value[q] \in NaNs => p <= q
    <3>1. PICK p \in C : /\ value[p] \in NaNs /\ comp.flux = value[p]
                         /\ \A q \in C : value[q] \in NaNs => p <= q
      BY <2>1
    <3>2. new.flux = value[p]
      BY <1>3, <3>1 DEF Plus
    <3>3. \A q \in D : value[q] \in NaNs => p <= q
      BY <1>2, <1>4, <3>1
    <3> QED
      BY <1>4, <3>1, <3>2, <3>3
  <2>2. CASE (\A p \in C : value[p] \notin NaNs) /\ comp.flux = Light(value, C)
    <3>1. Light(value, C) \in Nat /\ comp.flux \notin NaNs
      BY <2>2, LightIsNoNaN
    <3>2. CASE v \in NaNs
      <4>1. new.flux = v
        BY <1>3, <3>1, <3>2 DEF Plus
      <4>2. \A q \in D : value[q] \in NaNs => k <= q
        BY <1>1, <1>4, <2>2
      <4> QED
        BY <1>4, <3>2, <4>1, <4>2
    <3>3. CASE v \notin NaNs
      <4>1. new.flux = comp.flux + v
        BY <1>3, <3>1, <3>3 DEF Plus
      <4>2. k \notin C
        BY <1>2
      <4>3. Light(value, D) = Light(value, C) + v
        BY <4>2, MoreLight
      <4>4. \A p \in D : value[p] \notin NaNs
        BY <1>4, <2>2, <3>3
      <4> QED
        BY <2>2, <4>1, <4>3, <4>4
    <3> QED
      BY <3>2, <3>3
  <2> QED
    BY <2>1, <2>2 DEF Measures
<1>7. \/ /\ new.at \in D /\ value[new.at] \notin NaNs /\ new.peak = value[new.at]
         /\ \A q \in D : value[q] \notin NaNs =>
              value[q] < new.peak \/ (value[q] = new.peak /\ new.at <= q)
      \/ /\ \A p \in D : value[p] \in NaNs
         /\ new.at = 1 /\ new.peak = NegNaN
  <2>1. CASE /\ comp.at \in C /\ value[comp.at] \notin NaNs /\ comp.peak = value[comp.at]
             /\ \A q \in C : value[q] \notin NaNs =>
                  value[q] < comp.peak \/ (value[q] = comp.peak /\ comp.at <= q)
    <3>1. /\ comp.peak \in Int /\ comp.peak # NegNaN /\ comp.at < k /\ comp.at <= k
      BY <1>2, <2>1 DEF NaNs
    <3>2. CASE v \notin NaNs /\ v > comp.peak
      <4>1. new.peak = v /\ new.at = k
        BY <1>3, <3>2 DEF Beats
      <4>2. \A q \in C : value[q] \notin NaNs => value[q] < v
        BY <1>1, <1>2, <2>1, <3>1, <3>2
      <4>3. \A q \in D : value[q] \notin NaNs =>
              value[q] < new.peak \/ (value[q] = new.peak /\ new.at <= q)
        BY <1>1, <1>4, <4>1, <4>2
      <4> QED
        BY <1>4, <3>2, <4>1, <4>3
    <3>3. CASE ~(v \notin NaNs /\ v > comp.peak)
      <4>1. new.peak = comp.peak /\ new.at = comp.at
        BY <1>3, <3>1, <3>3 DEF Beats
      <4>2. v \notin NaNs => v < comp.peak \/ v = comp.peak
        BY <1>1, <3>1, <3>3
      <4>3. \A q \in D : value[q] \notin NaNs =>
              value[q] < new.peak \/ (value[q] = new.peak /\ new.at <= q)
        BY <1>4, <2>1, <3>1, <4>1, <4>2
      <4> QED
        BY <1>4, <2>1, <4>1, <4>3
    <3> QED
      BY <3>2, <3>3
  <2>2. CASE (\A p \in C : value[p] \in NaNs) /\ comp.at = 1 /\ comp.peak = NegNaN
    <3>1. CASE v \notin NaNs
      <4>1. new.peak = v /\ new.at = k
        BY <1>3, <2>2, <3>1 DEF Beats
      <4>2. \A q \in D : value[q] \notin NaNs => value[q] = new.peak /\ new.at <= q
        BY <1>1, <1>4, <2>2, <4>1
      <4> QED
        BY <1>4, <3>1, <4>1, <4>2
    <3>2. CASE v \in NaNs
      <4>1. new.peak = NegNaN /\ new.at = 1
        BY <1>3, <2>2, <3>2 DEF Beats
      <4> QED
        BY <1>4, <2>2, <3>2, <4>1
    <3> QED
      BY <3>1, <3>2
  <2> QED
    BY <2>1, <2>2 DEF Measures
<1> QED
  BY <1>5, <1>6, <1>7 DEF Measures, new

\* What is measured of some pixels depends on the image only.
LEMMA MeasuresKept ==
  ASSUME UNCHANGED value
  PROVE  \A comp, C : Measures(comp, C)' <=> Measures(comp, C)
  BY DEF Measures

\* Steps that measure nothing.
LEMMA MeasuredKept ==
  ASSUME UNCHANGED <<value, pc, k, label, comps>>, DOMAIN parent' = DOMAIN parent,
         NEW r, Measured(r)
  PROVE  Measured(r)'
<1>1. \A comp, C : Measures(comp, C)' <=> Measures(comp, C)
  BY MeasuresKept
<1>2. \A l, n : OfRoot(r, l, n)' = OfRoot(r, l, n)
  BY DEF OfRoot
<1>3. \A l : OfRoot(r, l, k - 1)' = OfRoot(r, l, k - 1)
  BY <1>2
<1> QED
  BY <1>1, <1>3 DEF Measured

\* Halving a path changes no root, and leaves the find on its way.
LEMMA FindLabels ==
  ASSUME LabelInv, Forest', Find
  PROVE  LabelInv'
<1>1. PICK r : RootsConnect(r) /\ OnTheWay(r) /\ Measured(r)
  BY DEF LabelInv
<1>2. PICK i \in DOMAIN cursors :
        /\ parent' = [parent EXCEPT ![cursors[i]] = parent[parent[cursors[i]]]]
        /\ cursors' = [cursors EXCEPT ![i] = parent[parent[cursors[i]]]]
        /\ parent[cursors[i]] # cursors[i]
        /\ UNCHANGED <<value, pc, k, label>>
  BY DEF Find
<1> DEFINE c == cursors[i]
           up == parent[parent[c]]
<1>3. Forest
  BY DEF LabelInv
<1>4. /\ r \in [DOMAIN parent -> DOMAIN parent]
      /\ \A x \in DOMAIN parent : r[x] = r[parent[x]] /\ parent[r[x]] = r[x] /\ (parent[x] = x => r[x] = x)
      /\ \A x \in DOMAIN parent : parent[x] \in DOMAIN parent /\ x \in Nat /\ parent[x] \in Nat /\ parent[x] <= x
      /\ \A j \in DOMAIN cursors : cursors[j] \in DOMAIN parent
  <2>1. \A x \in DOMAIN parent : x \in Nat /\ parent[x] \in Nat
    BY <1>3, ElementFacts DEF Forest
  <2> QED
    BY <1>1, <1>3, <2>1 DEF RootsConnect, IsRootMap, Forest
<1>5. c \in DOMAIN parent /\ up \in DOMAIN parent /\ up \in Nat /\ r[up] = r[c] /\ parent[c] # c
  BY <1>2, <1>4
<1>6. up # c
  <2>1. /\ c \in Nat /\ parent[c] \in Nat /\ up \in Nat /\ up <= parent[c] /\ parent[c] <= c
    BY <1>4, <1>5
  <2> HIDE DEF c, up
  <2> QED
    BY <1>5, <2>1
<1>7. /\ DOMAIN parent' = DOMAIN parent
      /\ \A x \in DOMAIN parent : parent'[x] = IF x = c THEN up ELSE parent[x]
  BY <1>2, <1>3, <1>5, ExceptFacts DEF Forest
<1>8. /\ DOMAIN cursors' = DOMAIN cursors
      /\ \A j \in DOMAIN cursors : cursors'[j] = IF j = i THEN up ELSE cursors[j]
  BY <1>2, <1>3, <1>5, ExceptFacts DEF Forest
<1> HIDE DEF c, up
<1>9. IsRootMap(parent', r)
  <2> SUFFICES ASSUME NEW x \in DOMAIN parent
               PROVE  r[x] = r[parent'[x]] /\ parent'[r[x]] = r[x] /\ (parent'[x] = x => r[x] = x)
    BY <1>4, <1>7 DEF IsRootMap
  <2>1. r[x] = r[parent'[x]]
    BY <1>4, <1>5, <1>7
  <2>2. parent'[r[x]] = r[x]
    BY <1>4, <1>5, <1>7
  <2>3. parent'[x] = x => r[x] = x
    BY <1>4, <1>5, <1>6, <1>7
  <2> QED
    BY <2>1, <2>2, <2>3
<1>10. \A j \in DOMAIN cursors : r[cursors'[j]] = r[cursors[j]]
  BY <1>5, <1>8 DEF c
<1>11. UNCHANGED <<Seen, Neighbours(k)>> /\ UNCHANGED <<value, pc, k, label>>
  BY <1>2 DEF Seen, Neighbours, Left, Above
<1>12. RootsConnect(r)'
  <2>1. \A p : Bright(p)' <=> Bright(p)
    BY <1>11, ConnectedKept
  <2>2. \A p, q, n : Connected(p, q, n)' <=> Connected(p, q, n)
    BY <1>11, ConnectedKept
  <2>3. \A p, q : Connected(p, q, Seen)' <=> Connected(p, q, Seen)
    BY <1>11, <2>2
  <2> QED
    BY <1>1, <1>7, <1>9, <1>11, <2>1, <2>3 DEF RootsConnect
<1>13. cursors # <<>>
  BY <1>2
<1>14. OnTheWay(r)'
  <2>1. k' \in Pixels /\ (pc' = "label" <=> pc = "label")
    BY <1>1, <1>11, <1>13 DEF OnTheWay
  <2>2. ASSUME pc = "label"
        PROVE  /\ Bright(k)'
               /\ DOMAIN cursors' = DOMAIN Neighbours(k)'
               /\ \A j \in DOMAIN cursors' : r[cursors'[j]] = r[Neighbours(k)'[j]]
    <3>1. Bright(k)' <=> Bright(k)
      BY <1>11 DEF Bright
    <3>2. /\ Bright(k) /\ DOMAIN cursors = DOMAIN Neighbours(k)
          /\ \A j \in DOMAIN cursors : r[cursors[j]] = r[Neighbours(k)[j]]
      BY <1>1, <1>13, <2>2 DEF OnTheWay
    <3> QED
      BY <1>8, <1>10, <1>11, <3>1, <3>2
  <2>3. ASSUME pc # "label"
        PROVE  label'[k'] # 0 /\ DOMAIN cursors' = {1} /\ r[cursors'[1]] = r[label'[k']]
    <3>1. label[k] # 0 /\ DOMAIN cursors = {1} /\ r[cursors[1]] = r[label[k]]
      BY <1>1, <1>13, <2>3 DEF OnTheWay
    <3> QED
      BY <1>8, <1>10, <1>11, <3>1
  <2> QED
    BY <2>1, <2>2, <2>3 DEF OnTheWay
<1>15. pc' \in {"label", "measure", "done"} /\ k' <= Width * Height + 1 /\ value' \in Images
  BY <1>11 DEF LabelInv
<1>16. Measured(r)'
  BY <1>1, <1>2, <1>7, <1>11, MeasuredKept DEF Find
<1>17. Collected'
  <2>1. k \in Pixels
    BY <1>1, <1>13 DEF OnTheWay
  <2>2. pc' # "done"
    BY <1>11, <2>1 DEF LabelInv, Collected
  <2> QED
    BY <2>2 DEF Collected
<1> QED
  BY <1>12, <1>14, <1>15, <1>16, <1>17 DEF LabelInv

\* Steps that leave the forest and the labels.
LEMMA LabelsKept ==
  ASSUME LabelInv, Forest', UNCHANGED <<value, label, parent, Seen>>,
         NEW r, RootsConnect(r), OnTheWay(r)', Measured(r)', Collected',
         pc' \in {"label", "measure", "done"}, k' <= Width * Height + 1
  PROVE  LabelInv'
<1>1. \A p : Bright(p)' <=> Bright(p)
  BY ConnectedKept
<1>2. \A p, q, n : Connected(p, q, n)' <=> Connected(p, q, n)
  BY ConnectedKept
<1>3. \A p, q : Connected(p, q, Seen)' <=> Connected(p, q, Seen)
  BY <1>2
<1>4. RootsConnect(r)'
  BY <1>1, <1>3 DEF RootsConnect
<1> QED
  BY <1>4 DEF LabelInv

\* Nothing is measured yet when the second pass starts.
LEMMA LabelledLabels ==
  ASSUME LabelInv, Forest', Labelled
  PROVE  LabelInv'
<1>1. PICK r : RootsConnect(r) /\ OnTheWay(r)
  BY DEF LabelInv
<1>2. /\ pc = "label" /\ k \notin Pixels /\ pc' = "measure" /\ k' = 1
      /\ comps' = [l \in DOMAIN parent |-> NoComp]
      /\ UNCHANGED <<value, label, parent, cursors>>
  BY DEF Labelled
<1>3. /\ Width * Height \in Nat /\ Pixels = 1 .. Width * Height
      /\ k \in Nat /\ k >= 1 /\ k <= Width * Height + 1
  BY ExtractAssumption DEF Pixels, LabelInv, Forest
<1>4. Seen' = Seen
  BY <1>2, <1>3 DEF Seen
<1>5. cursors' = <<>>
  BY <1>1, <1>2 DEF OnTheWay
<1>6. OnTheWay(r)'
  BY <1>5 DEF OnTheWay
<1>7. Measured(r)'
  <2>1. \A l : OfRoot(r, l, k - 1)' = {}
    BY <1>2 DEF OfRoot
  <2>2. Measures(NoComp, {})'
    <3>1. \A comp, C : Measures(comp, C)' <=> Measures(comp, C)
      BY <1>2, MeasuresKept
    <3> QED
      BY <3>1, NothingMeasured
  <2> HIDE DEF NoComp
  <2>3. \A l \in DOMAIN parent : Measures(comps[l], OfRoot(r, l, k - 1))'
    <3>1. \A l \in DOMAIN parent : comps'[l] = NoComp
      BY <1>2
    <3> QED
      BY <2>1, <2>2, <3>1
  <2> QED
    BY <1>2, <2>3 DEF Measured
<1>8. Collected'
  BY <1>2 DEF Collected
<1> QED
  BY <1>1, <1>2, <1>3, <1>4, <1>6, <1>7, <1>8, LabelsKept

\* A pixel without a label belongs to no root.
LEMMA UnlabelledLabels ==
  ASSUME LabelInv, Forest', Unlabelled
  PROVE  LabelInv'
<1>1. PICK r : RootsConnect(r) /\ OnTheWay(r) /\ Measured(r)
  BY DEF LabelInv
<1>2. /\ pc = "measure" /\ k \in Pixels /\ label[k] = 0 /\ k' = k + 1
      /\ UNCHANGED <<value, pc, label, parent, cursors, comps>>
  BY DEF Unlabelled
<1>3. /\ Width * Height \in Nat /\ Pixels = 1 .. Width * Height
      /\ k \in Nat /\ k >= 1 /\ k <= Width * Height
  BY <1>2, ExtractAssumption DEF Pixels, LabelInv, Forest
<1>4. Seen' = Seen
  BY <1>2 DEF Seen
<1>5. cursors' = <<>>
  BY <1>1, <1>2 DEF OnTheWay
<1>6. OnTheWay(r)'
  BY <1>5 DEF OnTheWay
<1>7. Measured(r)'
  <2>1. \A l : OfRoot(r, l, k - 1)' = OfRoot(r, l, k - 1)
    <3>1. \A q : q \in 1 .. k /\ label[q] # 0 <=> q \in 1 .. k - 1 /\ label[q] # 0
      BY <1>2, <1>3
    <3>2. k' - 1 = k
      BY <1>2, <1>3
    <3> QED
      BY <1>2, <3>1, <3>2 DEF OfRoot
  <2>2. \A comp, C : Measures(comp, C)' <=> Measures(comp, C)
    BY <1>2, MeasuresKept
  <2> QED
    BY <1>1, <1>2, <2>1, <2>2 DEF Measured
<1>8. Collected'
  BY <1>2 DEF Collected
<1> QED
  BY <1>1, <1>2, <1>3, <1>4, <1>6, <1>7, <1>8, LabelsKept

\* A pixel with a label is one more of its root.
LEMMA MeasureLabels ==
  ASSUME LabelInv, Forest', Measure
  PROVE  LabelInv'
<1>1. PICK r : RootsConnect(r) /\ OnTheWay(r) /\ Measured(r)
  BY DEF LabelInv
<1> DEFINE c == cursors[1]
<1>2. /\ pc = "measure" /\ cursors # <<>> /\ k' = k + 1 /\ cursors' = <<>>
      /\ \A i \in DOMAIN cursors : parent[cursors[i]] = cursors[i]
      /\ comps' = [comps EXCEPT ![c] = With(comps[c], k)]
      /\ UNCHANGED <<value, pc, label, parent>>
  BY DEF Measure, AtRoots
<1>3. k \in Pixels /\ label[k] # 0 /\ DOMAIN cursors = {1} /\ r[c] = r[label[k]]
  BY <1>1, <1>2 DEF OnTheWay
<1>4. c \in DOMAIN parent /\ r[c] = c
  <2>1. c \in DOMAIN parent /\ parent[c] = c
    BY <1>2, <1>3 DEF LabelInv, Forest
  <2> QED
    BY <1>1, <2>1 DEF RootsConnect, IsRootMap
<1> HIDE DEF c
<1>5. /\ Width * Height \in Nat /\ Pixels = 1 .. Width * Height
      /\ k \in Nat /\ k >= 1 /\ k <= Width * Height /\ value \in Images
  BY <1>3, ExtractAssumption DEF Pixels, LabelInv, Forest
<1>6. Seen' = Seen /\ Seen = Width * Height
  BY <1>2 DEF Seen
<1>7. OnTheWay(r)'
  BY <1>2 DEF OnTheWay
<1>8. \A p \in Pixels : label[p] # 0 => Bright(p)
  BY <1>1 DEF RootsConnect
<1>9. ASSUME NEW l
      PROVE  OfRoot(r, l, k - 1)' = IF l = c THEN OfRoot(r, l, k - 1) \cup {k} ELSE OfRoot(r, l, k - 1)
  <2>1. OfRoot(r, l, k - 1)' = {q \in 1 .. k : q \in Pixels /\ label[q] # 0 /\ r[label[q]] = l}
    <3>1. k' - 1 = k
      BY <1>2, <1>5
    <3> QED
      BY <1>2, <3>1 DEF OfRoot
  <2>2. 1 .. k = (1 .. k - 1) \cup {k}
    BY <1>5
  <2>3. r[label[k]] = c
    BY <1>3, <1>4
  <2> QED
    BY <1>3, <2>1, <2>2, <2>3 DEF OfRoot
<1>10. Measured(r)'
  <2>1. \A comp, C : Measures(comp, C)' <=> Measures(comp, C)
    BY <1>2, MeasuresKept
  <2>2. /\ DOMAIN comps = DOMAIN parent
        /\ \A l \in DOMAIN parent : Measures(comps[l], OfRoot(r, l, k - 1))
    BY <1>1, <1>2 DEF Measured
  <2>3. /\ DOMAIN comps' = DOMAIN parent
        /\ \A l \in DOMAIN parent : comps'[l] = IF l = c THEN With(comps[c], k) ELSE comps[l]
    BY <1>2, <1>4, <2>2
  <2>4. Measures(With(comps[c], k), OfRoot(r, c, k - 1) \cup {k})
    <3>1. /\ OfRoot(r, c, k - 1) \in SUBSET (1 .. k - 1)
          /\ OfRoot(r, c, k - 1) \subseteq Pixels
          /\ \A p \in OfRoot(r, c, k - 1) : Bright(p)
      BY <1>8 DEF OfRoot
    <3>2. Measures(comps[c], OfRoot(r, c, k - 1)) /\ Bright(k)
      BY <1>3, <1>4, <1>8, <2>2
    <3> QED
      BY <1>3, <1>5, <3>1, <3>2, OneMeasuredMore
  <2>5. ASSUME NEW l \in DOMAIN parent PROVE Measures(comps[l], OfRoot(r, l, k - 1))'
    <3>1. CASE l = c
      <4>1. comps'[l] = With(comps[c], k) /\ OfRoot(r, l, k - 1)' = OfRoot(r, c, k - 1) \cup {k}
        BY <1>9, <2>3, <3>1
      <4> QED
        BY <2>1, <2>4, <4>1
    <3>2. CASE l # c
      <4>1. comps'[l] = comps[l] /\ OfRoot(r, l, k - 1)' = OfRoot(r, l, k - 1)
        BY <1>9, <2>3, <3>2
      <4> QED
        BY <2>1, <2>2, <4>1
    <3> QED
      BY <3>1, <3>2
  <2> QED
    BY <1>2, <2>3, <2>5 DEF Measured
<1>11. Collected'
  BY <1>2 DEF Collected
<1> QED
  BY <1>1, <1>2, <1>5, <1>6, <1>7, <1>10, <1>11, LabelsKept

\* The stars are what Brightest makes of the measures.
LEMMA CollectLabels ==
  ASSUME LabelInv, Forest', Collect
  PROVE  LabelInv'
<1>1. PICK r : RootsConnect(r) /\ OnTheWay(r) /\ Measured(r)
  BY DEF LabelInv
<1>2. /\ pc = "measure" /\ k \notin Pixels /\ pc' = "done"
      /\ stars' \in Brightest(FoundStars)
      /\ UNCHANGED <<value, k, label, parent, cursors, comps>>
  BY DEF Collect, FoundStars
<1>3. /\ Width * Height \in Nat /\ k \in Nat /\ k <= Width * Height + 1
  BY ExtractAssumption DEF LabelInv, Forest
<1>4. Seen' = Seen
  BY <1>2 DEF Seen
<1>5. cursors' = <<>>
  BY <1>1, <1>2 DEF OnTheWay
<1>6. OnTheWay(r)'
  BY <1>5 DEF OnTheWay
<1>7. Measured(r)'
  <2>1. \A comp, C : Measures(comp, C)' <=> Measures(comp, C)
    BY <1>2, MeasuresKept
  <2>2. \A l : OfRoot(r, l, k - 1)' = OfRoot(r, l, k - 1)
    BY <1>2 DEF OfRoot
  <2> QED
    BY <1>1, <1>2, <2>1, <2>2 DEF Measured
<1>8. Collected'
  <2>1. \A l : IsStar(l)' <=> IsStar(l)
    BY <1>2 DEF IsStar
  <2>2. FoundStars' = FoundStars
    BY <1>2, <2>1 DEF FoundStars
  <2> QED
    BY <1>2, <2>2 DEF Collected
<1> QED
  BY <1>1, <1>2, <1>3, <1>4, <1>6, <1>7, <1>8, LabelsKept

\* Steps that only start a find, and no step.
LEMMA StillLabels ==
  ASSUME LabelInv, Forest', StartFind \/ LookUp \/ UNCHANGED vars
  PROVE  LabelInv'
<1>1. PICK r : RootsConnect(r) /\ OnTheWay(r) /\ Measured(r)
  BY DEF LabelInv
<1>2. /\ Width * Height \in Nat /\ k \in Nat /\ k <= Width * Height + 1
      /\ pc \in {"label", "measure", "done"}
  BY ExtractAssumption DEF LabelInv, Forest
<1>3. UNCHANGED <<value, pc, k, label, parent, comps, stars>>
  BY DEF StartFind, LookUp, vars
<1>4. /\ Neighbours(k)' = Neighbours(k) /\ (Bright(k)' <=> Bright(k)) /\ Seen' = Seen
  BY <1>3 DEF Neighbours, Left, Above, Bright, Seen
<1>5. Measured(r)'
  BY <1>1, <1>3, MeasuredKept
<1>6. Collected'
  <2>1. \A l : IsStar(l)' <=> IsStar(l)
    BY <1>3 DEF IsStar
  <2>2. FoundStars' = FoundStars
    BY <1>3, <2>1 DEF FoundStars
  <2>3. Collected
    BY DEF LabelInv
  <2> QED
    BY <1>3, <2>2, <2>3 DEF Collected
<1>7. OnTheWay(r)'
  <2>1. CASE StartFind
    <3>1. pc = "label" /\ k \in Pixels /\ Bright(k) /\ cursors' = Neighbours(k)
      BY <2>1 DEF StartFind
    <3> QED
      BY <1>3, <1>4, <3>1 DEF OnTheWay
  <2>2. CASE LookUp
    <3>1. pc = "measure" /\ k \in Pixels /\ label[k] # 0 /\ cursors' = <<label[k]>>
      BY <2>2 DEF LookUp
    <3>2. DOMAIN cursors' = {1} /\ cursors'[1] = label[k]
      BY <3>1
    <3> QED
      BY <1>3, <3>1, <3>2 DEF OnTheWay
  <2>3. CASE UNCHANGED vars
    <3>1. cursors' = cursors
      BY <2>3 DEF vars
    <3> QED
      BY <1>1, <1>3, <1>4, <3>1 DEF OnTheWay
  <2> QED
    BY <2>1, <2>2, <2>3
<1> QED
  BY <1>1, <1>2, <1>3, <1>4, <1>5, <1>6, <1>7, LabelsKept

\* Every step keeps what the labels say and what is measured.
LEMMA StepLabels == LabelInv /\ [Next]_vars => LabelInv'
<1> SUFFICES ASSUME LabelInv, [Next]_vars PROVE LabelInv'
  OBVIOUS
<1>1. Forest'
  BY StepForest DEF LabelInv
<1>2. CASE Find
  BY <1>1, <1>2, FindLabels
<1>3. CASE Dark
  BY <1>1, <1>3, DarkLabels
<1>4. CASE NewLabel
  BY <1>1, <1>4, NewLabels
<1>5. CASE StartFind \/ LookUp \/ UNCHANGED vars
  BY <1>1, <1>5, StillLabels
<1>6. CASE Join
  BY <1>1, <1>6, JoinLabels
<1>7. CASE Labelled
  BY <1>1, <1>7, LabelledLabels
<1>8. CASE Unlabelled
  BY <1>1, <1>8, UnlabelledLabels
<1>9. CASE Measure
  BY <1>1, <1>9, MeasureLabels
<1>10. CASE Collect
  BY <1>1, <1>10, CollectLabels
<1> QED
  BY <1>2, <1>3, <1>4, <1>5, <1>6, <1>7, <1>8, <1>9, <1>10 DEF Next

\* The inductive invariant of both passes.
THEOREM LabelInvariant == Spec => []LabelInv
  BY InitLabels, StepLabels, PTL DEF Spec

\* The pixels of a root are the component of any of them.
LEMMA RootIsComponent ==
  ASSUME LabelInv, NEW r, RootsConnect(r), NEW n \in Nat, n = Seen,
         NEW l, NEW p \in OfRoot(r, l, n)
  PROVE  OfRoot(r, l, n) = Component(p, n)
<1> DEFINE same == {q \in 1 .. n : q \in Pixels /\ label[q] # 0 /\ r[label[q]] = l}
<1>0. same = OfRoot(r, l, n) /\ p \in 1 .. n
  BY DEF OfRoot
<1>1. n <= Width * Height /\ Width * Height \in Nat /\ Pixels = 1 .. Width * Height
  <2>1. k \in Nat /\ Width * Height \in Nat /\ k <= Width * Height + 1
    BY ExtractAssumption DEF LabelInv, Forest
  <2>2. n <= Width * Height
    BY <2>1 DEF Seen
  <2> QED
    BY <2>1, <2>2 DEF Pixels
<1>2. 1 .. n \subseteq Pixels
  BY <1>1
<1>3. p \in same /\ same \in SUBSET (1 .. n) /\ p \in Pixels /\ label[p] # 0 /\ r[label[p]] = l
  BY <1>0
<1>4. Closed(same, n)
  <2> SUFFICES ASSUME NEW q \in 1 .. n, Bright(q), NEW t \in same, Adjacent(q, t)
               PROVE  q \in same
    BY DEF Closed
  <2>1. q \in Pixels /\ t \in Pixels /\ label[t] # 0 /\ r[label[t]] = l
    BY <1>2
  <2>2. label[q] # 0
    BY <2>1 DEF RootsConnect
  <2>3. r[label[q]] = r[label[t]]
    BY <2>1, <2>2 DEF RootsConnect
  <2> QED
    BY <2>1, <2>2, <2>3
<1>5. Component(p, n) \subseteq same
  BY <1>0, <1>3, <1>4, ComponentFacts
<1>6. same \subseteq Component(p, n)
  <2> SUFFICES ASSUME NEW q \in same PROVE q \in Component(p, n)
    OBVIOUS
  <2>1. Connected(p, q, n)
    BY <1>3 DEF RootsConnect
  <2>2. /\ Component(p, n) \in SUBSET (1 .. n) /\ p \in Component(p, n)
        /\ Closed(Component(p, n), n)
    BY <1>0, ComponentFacts
  <2> QED
    BY <2>1, <2>2 DEF Connected
<1> QED
  BY <1>0, <1>5, <1>6

\* After each row of the first pass the labels with a root carry exactly a
\* connected component of the bright pixels seen: no star is cut in two where
\* its outline turns back on itself, no two become one, in an image of any
\* size (simplexy.rs:152-197).
THEOREM LabelsTellStars == Spec => []LabelsAreComponents
<1>1. LabelInv => LabelsAreComponents
  <2> SUFFICES ASSUME LabelInv, pc = "label", cursors = <<>>, k > 1, X(k) = 0,
                      NEW l \in DOMAIN parent, parent[l] = l
               PROVE  LET same == {q \in 1 .. k - 1 : label[q] # 0 /\ RootOf(label[q]) = l}
                      IN same # {} /\ same = Component(Min(same), k - 1)
    BY DEF LabelsAreComponents
  <2> DEFINE same == {q \in 1 .. k - 1 : label[q] # 0 /\ RootOf(label[q]) = l}
  <2>1. PICK r : RootsConnect(r)
    BY DEF LabelInv
  <2>2. PICK n \in Nat : n = k - 1 /\ n = Seen
    <3>1. k \in Nat /\ k >= 1
      BY DEF LabelInv, Forest
    <3> QED
      BY <3>1 DEF Seen
  <2>3. 1 .. n \subseteq Pixels /\ Forest
    <3>1. k \in Nat /\ Width * Height \in Nat /\ k <= Width * Height + 1
      BY ExtractAssumption DEF LabelInv, Forest
    <3> QED
      BY <2>2, <3>1 DEF Pixels, LabelInv
  <2>4. \A q \in 1 .. n : label[q] # 0 => RootOf(label[q]) = r[label[q]]
    BY <2>1, <2>3, RootUnique DEF RootsConnect, Forest
  <2>5. same = OfRoot(r, l, n)
    BY <2>2, <2>3, <2>4 DEF OfRoot
  <2>6. PICK p \in Pixels : label[p] = l
    BY <2>1 DEF RootsConnect
  <2>7. l # 0 /\ r[l] = l
    BY <2>1, <2>3, ElementFacts DEF RootsConnect, IsRootMap, Forest
  <2>8. p \in 1 .. n
    BY <2>1, <2>2, <2>6, <2>7, ExtractAssumption DEF RootsConnect, Pixels
  <2>9. p \in same
    BY <2>5, <2>6, <2>7, <2>8 DEF OfRoot
  <2>10. Min(same) \in same
    <3>1. same \in SUBSET Nat /\ same # {}
      BY <2>2, <2>9
    <3> HIDE DEF same
    <3>2. \E x \in same : \A y \in same : x <= y
      BY <3>1, LeastNatural
    <3> QED
      BY <3>2 DEF Min
  <2> HIDE DEF same
  <2>11. PICK m \in OfRoot(r, l, n) : m = Min(same)
    BY <2>5, <2>10
  <2>12. same = Component(m, n)
    BY <2>1, <2>2, <2>5, RootIsComponent
  <2>13. same # {} /\ same = Component(Min(same), k - 1)
    BY <2>2, <2>9, <2>11, <2>12
  <2> QED
    BY <2>13 DEF same
<1> QED
  BY <1>1, LabelInvariant, PTL

-----------------------------------------------------------------------------
(* The result.                                                              *)

\* The smallest of some numbers.
LEMMA MinIs ==
  ASSUME NEW S \in SUBSET Nat, NEW x \in S, \A y \in S : x <= y
  PROVE  Min(S) = x
<1>1. Min(S) \in S /\ \A y \in S : Min(S) <= y
  BY DEF Min
<1>2. Min(S) <= x /\ x <= Min(S) /\ x \in Nat /\ Min(S) \in Nat
  BY <1>1
<1> QED
  BY <1>2

\* What is measured of the pixels of a component is what a star is listed with.
LEMMA MeasuresRefer ==
  ASSUME value \in Images, NEW C \in SUBSET Pixels, \A p \in C : Bright(p),
         NEW comp, Measures(comp, C)
  PROVE  /\ RefPeak(C) = comp.at /\ RefFlux(C) = comp.flux /\ comp.flux \in Int
         /\ ~OnBorder(comp.at) => comp.at \in C
<1>1. /\ value \in [Pixels -> Int] /\ Width \in Nat \ {0}
      /\ Pixels = 1 .. Width * Height /\ Pixels \subseteq Nat
  BY ExtractAssumption DEF Pixels
<1>2. PosNaN \in Int /\ NegNaN \in Int
  BY ExtractAssumption
<1>3. RefFlux(C) = comp.flux /\ comp.flux \in Int
  <2>1. CASE \E p \in C : /\ value[p] \in NaNs /\ comp.flux = value[p]
                          /\ \A q \in C : value[q] \in NaNs => p <= q
    <3> DEFINE S == {p \in C : value[p] \in NaNs}
    <3>1. PICK p \in S : comp.flux = value[p] /\ \A q \in S : p <= q
      BY <2>1
    <3>2. S \in SUBSET Nat
      BY <1>1
    <3> HIDE DEF S
    <3>3. Min(S) = p
      BY <3>1, <3>2, MinIs
    <3>4. \E q \in C : value[q] \in NaNs
      BY <2>1
    <3>5. p \in Pixels
      BY DEF S
    <3> QED
      BY <1>1, <3>1, <3>3, <3>4, <3>5 DEF RefFlux, S
  <2>2. CASE (\A p \in C : value[p] \notin NaNs) /\ comp.flux = Light(value, C)
    <3>1. RefFlux(C) = Light(value, C)
      BY <2>2 DEF RefFlux
    <3>2. Light(value, C) \in Nat
      BY <2>2, LightIsNoNaN
    <3> QED
      BY <2>2, <3>1, <3>2
  <2> QED
    BY <2>1, <2>2 DEF Measures
<1>4. RefPeak(C) = comp.at /\ (~OnBorder(comp.at) => comp.at \in C)
  <2> DEFINE valued == {p \in C : value[p] \notin NaNs}
             peaks == {p \in valued : \A q \in valued : value[q] <= value[p]}
  <2>1. RefPeak(C) = IF valued = {} THEN 1 ELSE Min(peaks)
    BY DEF RefPeak
  <2>2. CASE /\ comp.at \in C /\ value[comp.at] \notin NaNs /\ comp.peak = value[comp.at]
             /\ \A q \in C : value[q] \notin NaNs =>
                  value[q] < comp.peak \/ (value[q] = comp.peak /\ comp.at <= q)
    <3>1. PICK p \in valued : p = comp.at
      BY <2>2
    <3>2. \A q \in C : value[q] \in Int
      BY <1>1
    <3>3. \A q \in valued : value[q] < value[p] \/ (value[q] = value[p] /\ p <= q)
      BY <2>2, <3>1
    <3>4. p \in peaks
      BY <3>2, <3>3
    <3>5. \A q \in peaks : p <= q
      BY <3>2, <3>3
    <3>6. peaks \in SUBSET Nat
      BY <1>1
    <3> HIDE DEF peaks
    <3>7. Min(peaks) = p
      BY <3>4, <3>5, <3>6, MinIs
    <3> QED
      BY <2>1, <2>2, <3>1, <3>7
  <2>3. CASE (\A p \in C : value[p] \in NaNs) /\ comp.at = 1 /\ comp.peak = NegNaN
    <3>1. RefPeak(C) = 1
      BY <2>1, <2>3
    <3>2. X(1) = 0
      <4>1. PICK zero \in Nat : zero = 1 - 1
        OBVIOUS
      <4>2. PICK q \in Nat, x \in 0 .. Width - 1 : q = zero \div Width /\ x = zero % Width /\ zero = Width * q + x
        BY <1>1, Division
      <4>3. PICK m \in Nat : m = Width * q
        BY <1>1
      <4>4. m = 0 /\ x = 0
        BY <4>1, <4>2, <4>3
      <4> QED
        BY <4>1, <4>2, <4>4 DEF X
    <3> QED
      BY <2>3, <3>1, <3>2 DEF OnBorder
  <2> QED
    BY <2>2, <2>3 DEF Measures
<1> QED
  BY <1>3, <1>4

\* The components of the image and the roots are the same.
LEMMA ComponentsAreRoots ==
  ASSUME LabelInv, pc # "label", NEW r, RootsConnect(r), NEW n \in Nat, n = Width * Height
  PROVE  /\ \A l \in DOMAIN parent : OfRoot(r, l, n) # {} => OfRoot(r, l, n) \in RefComponents
         /\ \A C \in RefComponents :
              \E l \in DOMAIN parent : parent[l] = l /\ OfRoot(r, l, n) = C /\ C # {}
<1>1. Pixels = 1 .. n /\ Seen = n /\ Forest
  BY DEF Pixels, Seen, LabelInv
<1>2. \A l, p : p \in OfRoot(r, l, n) => OfRoot(r, l, n) = Component(p, n)
  BY <1>1, RootIsComponent
<1>3. ASSUME NEW l \in DOMAIN parent, OfRoot(r, l, n) # {} PROVE OfRoot(r, l, n) \in RefComponents
  <2>1. PICK p \in OfRoot(r, l, n) : TRUE
    BY <1>3
  <2>2. p \in Pixels /\ Bright(p)
    BY DEF OfRoot, RootsConnect
  <2>3. OfRoot(r, l, n) = Component(p, Width * Height)
    BY <1>2
  <2> QED
    BY <2>2, <2>3 DEF RefComponents
<1>4. ASSUME NEW C \in RefComponents
      PROVE  \E l \in DOMAIN parent : parent[l] = l /\ OfRoot(r, l, n) = C /\ C # {}
  <2>1. PICK p \in Pixels : Bright(p) /\ C = Component(p, n)
    BY DEF RefComponents
  <2>2. p \in Nat /\ p <= n
    BY <1>1
  <2>3. label[p] # 0 /\ label[p] \in DOMAIN parent
    BY <1>1, <2>1, <2>2 DEF RootsConnect, Forest
  <2>4. PICK l \in DOMAIN parent : l = r[label[p]] /\ parent[l] = l
    BY <2>3 DEF RootsConnect, IsRootMap
  <2>5. p \in OfRoot(r, l, n)
    BY <1>1, <2>3, <2>4 DEF OfRoot
  <2> QED
    BY <1>2, <2>1, <2>4, <2>5
<1> QED
  BY <1>3, <1>4

\* The stars found are the stars of the image, each once.
LEMMA FoundAreStars ==
  ASSUME LabelInv, pc = "done"
  PROVE  /\ FoundStars \in Seq(RefStars)
         /\ \A i, j \in 1 .. Len(FoundStars) : i # j => FoundStars[i] # FoundStars[j]
         /\ \A s \in RefStars : \E i \in 1 .. Len(FoundStars) : FoundStars[i] = s
         /\ \A s \in RefStars : s.flux \in Int
<1>1. PICK r : RootsConnect(r) /\ Measured(r)
  BY DEF LabelInv
<1>2. PICK n \in Nat : n = Width * Height /\ k - 1 = n
  <2>1. /\ Width * Height \in Nat /\ Pixels = 1 .. Width * Height
        /\ k \in Nat /\ k >= 1 /\ k <= Width * Height + 1 /\ k \notin Pixels
    BY ExtractAssumption DEF Pixels, LabelInv, Forest, Collected
  <2> QED
    BY <2>1
<1> DEFINE C(l) == OfRoot(r, l, n)
           places == {l \in DOMAIN parent : IsStar(l)}
           all == [l \in DOMAIN parent |-> [at |-> comps[l].at, flux |-> comps[l].flux]]
           Spot(D) == [at |-> RefPeak(D), flux |-> RefFlux(D)]
           Shines(D) == Cardinality(D) <= MaxPixels /\ ~OnBorder(RefPeak(D))
<1>3. value \in Images /\ Forest /\ Pixels = 1 .. n
  BY <1>2 DEF LabelInv, Pixels
<1>4. \A l \in DOMAIN parent : Measures(comps[l], C(l))
  BY <1>1, <1>2 DEF Measured
<1>5. \A l : C(l) \in SUBSET Pixels /\ \A p \in C(l) : Bright(p) /\ r[label[p]] = l
  BY <1>1 DEF OfRoot, RootsConnect
<1> HIDE DEF C
<1>6. ASSUME NEW l \in DOMAIN parent
      PROVE  /\ RefPeak(C(l)) = comps[l].at /\ RefFlux(C(l)) = comps[l].flux /\ comps[l].flux \in Int
             /\ ~OnBorder(comps[l].at) => comps[l].at \in C(l)
             /\ comps[l].npix = Cardinality(C(l))
  <2>1. Measures(comps[l], C(l)) /\ C(l) \in SUBSET Pixels /\ \A p \in C(l) : Bright(p)
    BY <1>4, <1>5
  <2>2. comps[l].npix = Cardinality(C(l))
    BY <2>1 DEF Measures
  <2> QED
    BY <1>3, <2>1, <2>2, MeasuresRefer
<1>7. /\ \A l \in DOMAIN parent : C(l) # {} => C(l) \in RefComponents
      /\ \A D \in RefComponents : \E l \in DOMAIN parent : parent[l] = l /\ C(l) = D /\ D # {}
  BY <1>1, <1>2, ComponentsAreRoots DEF C
<1>8. \A l \in DOMAIN parent : IsFiniteSet(C(l)) /\ (Cardinality(C(l)) = 0 <=> C(l) = {})
  <2>1. IsFiniteSet(Pixels)
    BY <1>3, FS_Interval
  <2> QED
    BY <1>5, <2>1, FS_Subset, FS_EmptySet
<1>9. RefStars = {Spot(D) : D \in {E \in RefComponents : Shines(E)}}
  BY DEF RefStars
<1>10. \A l \in DOMAIN parent : IsStar(l) <=> parent[l] = l /\ C(l) # {} /\ Shines(C(l))
  BY <1>6, <1>8 DEF IsStar
<1>11. \A l \in DOMAIN parent : all[l] = Spot(C(l))
  BY <1>6
<1> HIDE DEF Shines, Spot
<1>12. \A l \in places : l \in DOMAIN parent /\ all[l] \in RefStars
  BY <1>7, <1>9, <1>10, <1>11
<1>13. ASSUME NEW s \in RefStars PROVE \E l \in places : all[l] = s
  <2>1. PICK D \in RefComponents : Shines(D) /\ s = Spot(D)
    BY <1>9
  <2>2. PICK l \in DOMAIN parent : parent[l] = l /\ C(l) = D /\ D # {}
    BY <1>7
  <2>3. l \in places
    BY <1>10, <2>1, <2>2
  <2> QED
    BY <1>11, <2>1, <2>2, <2>3
<1>14. ASSUME NEW l \in places, NEW m \in places, all[l] = all[m] PROVE l = m
  <2>1. comps[l].at = comps[m].at
    <3>1. all[l].at = comps[l].at /\ all[m].at = comps[m].at
      OBVIOUS
    <3> QED
      BY <1>14, <3>1
  <2>2. comps[l].at \in C(l) /\ comps[m].at \in C(m)
    BY <1>6 DEF IsStar
  <2> QED
    BY <1>5, <2>1, <2>2
<1>15. \A s \in RefStars : s.flux \in Int
  <2> SUFFICES ASSUME NEW s \in RefStars PROVE s.flux \in Int
    OBVIOUS
  <2>1. PICK l \in places : all[l] = s
    BY <1>13
  <2>2. all[l].flux = comps[l].flux
    OBVIOUS
  <2> QED
    BY <1>6, <2>1, <2>2
<1> DEFINE S == {all[l] : l \in DOMAIN parent}
<1>16. all \in Seq(S) /\ Len(all) \in Nat /\ DOMAIN parent = 1 .. Len(all)
  <2>1. PICK len \in Nat : DOMAIN parent = 1 .. len
    BY <1>3 DEF Forest
  <2>2. all \in [1 .. len -> S]
    BY <2>1
  <2> HIDE DEF all, S
  <2> QED
    BY <2>1, <2>2
<1>17. FoundStars = Retain(all, places)
  BY DEF FoundStars
<1> HIDE DEF all, places, S
<1>18. PICK at : Picks(FoundStars, all, places, Len(all), at)
  BY <1>16, <1>17, RetainFacts
<1> DEFINE found == FoundStars
           size == Len(FoundStars)
<1>19. found \in Seq(S) /\ size \in Nat
  BY <1>16, <1>17, RetainFacts, LenProperties
<1>20. /\ at \in [1 .. size -> 1 .. Len(all)]
       /\ \A i \in 1 .. size : at[i] \in places /\ found[i] = all[at[i]]
       /\ \A i, j \in 1 .. size : i < j => at[i] < at[j]
       /\ \A l \in 1 .. Len(all) : l \in places => \E i \in 1 .. size : at[i] = l
  BY <1>18 DEF Picks
<1>21. \A i \in 1 .. size : found[i] \in RefStars
  BY <1>12, <1>20
<1>22. found \in Seq(RefStars)
  BY <1>19, <1>21
<1>23. \A i, j \in 1 .. size : i # j => at[i] # at[j]
  <2> SUFFICES ASSUME NEW i \in 1 .. size, NEW j \in 1 .. size, i # j PROVE at[i] # at[j]
    OBVIOUS
  <2>1. i < j \/ j < i
    BY <1>19
  <2>2. at[i] \in Int /\ at[j] \in Int /\ (at[i] < at[j] \/ at[j] < at[i])
    BY <1>20, <2>1
  <2> QED
    BY <2>2
<1>24. \A i, j \in 1 .. size : i # j => found[i] # found[j]
  BY <1>14, <1>20, <1>23
<1>25. \A s \in RefStars : \E i \in 1 .. size : found[i] = s
  <2> SUFFICES ASSUME NEW s \in RefStars PROVE \E i \in 1 .. size : found[i] = s
    OBVIOUS
  <2>1. PICK l \in places : all[l] = s
    BY <1>13
  <2>2. l \in 1 .. Len(all)
    BY <1>12, <1>16
  <2> QED
    BY <1>20, <2>1, <2>2
<1> QED
  BY <1>15, <1>22, <1>24, <1>25

\* The brightest of some stars: as many as wanted, no other is brighter.
LEMMA BrightestFacts ==
  ASSUME NEW S, NEW found \in Seq(S), NEW result \in Brightest(found),
         \A i \in 1 .. Len(found) : found[i].flux \in Int
  PROVE  /\ DOMAIN result = 1 .. Lower(Len(found), MaxStars)
         /\ result \in Seq(S)
         /\ \A n \in DOMAIN result : \E i \in 1 .. Len(found) : result[n] = found[i]
         /\ \A m, n \in DOMAIN result : m < n =>
              /\ result[m].flux >= result[n].flux
              /\ \E i, j \in 1 .. Len(found) : i # j /\ result[m] = found[i] /\ result[n] = found[j]
         /\ \A i \in 1 .. Len(found) :
              \/ \E n \in DOMAIN result : result[n] = found[i]
              \/ \A n \in DOMAIN result : found[i].flux <= result[n].flux
<1> DEFINE size == Len(found)
           most == Lower(size, MaxStars)
           Before(i, j) == found[i].flux > found[j].flux \/ (found[i].flux = found[j].flux /\ i < j)
<1>1. size \in Nat /\ DOMAIN found = 1 .. size /\ MaxStars \in Nat
  BY LenProperties, ExtractAssumption
<1>2. most \in Nat /\ most <= size
  BY <1>1 DEF Lower
<1>3. PICK order \in [1 .. size -> 1 .. size] :
        /\ \A i, j \in 1 .. size : i < j => Before(order[i], order[j])
        /\ result = [n \in 1 .. most |-> found[order[n]]]
  BY <1>1 DEF Brightest
<1> HIDE DEF most
<1>4. DOMAIN result = 1 .. most /\ \A n \in 1 .. most : result[n] = found[order[n]] /\ n \in 1 .. size
  BY <1>1, <1>2, <1>3
<1>5. \A n \in 1 .. size : order[n] \in 1 .. size /\ found[order[n]] \in S
  BY <1>1, <1>3
<1>6. result \in Seq(S)
  <2>1. result \in [1 .. most -> S]
    BY <1>3, <1>4, <1>5
  <2> QED
    BY <1>2, <2>1
<1>7. \A i, j \in 1 .. size : i < j =>
        order[i] # order[j] /\ found[order[i]].flux >= found[order[j]].flux
  <2> SUFFICES ASSUME NEW i \in 1 .. size, NEW j \in 1 .. size, i < j
               PROVE  order[i] # order[j] /\ found[order[i]].flux >= found[order[j]].flux
    OBVIOUS
  <2>1. PICK a \in 1 .. size, b \in 1 .. size : a = order[i] /\ b = order[j]
    BY <1>5
  <2>2. PICK f \in Int, g \in Int : f = found[a].flux /\ g = found[b].flux
    OBVIOUS
  <2>3. f > g \/ (f = g /\ a < b)
    BY <1>3, <2>1, <2>2
  <2>4. f >= g /\ a # b
    BY <2>1, <2>2, <2>3
  <2> QED
    BY <2>1, <2>2, <2>4
\* The order is a permutation: it leaves out no star.
<1>8. \A i \in 1 .. size : \E n \in 1 .. size : order[n] = i
  <2> DEFINE T == 1 .. size
  <2>1. IsFiniteSet(T)
    BY <1>1, FS_Interval
  <2>2. order \in Injection(T, T)
    <3>1. \A i, j \in T : order[i] = order[j] => i = j
      <4> SUFFICES ASSUME NEW i \in T, NEW j \in T, i # j PROVE order[i] # order[j]
        OBVIOUS
      <4>1. i < j \/ j < i
        BY <1>1
      <4> QED
        BY <1>7, <4>1
    <3> QED
      BY <1>3, <3>1 DEF Injection, IsInjective
  <2> HIDE DEF T
  <2>3. order \in Surjection(T, T)
    BY <2>1, <2>2, FS_Injection
  <2> QED
    BY <2>3 DEF Surjection, T
<1>9. \A m, n \in 1 .. most : m < n =>
        /\ result[m].flux >= result[n].flux
        /\ \E i, j \in 1 .. size : i # j /\ result[m] = found[i] /\ result[n] = found[j]
  BY <1>4, <1>5, <1>7
<1>10. ASSUME NEW i \in 1 .. size
       PROVE  \/ \E n \in 1 .. most : result[n] = found[i]
              \/ \A n \in 1 .. most : found[i].flux <= result[n].flux
  <2>1. PICK m \in 1 .. size : order[m] = i
    BY <1>8
  <2>2. CASE m <= most
    BY <1>4, <2>1, <2>2
  <2>3. CASE ~(m <= most)
    <3> SUFFICES ASSUME NEW n \in 1 .. most PROVE found[i].flux <= result[n].flux
      OBVIOUS
    <3>1. n \in 1 .. size /\ n < m
      BY <1>1, <1>2, <2>3
    <3>2. found[order[n]].flux >= found[i].flux
      BY <1>7, <2>1, <3>1
    <3>3. order[n] \in 1 .. size
      BY <1>5, <3>1
    <3>4. found[order[n]].flux \in Int /\ found[i].flux \in Int
      BY <3>3
    <3> QED
      BY <1>4, <3>2, <3>4
  <2> QED
    BY <2>2, <2>3
<1>11. \A n \in 1 .. most : \E i \in 1 .. size : result[n] = found[i]
  BY <1>4, <1>5
<1>12. DOMAIN result = 1 .. most
  BY <1>4
<1>13. \A n \in DOMAIN result : \E i \in 1 .. size : result[n] = found[i]
  BY <1>11, <1>12
<1>14. \A m, n \in DOMAIN result : m < n =>
         /\ result[m].flux >= result[n].flux
         /\ \E i, j \in 1 .. size : i # j /\ result[m] = found[i] /\ result[n] = found[j]
  <2> SUFFICES ASSUME NEW m \in DOMAIN result, NEW n \in DOMAIN result, m < n
               PROVE  /\ result[m].flux >= result[n].flux
                      /\ \E i, j \in 1 .. size :
                           i # j /\ result[m] = found[i] /\ result[n] = found[j]
    OBVIOUS
  <2>1. m \in 1 .. most /\ n \in 1 .. most
    BY <1>12
  <2>2. result[m].flux >= result[n].flux
    BY <1>9, <2>1
  <2>3. \E i, j \in 1 .. size : i # j /\ result[m] = found[i] /\ result[n] = found[j]
    BY <1>9, <2>1
  <2> QED
    BY <2>2, <2>3
<1>15. \A i \in 1 .. size :
         \/ \E n \in DOMAIN result : result[n] = found[i]
         \/ \A n \in DOMAIN result : found[i].flux <= result[n].flux
  BY <1>10, <1>12
<1>16. DOMAIN result = 1 .. Lower(Len(found), MaxStars)
  BY <1>12 DEF most
<1> QED
  BY <1>6, <1>13, <1>14, <1>15, <1>16, Zenon

\* Whatever the image, each of its stars is listed once, with the light of all
\* its pixels and where it is brightest, sorted by light, and a star left out
\* is no brighter than any in the list (simplexy.rs:198-241).
THEOREM StarsTold == Spec => []StarsAreComponents
<1>1. LabelInv => StarsAreComponents
  <2> SUFFICES ASSUME LabelInv, pc = "done" PROVE StarsAreComponents
    BY DEF StarsAreComponents
  <2> DEFINE found == FoundStars
             size == Len(found)
  <2>1. /\ found \in Seq(RefStars) /\ size \in Nat /\ DOMAIN found = 1 .. size
        /\ \A i, j \in 1 .. size : i # j => found[i] # found[j]
        /\ \A s \in RefStars : \E i \in 1 .. size : found[i] = s
        /\ \A i \in 1 .. size : found[i] \in RefStars /\ found[i].flux \in Int
    <3>1. /\ found \in Seq(RefStars)
          /\ \A i, j \in 1 .. size : i # j => found[i] # found[j]
          /\ \A s \in RefStars : \E i \in 1 .. size : found[i] = s
          /\ \A s \in RefStars : s.flux \in Int
      BY FoundAreStars
    <3>2. size \in Nat /\ DOMAIN found = 1 .. size /\ \A i \in 1 .. size : found[i] \in RefStars
      BY <3>1, LenProperties
    <3> QED
      BY <3>1, <3>2
  <2>2. stars \in Brightest(found)
    BY DEF LabelInv, Collected
  <2> HIDE DEF found
  <2>3. /\ DOMAIN stars = 1 .. Lower(size, MaxStars)
        /\ stars \in Seq(RefStars)
        /\ \A n \in DOMAIN stars : \E i \in 1 .. size : stars[n] = found[i]
        /\ \A m, n \in DOMAIN stars : m < n =>
             /\ stars[m].flux >= stars[n].flux
             /\ \E i, j \in 1 .. size : i # j /\ stars[m] = found[i] /\ stars[n] = found[j]
        /\ \A i \in 1 .. size :
             \/ \E n \in DOMAIN stars : stars[n] = found[i]
             \/ \A n \in DOMAIN stars : found[i].flux <= stars[n].flux
    BY <2>1, <2>2, BrightestFacts
  <2>4. Cardinality(RefStars) = size
    <3>1. found \in [1 .. size -> RefStars]
      BY <2>1
    <3>2. found \in Bijection(1 .. size, RefStars)
      <4>1. found \in Injection(1 .. size, RefStars)
        BY <2>1, <3>1 DEF Injection, IsInjective
      <4>2. found \in Surjection(1 .. size, RefStars)
        BY <2>1, <3>1 DEF Surjection
      <4> QED
        BY <4>1, <4>2 DEF Bijection
    <3>3. ExistsBijection(1 .. size, RefStars)
      BY <3>2 DEF ExistsBijection
    <3> HIDE DEF size
    <3> QED
      BY <2>1, <3>3, FS_CountingElements
  <2>5. ToSet(stars) \subseteq RefStars
    BY <2>1, <2>3 DEF ToSet
  <2>6. Len(stars) = Lower(size, MaxStars)
    <3>1. Lower(size, MaxStars) \in Nat
      BY <2>1, ExtractAssumption DEF Lower
    <3> QED
      BY <2>3, <3>1
  <2>7. \A i, j \in DOMAIN stars : i < j => stars[i] # stars[j] /\ stars[i].flux >= stars[j].flux
    BY <2>1, <2>3
  <2>8. \A s \in RefStars \ ToSet(stars) : \A i \in DOMAIN stars : s.flux <= stars[i].flux
    <3> SUFFICES ASSUME NEW s \in RefStars, s \notin ToSet(stars), NEW i \in DOMAIN stars
                 PROVE  s.flux <= stars[i].flux
      OBVIOUS
    <3>1. PICK j \in 1 .. size : found[j] = s
      BY <2>1
    <3>2. ~ \E n \in DOMAIN stars : stars[n] = s
      BY DEF ToSet
    <3> QED
      BY <2>3, <3>1, <3>2
  <2> QED
    BY <2>4, <2>5, <2>6, <2>7, <2>8 DEF StarsAreComponents
<1> QED
  BY <1>1, LabelInvariant, PTL
=============================================================================
