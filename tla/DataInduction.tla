--------------------------- MODULE DataInduction ---------------------------
(***************************************************************************)
(* Induction over the natural numbers in the form of sets, and what it     *)
(* takes to reason about functions that are defined by recursion over the  *)
(* places of a sequence.                                                   *)
(***************************************************************************)
EXTENDS Integers, Sequences, Lists, WellFoundedInduction, SequenceTheorems, TLAPS

\* A nonempty set of natural numbers has a least one.
LEMMA LeastNatural ==
  ASSUME NEW S \in SUBSET Nat, S # {}
  PROVE  \E x \in S : \A y \in S : x <= y
<1> DEFINE R == OpToRel(<, Nat)
<1>1. \A x, y \in Nat : <<x, y>> \in R <=> x < y
  BY DEF OpToRel
<1>2. PICK x \in S : \A y \in S : ~(<<y, x>> \in R)
  <2>1. IsWellFoundedOn(R, Nat)
    BY NatLessThanWellFounded
  <2> HIDE DEF R
  <2> QED
    BY <2>1, WFMin
<1> HIDE DEF R
<1>3. \A y \in S : ~(y < x)
  BY <1>1, <1>2
<1>4. ASSUME NEW y \in S PROVE x <= y
  <2>1. x \in Nat /\ y \in Nat /\ ~(y < x)
    BY <1>3
  <2> QED
    BY <2>1
<1> QED
  BY <1>4

\* A set with 0 and the successors of its members has every natural number.
LEMMA Induction ==
  ASSUME NEW S, 0 \in S, \A n \in Nat : n \in S => n + 1 \in S
  PROVE  \A n \in Nat : n \in S
<1> SUFFICES ASSUME Nat \ S # {} PROVE FALSE
  OBVIOUS
<1>1. PICK x \in Nat \ S : \A y \in Nat \ S : x <= y
  <2> DEFINE T == Nat \ S
  <2>1. T \in SUBSET Nat /\ T # {}
    OBVIOUS
  <2> HIDE DEF T
  <2>2. \E x \in T : \A y \in T : x <= y
    BY <2>1, LeastNatural
  <2> QED
    BY <2>2 DEF T
<1>2. x # 0
  OBVIOUS
<1>3. x - 1 \in Nat /\ (x - 1) + 1 = x /\ ~(x <= x - 1)
  BY <1>2
<1>4. x - 1 \in S
  BY <1>1, <1>3
<1> QED
  BY <1>3, <1>4

\* The same for the first numbers only.
LEMMA BoundedInduction ==
  ASSUME NEW m \in Nat, NEW S, 0 \in S, \A i \in 1 .. m : i - 1 \in S => i \in S
  PROVE  \A i \in 0 .. m : i \in S
<1> DEFINE T == {i \in Nat : i <= m => i \in S}
<1>1. 0 \in T
  OBVIOUS
<1>2. ASSUME NEW i \in Nat, i \in T PROVE i + 1 \in T
  <2>1. CASE i + 1 <= m
    <3>1. i + 1 \in 1 .. m /\ (i + 1) - 1 = i /\ i <= m
      BY <2>1
    <3> QED
      BY <1>2, <3>1
  <2> QED
    BY <2>1
<1> HIDE DEF T
<1>3. \A i \in Nat : i \in T
  BY <1>1, <1>2, Induction
<1> QED
  BY <1>3 DEF T

\* Primitive recursion: a step tells each value from the one before and its
\* number.
Steps(X, n) == [X \X (1 .. n) -> X]
Recurs(f, base, n, step) ==
  f[0] = base /\ \A i \in 1 .. n : f[i] = step[<<f[i - 1], i>>]

LEMMA Recursion ==
  ASSUME NEW X, NEW base \in X, NEW n \in Nat, NEW step \in Steps(X, n)
  PROVE  \E f \in [0 .. n -> X] : Recurs(f, base, n, step)
<1> USE DEF Steps, Recurs
<1> DEFINE Upto(m) ==
      \E f \in [0 .. m -> X] :
        f[0] = base /\ \A i \in 1 .. m : f[i] = step[<<f[i - 1], i>>]
      S == {m \in Nat : Upto(m)}
<1>1. 0 \in S
  <2> DEFINE f == [i \in 0 .. 0 |-> base]
  <2>1. f \in [0 .. 0 -> X] /\ f[0] = base /\ \A i \in 1 .. 0 : FALSE
    OBVIOUS
  <2> HIDE DEF f
  <2>2. Upto(0)
    BY <2>1
  <2> QED
    BY <2>2
<1>2. ASSUME NEW m \in 1 .. n, m - 1 \in S PROVE m \in S
  <2>1. PICK f \in [0 .. m - 1 -> X] :
          f[0] = base /\ \A i \in 1 .. m - 1 : f[i] = step[<<f[i - 1], i>>]
    BY <1>2
  <2>2. m \in Nat /\ m - 1 \in 0 .. m - 1
    OBVIOUS
  <2>3. step[<<f[m - 1], m>>] \in X
    BY <2>1, <2>2
  <2> DEFINE g == [i \in 0 .. m |-> IF i = m THEN step[<<f[m - 1], m>>] ELSE f[i]]
  <2>4. g \in [0 .. m -> X]
    <3>1. \A i \in 0 .. m : i # m => i \in 0 .. m - 1
      OBVIOUS
    <3> QED
      BY <2>1, <2>3, <3>1
  <2>5. g[0] = base
    BY <2>1, <2>2
  <2>6. ASSUME NEW i \in 1 .. m PROVE g[i] = step[<<g[i - 1], i>>]
    <3>1. i - 1 \in 0 .. m /\ i - 1 # m /\ i \in 0 .. m
      OBVIOUS
    <3>2. g[i - 1] = f[i - 1]
      BY <3>1
    <3>3. CASE i = m
      BY <3>1, <3>2, <3>3
    <3>4. CASE i # m
      <4>1. i \in 1 .. m - 1
        BY <3>4
      <4>2. g[i] = f[i]
        BY <3>1, <3>4
      <4> QED
        BY <2>1, <3>2, <4>1, <4>2
    <3> QED
      BY <3>3, <3>4
  <2> HIDE DEF g
  <2>7. Upto(m)
    BY <2>4, <2>5, <2>6
  <2> QED
    BY <2>2, <2>7
<1> HIDE DEF S
<1>3. \A m \in 0 .. n : m \in S
  BY <1>1, <1>2, BoundedInduction
<1>4. n \in S
  BY <1>3
<1> QED
  BY <1>4 DEF S

-----------------------------------------------------------------------------
(* Vec::retain.                                                             *)

\* What a push does to a list.
LEMMA Pushed ==
  ASSUME NEW S, NEW seq \in Seq(S), NEW e \in S
  PROVE  /\ Append(seq, e) \in Seq(S)
         /\ Len(seq) \in Nat /\ Len(Append(seq, e)) = Len(seq) + 1
         /\ \A i \in 1 .. Len(seq) : Append(seq, e)[i] = seq[i]
         /\ Append(seq, e)[Len(seq) + 1] = e
  BY AppendProperties, LenProperties

\* The recursion of Kept has a solution, so it holds of Kept.
LEMMA KeptRecursion ==
  ASSUME NEW S, NEW seq \in Seq(S), NEW places
  PROVE  LET kept == Kept(seq, places)
         IN /\ kept \in [0 .. Len(seq) -> Seq(S)]
            /\ kept[0] = <<>>
            /\ \A n \in 1 .. Len(seq) :
                 kept[n] = IF n \in places THEN Append(kept[n - 1], seq[n]) ELSE kept[n - 1]
<1> DEFINE len == Len(seq)
           step == [p \in Seq(S) \X (1 .. len) |->
                      IF p[2] \in places THEN Append(p[1], seq[p[2]]) ELSE p[1]]
           Eq(f) == f = [n \in 0 .. len |->
                      IF n = 0 THEN <<>>
                      ELSE IF n \in places THEN Append(f[n - 1], seq[n]) ELSE f[n - 1]]
<1>1. len \in Nat /\ \A n \in 1 .. len : seq[n] \in S
  BY LenProperties
<1>2. step \in [Seq(S) \X (1 .. len) -> Seq(S)]
  <2>1. ASSUME NEW p \in Seq(S) \X (1 .. len)
        PROVE  (IF p[2] \in places THEN Append(p[1], seq[p[2]]) ELSE p[1]) \in Seq(S)
    <3>1. p[1] \in Seq(S) /\ p[2] \in 1 .. len /\ seq[p[2]] \in S
      BY <1>1
    <3>2. Append(p[1], seq[p[2]]) \in Seq(S)
      BY <3>1, AppendProperties
    <3> QED
      BY <3>1, <3>2
  <2> QED
    BY <2>1
<1>3. \A p \in Seq(S), n \in 1 .. len :
        step[<<p, n>>] = IF n \in places THEN Append(p, seq[n]) ELSE p
  OBVIOUS
<1> HIDE DEF step, len
<1>4. PICK f \in [0 .. len -> Seq(S)] : Recurs(f, <<>>, len, step)
  <2>1. <<>> \in Seq(S) /\ step \in Steps(Seq(S), len)
    BY <1>2, EmptySeq DEF Steps
  <2> QED
    BY <1>1, <2>1, Recursion
<1>5. \A n \in 1 .. len : f[n] = IF n \in places THEN Append(f[n - 1], seq[n]) ELSE f[n - 1]
  <2> SUFFICES ASSUME NEW n \in 1 .. len
               PROVE  f[n] = IF n \in places THEN Append(f[n - 1], seq[n]) ELSE f[n - 1]
    OBVIOUS
  <2>1. n - 1 \in 0 .. len
    BY <1>1
  <2> QED
    BY <1>3, <1>4, <2>1 DEF Recurs
<1>6. Eq(f)
  <2>1. \A n \in 0 .. len : n # 0 => n \in 1 .. len
    BY <1>1
  <2> QED
    BY <1>4, <1>5, <2>1 DEF Recurs
<1>7. Kept(seq, places) = CHOOSE g : Eq(g)
  BY DEF Kept, len
<1> DEFINE kept == Kept(seq, places)
<1> HIDE DEF kept
<1>8. Eq(kept)
  <2> HIDE DEF Eq
  <2> QED
    BY <1>6, <1>7 DEF kept
<1>9. /\ kept[0] = <<>>
      /\ \A n \in 1 .. len :
           kept[n] = IF n \in places THEN Append(kept[n - 1], seq[n]) ELSE kept[n - 1]
  <2>1. 0 \in 0 .. len /\ \A n \in 1 .. len : n \in 0 .. len /\ n # 0
    BY <1>1
  <2> QED
    BY <1>8, <2>1
<1>10. kept \in [0 .. len -> Seq(S)]
  <2> DEFINE T == {n \in 0 .. len : kept[n] \in Seq(S)}
  <2>1. 0 \in T
    <3>1. <<>> \in Seq(S)
      BY EmptySeq
    <3>2. 0 \in 0 .. len /\ kept[0] \in Seq(S)
      BY <1>1, <1>9, <3>1
    <3> QED
      BY <3>2
  <2>2. ASSUME NEW n \in 1 .. len, n - 1 \in T PROVE n \in T
    <3>1. kept[n - 1] \in Seq(S) /\ seq[n] \in S /\ n \in 0 .. len
      BY <1>1, <2>2 DEF len
    <3>2. Append(kept[n - 1], seq[n]) \in Seq(S)
      BY <3>1, AppendProperties
    <3> QED
      BY <1>9, <3>1, <3>2
  <2> HIDE DEF T
  <2>3. \A n \in 0 .. len : n \in T
    BY <1>1, <2>1, <2>2, BoundedInduction
  <2>4. \A n \in 0 .. len : kept[n] \in Seq(S)
    BY <2>3 DEF T
  <2>5. kept = [n \in 0 .. len |-> kept[n]]
    BY <1>8
  <2> QED
    BY <2>4, <2>5
<1> QED
  BY <1>9, <1>10 DEF kept, len

\* The end of a list, from place a on.
LEMMA Ending ==
  ASSUME NEW S, NEW seq \in Seq(S), NEW a \in 1 .. Len(seq) + 1
  PROVE  LET rest == SubSeq(seq, a, Len(seq))
         IN /\ rest \in Seq(S)
            /\ Len(rest) = Len(seq) - a + 1
            /\ \A i \in 1 .. Len(rest) : rest[i] = seq[a + i - 1]
<1>1. Len(seq) \in Nat /\ a \in Int /\ \A i \in a .. Len(seq) : seq[i] \in S
  BY LenProperties
<1> QED
  BY <1>1, SubSeqProperties

LEMMA EndingOfEnding ==
  ASSUME NEW S, NEW seq \in Seq(S), NEW a \in 1 .. Len(seq),
         NEW n \in 1 .. Len(seq) - a + 1
  PROVE  LET rest == SubSeq(seq, a, Len(seq))
         IN SubSeq(rest, n, Len(rest)) = SubSeq(seq, a + n - 1, Len(seq))
<1> DEFINE rest == SubSeq(seq, a, Len(seq))
           x == SubSeq(rest, n, Len(rest))
           y == SubSeq(seq, a + n - 1, Len(seq))
<1>1. Len(seq) \in Nat
  BY LenProperties
<1>2. a \in 1 .. Len(seq) + 1 /\ a + n - 1 \in 1 .. Len(seq) + 1
  BY <1>1
<1>3. /\ rest \in Seq(S) /\ Len(rest) = Len(seq) - a + 1
      /\ \A i \in 1 .. Len(rest) : rest[i] = seq[a + i - 1]
  BY <1>2, Ending
<1>4. /\ y \in Seq(S) /\ Len(y) = Len(seq) - (a + n - 1) + 1
      /\ \A i \in 1 .. Len(y) : y[i] = seq[(a + n - 1) + i - 1]
  BY <1>2, Ending
<1> HIDE DEF rest, y
<1>5. n \in 1 .. Len(rest) + 1
  BY <1>1, <1>3
<1>6. /\ x \in Seq(S) /\ Len(x) = Len(rest) - n + 1
      /\ \A i \in 1 .. Len(x) : x[i] = rest[n + i - 1]
  BY <1>3, <1>5, Ending
<1> HIDE DEF x
<1>7. Len(x) = Len(y)
  BY <1>1, <1>3, <1>4, <1>6
<1>8. ASSUME NEW i \in 1 .. Len(x) PROVE x[i] = y[i]
  <2>1. n + i - 1 \in 1 .. Len(rest) /\ a + (n + i - 1) - 1 = (a + n - 1) + i - 1
    BY <1>1, <1>3, <1>6
  <2> QED
    BY <1>3, <1>4, <1>6, <1>7, <2>1
<1>9. x = y
  BY <1>4, <1>6, <1>7, <1>8, SeqEqual
<1> QED
  BY <1>9 DEF rest, x, y

LEMMA EndingOfPush ==
  ASSUME NEW S, NEW seq \in Seq(S), NEW e \in S, NEW a \in 1 .. Len(seq) + 1
  PROVE  LET new == Append(seq, e)
         IN Append(SubSeq(seq, a, Len(seq)), e) = SubSeq(new, a, Len(new))
<1> DEFINE new == Append(seq, e)
           rest == SubSeq(seq, a, Len(seq))
           x == Append(rest, e)
           y == SubSeq(new, a, Len(new))
<1>1. /\ new \in Seq(S) /\ Len(seq) \in Nat /\ Len(new) = Len(seq) + 1
      /\ \A i \in 1 .. Len(seq) : new[i] = seq[i]
      /\ new[Len(seq) + 1] = e
  BY Pushed
<1>2. /\ rest \in Seq(S) /\ Len(rest) = Len(seq) - a + 1
      /\ \A i \in 1 .. Len(rest) : rest[i] = seq[a + i - 1]
  BY Ending
<1> HIDE DEF new, rest
<1>3. /\ x \in Seq(S) /\ Len(rest) \in Nat /\ Len(x) = Len(rest) + 1
      /\ \A i \in 1 .. Len(rest) : x[i] = rest[i]
      /\ x[Len(rest) + 1] = e
  <2>1. rest \in Seq(S)
    BY <1>2
  <2> QED
    BY <2>1, Pushed
<1>4. a \in 1 .. Len(new) + 1
  BY <1>1
<1>5. /\ y \in Seq(S) /\ Len(y) = Len(new) - a + 1
      /\ \A i \in 1 .. Len(y) : y[i] = new[a + i - 1]
  BY <1>1, <1>4, Ending
<1> HIDE DEF x, y
<1>6. Len(x) = Len(y)
  BY <1>1, <1>2, <1>3, <1>5
<1>7. ASSUME NEW i \in 1 .. Len(x) PROVE x[i] = y[i]
  <2>1. CASE i \in 1 .. Len(rest)
    <3>1. a + i - 1 \in 1 .. Len(seq)
      BY <1>1, <1>2, <2>1
    <3> QED
      BY <1>1, <1>2, <1>3, <1>5, <1>6, <2>1, <3>1
  <2>2. CASE i = Len(rest) + 1
    <3>1. a + i - 1 = Len(seq) + 1
      BY <1>1, <1>2, <2>2
    <3> QED
      BY <1>1, <1>3, <1>5, <1>6, <2>2, <3>1
  <2> QED
    BY <1>3, <2>1, <2>2
<1>8. x = y
  BY <1>3, <1>5, <1>6, <1>7, SeqEqual
<1> QED
  BY <1>8 DEF x, y, new, rest

\* What is left of the first n elements, in their order: element i stood at
\* place at[i].
Picks(kept, seq, places, n, at) ==
  /\ at \in [1 .. Len(kept) -> 1 .. n]
  /\ \A i \in 1 .. Len(kept) : at[i] \in places /\ kept[i] = seq[at[i]]
  /\ \A i, k \in 1 .. Len(kept) : i < k => at[i] < at[k]
  /\ \A p \in 1 .. n : p \in places => \E i \in 1 .. Len(kept) : at[i] = p

LEMMA KeptPicks ==
  ASSUME NEW S, NEW seq \in Seq(S), NEW places
  PROVE  \A n \in 0 .. Len(seq) : \E at : Picks(Kept(seq, places)[n], seq, places, n, at)
<1> DEFINE len == Len(seq)
           kept == Kept(seq, places)
           T == {n \in 0 .. len : \E at : Picks(kept[n], seq, places, n, at)}
<1>1. /\ len \in Nat
      /\ \A n \in 0 .. len : kept[n] \in Seq(S)
      /\ kept[0] = <<>>
      /\ \A n \in 1 .. len :
           kept[n] = IF n \in places THEN Append(kept[n - 1], seq[n]) ELSE kept[n - 1]
      /\ \A n \in 1 .. len : seq[n] \in S
  BY KeptRecursion, LenProperties
<1> HIDE DEF len, kept
<1>2. 0 \in T
  <2> DEFINE at == [i \in 1 .. 0 |-> 0]
  <2>1. Len(kept[0]) = 0 /\ 0 \in 0 .. len
    BY <1>1
  <2>2. at \in [1 .. 0 -> 1 .. 0] /\ \A i \in 1 .. 0 : FALSE
    OBVIOUS
  <2>3. Picks(kept[0], seq, places, 0, at)
    BY <2>1, <2>2 DEF Picks
  <2> QED
    BY <2>1, <2>3
<1>3. ASSUME NEW n \in 1 .. len, n - 1 \in T PROVE n \in T
  <2>1. PICK before : Picks(kept[n - 1], seq, places, n - 1, before)
    BY <1>3
  <2>2. n - 1 \in 0 .. len /\ n \in 0 .. len /\ n \in Nat
    BY <1>1
  <2>3. PICK old \in Seq(S) : old = kept[n - 1]
    BY <1>1, <2>2
  <2>4. Len(old) \in Nat
    BY <2>3, LenProperties
  <2>5. CASE n \in places
    <3> DEFINE new == Append(old, seq[n])
               at == [i \in 1 .. Len(old) + 1 |-> IF i = Len(old) + 1 THEN n ELSE before[i]]
    <3>1. /\ kept[n] = new /\ Len(new) = Len(old) + 1
          /\ \A i \in 1 .. Len(old) : new[i] = old[i]
          /\ new[Len(old) + 1] = seq[n]
      <4>1. seq[n] \in S /\ kept[n] = new
        BY <1>1, <2>3, <2>5
      <4> QED
        BY <4>1, Pushed
    <3>2. \A i \in 1 .. Len(old) :
            /\ at[i] = before[i] /\ before[i] \in 1 .. n - 1
            /\ before[i] \in places /\ old[i] = seq[before[i]]
      BY <2>1, <2>3, <2>4 DEF Picks
    <3>3. at[Len(old) + 1] = n
      BY <2>4
    <3>4. \A i \in 1 .. Len(old) + 1 : i = Len(old) + 1 \/ i \in 1 .. Len(old)
      BY <2>4
    <3>5. at \in [1 .. Len(old) + 1 -> 1 .. n]
      <4>1. ASSUME NEW i \in 1 .. Len(old) + 1 PROVE at[i] \in 1 .. n
        <5>1. CASE i = Len(old) + 1
          BY <2>2, <3>3, <5>1
        <5>2. CASE i \in 1 .. Len(old)
          <6>1. at[i] \in 1 .. n - 1
            BY <3>2, <5>2
          <6>2. \A x \in 1 .. n - 1 : x \in 1 .. n
            BY <2>2
          <6> QED
            BY <6>1, <6>2
        <5> QED
          BY <3>4, <5>1, <5>2
      <4> QED
        BY <4>1
    <3>6. \A i \in 1 .. Len(old) + 1 : at[i] \in places /\ new[i] = seq[at[i]]
      BY <2>5, <3>1, <3>2, <3>3, <3>4
    <3>7. ASSUME NEW i \in 1 .. Len(old) + 1, NEW k \in 1 .. Len(old) + 1, i < k
          PROVE  at[i] < at[k]
      <4>1. i \in 1 .. Len(old) /\ at[i] \in 1 .. n - 1
        <5>1. i \in 1 .. Len(old)
          BY <2>4, <3>7
        <5> QED
          BY <3>2, <5>1
      <4>2. CASE k = Len(old) + 1
        BY <2>2, <3>3, <4>1, <4>2
      <4>3. CASE k \in 1 .. Len(old)
        <5>1. before[i] < before[k]
          BY <2>1, <2>3, <3>7, <4>1, <4>3 DEF Picks
        <5> QED
          BY <3>2, <4>1, <4>3, <5>1
      <4> QED
        BY <3>4, <4>2, <4>3
    <3>9. ASSUME NEW p \in 1 .. n, p \in places PROVE \E i \in 1 .. Len(old) + 1 : at[i] = p
      <4>1. CASE p = n
        <5>1. Len(old) + 1 \in 1 .. Len(old) + 1
          BY <2>4
        <5> QED
          BY <3>3, <4>1, <5>1
      <4>2. CASE p # n
        <5>1. p \in 1 .. n - 1
          BY <2>2, <4>2
        <5>2. PICK i \in 1 .. Len(old) : before[i] = p
          BY <2>1, <2>3, <3>9, <5>1 DEF Picks
        <5>3. i \in 1 .. Len(old) + 1 /\ at[i] = p
          BY <2>4, <3>2, <5>2
        <5> QED
          BY <5>3
      <4> QED
        BY <4>1, <4>2
    <3> HIDE DEF at, new
    <3>8. Picks(new, seq, places, n, at)
      BY <3>1, <3>5, <3>6, <3>7, <3>9 DEF Picks
    <3> QED
      BY <2>2, <3>1, <3>8
  <2>6. CASE n \notin places
    <3>1. kept[n] = old
      BY <1>1, <2>3, <2>6
    <3>2. before \in [1 .. Len(old) -> 1 .. n]
      <4>1. before \in [1 .. Len(old) -> 1 .. n - 1]
        BY <2>1, <2>3 DEF Picks
      <4>2. \A i \in 1 .. n - 1 : i \in 1 .. n
        BY <2>2
      <4> QED
        BY <4>1, <4>2
    <3>4. ASSUME NEW p \in 1 .. n, p \in places PROVE \E i \in 1 .. Len(old) : before[i] = p
      <4>1. p \in 1 .. n - 1
        BY <2>2, <2>6, <3>4
      <4> QED
        BY <2>1, <2>3, <3>4, <4>1 DEF Picks
    <3>3. Picks(old, seq, places, n, before)
      BY <2>1, <2>3, <3>2, <3>4 DEF Picks
    <3> QED
      BY <2>2, <3>1, <3>3
  <2> QED
    BY <2>5, <2>6
<1> HIDE DEF T
<1>4. \A n \in 0 .. len : n \in T
  BY <1>1, <1>2, <1>3, BoundedInduction
<1> QED
  BY <1>4 DEF T, len, kept

\* What is left is a list of the same kind, in the same order.
LEMMA RetainFacts ==
  ASSUME NEW S, NEW seq \in Seq(S), NEW places
  PROVE  /\ Retain(seq, places) \in Seq(S)
         /\ \E at : Picks(Retain(seq, places), seq, places, Len(seq), at)
<1>1. Len(seq) \in 0 .. Len(seq)
  BY LenProperties
<1> QED
  BY <1>1, KeptRecursion, KeptPicks DEF Retain

\* Nothing changes if every place stays.
LEMMA RetainAll ==
  ASSUME NEW S, NEW seq \in Seq(S), NEW places, 1 .. Len(seq) \subseteq places
  PROVE  Retain(seq, places) = seq
<1> DEFINE len == Len(seq)
           kept == Kept(seq, places)
           T == {n \in 0 .. len : Len(kept[n]) = n /\ \A i \in 1 .. n : kept[n][i] = seq[i]}
<1>1. /\ len \in Nat
      /\ \A n \in 0 .. len : kept[n] \in Seq(S)
      /\ kept[0] = <<>>
      /\ \A n \in 1 .. len : kept[n] = Append(kept[n - 1], seq[n])
      /\ \A n \in 1 .. len : seq[n] \in S
  <2>1. /\ len \in Nat
        /\ \A n \in 0 .. len : kept[n] \in Seq(S)
        /\ kept[0] = <<>>
        /\ \A n \in 1 .. len :
             kept[n] = IF n \in places THEN Append(kept[n - 1], seq[n]) ELSE kept[n - 1]
        /\ \A n \in 1 .. len : seq[n] \in S
    BY KeptRecursion, LenProperties
  <2>2. \A n \in 1 .. len : n \in places
    OBVIOUS
  <2> HIDE DEF len, kept
  <2> QED
    BY <2>1, <2>2
<1> HIDE DEF len, kept
<1>2. 0 \in T
  <2>1. 0 \in 0 .. len /\ Len(kept[0]) = 0 /\ \A i \in 1 .. 0 : FALSE
    BY <1>1
  <2> QED
    BY <2>1
<1>3. ASSUME NEW n \in 1 .. len, n - 1 \in T PROVE n \in T
  <2>1. n - 1 \in 0 .. len /\ n \in 0 .. len /\ n \in Nat
    BY <1>1
  <2>2. PICK old \in Seq(S) : old = kept[n - 1]
    BY <1>1, <2>1
  <2>3. Len(old) = n - 1 /\ \A i \in 1 .. n - 1 : old[i] = seq[i]
    BY <1>3, <2>2
  <2>4. /\ kept[n] = Append(old, seq[n]) /\ Len(Append(old, seq[n])) = Len(old) + 1
        /\ \A i \in 1 .. Len(old) : Append(old, seq[n])[i] = old[i]
        /\ Append(old, seq[n])[Len(old) + 1] = seq[n]
    BY <1>1, <2>2, AppendProperties
  <2>5. Len(kept[n]) = n
    BY <2>1, <2>3, <2>4
  <2>6. ASSUME NEW i \in 1 .. n PROVE kept[n][i] = seq[i]
    <3>1. CASE i = n
      BY <2>1, <2>3, <2>4, <3>1
    <3>2. CASE i \in 1 .. n - 1
      BY <2>1, <2>3, <2>4, <3>2
    <3> QED
      BY <2>1, <3>1, <3>2
  <2> QED
    BY <2>1, <2>5, <2>6
<1> HIDE DEF T
<1>4. len \in T
  <2>1. \A n \in 0 .. len : n \in T
    BY <1>1, <1>2, <1>3, BoundedInduction
  <2> QED
    BY <1>1, <2>1
<1>5. kept[len] \in Seq(S) /\ Len(kept[len]) = len /\ \A i \in 1 .. len : kept[len][i] = seq[i]
  BY <1>1, <1>4 DEF T
<1>6. kept[len] = seq
  BY <1>5, SeqEqual DEF len
<1> QED
  BY <1>6 DEF Retain, kept, len

-----------------------------------------------------------------------------
(* Iterator::sum.                                                           *)

\* The recursion of RunningSum has a solution, so it holds of RunningSum.
LEMMA SumRecursion ==
  ASSUME NEW n \in Nat, NEW f \in [1 .. n -> Int]
  PROVE  LET sum == RunningSum(f, n)
         IN /\ \A i \in 0 .. n : sum[i] \in Int
            /\ sum[0] = 0
            /\ \A i \in 1 .. n : sum[i] = sum[i - 1] + f[i]
<1> DEFINE step == [p \in Int \X (1 .. n) |-> p[1] + f[p[2]]]
           sum == RunningSum(f, n)
           Eq(g) == g = [i \in 0 .. n |-> IF i = 0 THEN 0 ELSE g[i - 1] + f[i]]
<1>1. step \in Steps(Int, n)
  BY DEF Steps
<1>2. \A x \in Int, i \in 1 .. n : step[<<x, i>>] = x + f[i]
  OBVIOUS
<1> HIDE DEF step
<1>3. PICK g \in [0 .. n -> Int] : Recurs(g, 0, n, step)
  <2> DEFINE X == Int
             zero == 0
  <2>1. step \in Steps(X, n) /\ zero \in X
    BY <1>1
  <2> HIDE DEF X, zero
  <2>2. \E g \in [0 .. n -> X] : Recurs(g, zero, n, step)
    BY <2>1, Recursion
  <2> QED
    BY <2>2 DEF X, zero
<1>4. \A i \in 1 .. n : g[i] = g[i - 1] + f[i]
  <2> SUFFICES ASSUME NEW i \in 1 .. n PROVE g[i] = g[i - 1] + f[i]
    OBVIOUS
  <2>1. i - 1 \in 0 .. n /\ g[i - 1] \in Int
    OBVIOUS
  <2> QED
    BY <1>2, <1>3, <2>1 DEF Recurs
<1>5. Eq(g)
  BY <1>3, <1>4 DEF Recurs
<1>6. sum = CHOOSE h : Eq(h)
  BY DEF RunningSum
<1> HIDE DEF sum
<1>7. Eq(sum)
  <2> HIDE DEF Eq
  <2> QED
    BY <1>5, <1>6
<1>8. sum[0] = 0 /\ \A i \in 1 .. n : sum[i] = sum[i - 1] + f[i]
  BY <1>7
<1>9. \A i \in 0 .. n : sum[i] \in Int
  <2> DEFINE T == {i \in 0 .. n : sum[i] \in Int}
  <2>1. 0 \in T
    BY <1>8
  <2>2. ASSUME NEW i \in 1 .. n, i - 1 \in T PROVE i \in T
    <3>1. sum[i - 1] \in Int /\ f[i] \in Int /\ sum[i] = sum[i - 1] + f[i] /\ i \in 0 .. n
      BY <1>8, <2>2
    <3> QED
      BY <3>1
  <2> HIDE DEF T
  <2>3. \A i \in 0 .. n : i \in T
    BY <2>1, <2>2, BoundedInduction
  <2> QED
    BY <2>3 DEF T
<1> QED
  BY <1>8, <1>9 DEF sum

\* The sum of some of the numbers bounds that of others number by number.
LEMMA SumMonotone ==
  ASSUME NEW n \in Nat, NEW f \in [1 .. n -> Int], NEW g \in [1 .. n -> Int],
         \A i \in 1 .. n : f[i] <= g[i]
  PROVE  \A i \in 0 .. n : RunningSum(f, n)[i] <= RunningSum(g, n)[i]
<1> DEFINE sf == RunningSum(f, n)
           sg == RunningSum(g, n)
           T == {i \in 0 .. n : sf[i] <= sg[i]}
<1>1. /\ \A i \in 0 .. n : sf[i] \in Int /\ sg[i] \in Int
      /\ sf[0] = 0 /\ sg[0] = 0
      /\ \A i \in 1 .. n : sf[i] = sf[i - 1] + f[i] /\ sg[i] = sg[i - 1] + g[i]
  BY SumRecursion
<1> HIDE DEF sf, sg
<1>2. 0 \in T
  BY <1>1
<1>3. ASSUME NEW i \in 1 .. n, i - 1 \in T PROVE i \in T
  <2>1. i - 1 \in 0 .. n /\ i \in 0 .. n
    OBVIOUS
  <2>2. sf[i - 1] \in Int /\ sg[i - 1] \in Int /\ f[i] \in Int /\ g[i] \in Int /\ f[i] <= g[i]
    BY <1>1, <2>1
  <2>3. sf[i - 1] <= sg[i - 1]
    BY <1>3
  <2>4. sf[i] <= sg[i]
    BY <1>1, <2>2, <2>3
  <2> QED
    BY <2>1, <2>4
<1> HIDE DEF T
<1>4. \A i \in 0 .. n : i \in T
  BY <1>2, <1>3, BoundedInduction
<1> QED
  BY <1>4 DEF T, sf, sg

\* Only the first numbers count for the sum of the first.
LEMMA SumPrefix ==
  ASSUME NEW n \in Nat, NEW m \in 0 .. n,
         NEW f \in [1 .. n -> Int], NEW g \in [1 .. m -> Int],
         \A i \in 1 .. m : f[i] = g[i]
  PROVE  \A i \in 0 .. m : RunningSum(f, n)[i] = RunningSum(g, m)[i]
<1> DEFINE sf == RunningSum(f, n)
           sg == RunningSum(g, m)
           T == {i \in 0 .. m : sf[i] = sg[i]}
<1>1. /\ sf[0] = 0 /\ sg[0] = 0 /\ m \in Nat
      /\ \A i \in 1 .. n : sf[i] = sf[i - 1] + f[i]
      /\ \A i \in 1 .. m : sg[i] = sg[i - 1] + g[i]
  <2>1. sf[0] = 0 /\ \A i \in 1 .. n : sf[i] = sf[i - 1] + f[i]
    BY SumRecursion
  <2>2. m \in Nat
    OBVIOUS
  <2>3. sg[0] = 0 /\ \A i \in 1 .. m : sg[i] = sg[i - 1] + g[i]
    BY <2>2, SumRecursion
  <2> QED
    BY <2>1, <2>2, <2>3
<1> HIDE DEF sf, sg
<1>2. 0 \in T
  BY <1>1
<1>3. ASSUME NEW i \in 1 .. m, i - 1 \in T PROVE i \in T
  <2>1. i \in 1 .. n /\ i \in 0 .. m
    OBVIOUS
  <2> QED
    BY <1>1, <1>3, <2>1
<1> HIDE DEF T
<1>4. \A i \in 0 .. m : i \in T
  BY <1>1, <1>2, <1>3, BoundedInduction
<1> QED
  BY <1>4 DEF T, sf, sg

\* A sum of natural numbers is at least each of them.
LEMMA SumBounds ==
  ASSUME NEW n \in Nat, NEW f \in [1 .. n -> Nat]
  PROVE  /\ RunningSum(f, n)[n] \in Nat
         /\ \A i \in 1 .. n : f[i] <= RunningSum(f, n)[n]
<1> DEFINE sum == RunningSum(f, n)
           T == {m \in 0 .. n : sum[m] \in Nat /\ \A i \in 1 .. m : f[i] <= sum[m]}
<1>1. sum[0] = 0 /\ \A i \in 1 .. n : sum[i] = sum[i - 1] + f[i]
  <2>1. f \in [1 .. n -> Int]
    OBVIOUS
  <2> QED
    BY <2>1, SumRecursion
<1> HIDE DEF sum
<1>2. 0 \in T
  BY <1>1
<1>3. ASSUME NEW m \in 1 .. n, m - 1 \in T PROVE m \in T
  <2>1. m \in 0 .. n /\ f[m] \in Nat /\ sum[m] = sum[m - 1] + f[m]
    BY <1>1
  <2>2. sum[m - 1] \in Nat /\ \A i \in 1 .. m - 1 : f[i] <= sum[m - 1]
    BY <1>3
  <2>3. ASSUME NEW i \in 1 .. m PROVE f[i] <= sum[m]
    <3>1. f[i] \in Nat
      OBVIOUS
    <3>2. CASE i = m
      BY <2>1, <2>2, <3>2
    <3>3. CASE i \in 1 .. m - 1
      <4>1. f[i] <= sum[m - 1]
        BY <2>2, <3>3
      <4> QED
        BY <2>1, <2>2, <3>1, <4>1
    <3> QED
      BY <3>2, <3>3
  <2> QED
    BY <2>1, <2>2, <2>3
<1> HIDE DEF T
<1>4. n \in T
  <2>1. \A m \in 0 .. n : m \in T
    BY <1>2, <1>3, BoundedInduction
  <2> QED
    BY <2>1
<1> QED
  BY <1>4 DEF T, sum

\* One number more adds no more than itself.
LEMMA SumOneMore ==
  ASSUME NEW n \in Nat, NEW f \in [1 .. n -> Int], NEW g \in [1 .. n -> Int],
         NEW j \in 1 .. n, NEW x \in Nat,
         \A i \in 1 .. n : i # j => g[i] <= f[i],
         g[j] <= f[j] + x
  PROVE  RunningSum(g, n)[n] <= RunningSum(f, n)[n] + x
<1> DEFINE sf == RunningSum(f, n)
           sg == RunningSum(g, n)
           Extra(i) == IF i >= j THEN x ELSE 0
           T == {i \in 0 .. n : sg[i] <= sf[i] + Extra(i)}
<1>1. /\ \A i \in 0 .. n : sf[i] \in Int /\ sg[i] \in Int
      /\ sf[0] = 0 /\ sg[0] = 0
      /\ \A i \in 1 .. n : sf[i] = sf[i - 1] + f[i] /\ sg[i] = sg[i - 1] + g[i]
  BY SumRecursion
<1> HIDE DEF sf, sg
<1>2. 0 \in T
  BY <1>1
<1>3. ASSUME NEW i \in 1 .. n, i - 1 \in T PROVE i \in T
  <2>1. i - 1 \in 0 .. n /\ i \in 0 .. n
    OBVIOUS
  <2>2. sf[i - 1] \in Int /\ sg[i - 1] \in Int /\ f[i] \in Int /\ g[i] \in Int
    BY <1>1, <2>1
  <2>3. sg[i - 1] <= sf[i - 1] + Extra(i - 1)
    BY <1>3
  <2>4. CASE i = j
    <3>1. Extra(i - 1) = 0 /\ Extra(i) = x /\ g[i] <= f[i] + x
      BY <2>4
    <3>2. sg[i] <= sf[i] + x
      <4>1. sg[i - 1] <= sf[i - 1]
        BY <2>2, <2>3, <3>1
      <4>2. sg[i] = sg[i - 1] + g[i] /\ sf[i] = sf[i - 1] + f[i]
        BY <1>1
      <4> QED
        BY <2>2, <3>1, <4>1, <4>2
    <3> QED
      BY <2>1, <3>1, <3>2
  <2>5. CASE i # j
    <3>1. Extra(i - 1) = Extra(i) /\ Extra(i) \in Int /\ g[i] <= f[i]
      BY <2>5
    <3> HIDE DEF Extra
    <3>2. sg[i] <= sf[i] + Extra(i)
      <4>1. sg[i - 1] <= sf[i - 1] + Extra(i)
        BY <2>3, <3>1
      <4>2. sg[i] = sg[i - 1] + g[i] /\ sf[i] = sf[i - 1] + f[i]
        BY <1>1
      <4>3. PICK e \in Int : e = Extra(i)
        BY <3>1
      <4>4. PICK a \in Int, b \in Int, c \in Int, d \in Int :
              a = sg[i - 1] /\ b = g[i] /\ c = sf[i - 1] /\ d = f[i]
        BY <2>2
      <4>5. a <= c + e /\ b <= d /\ sg[i] = a + b /\ sf[i] = c + d
        BY <3>1, <4>1, <4>2, <4>3, <4>4
      <4>6. sg[i] <= sf[i] + e
        BY <4>5
      <4> QED
        BY <4>3, <4>6
    <3> QED
      BY <2>1, <3>2
  <2> QED
    BY <2>4, <2>5
<1> HIDE DEF T
<1>4. n \in T
  <2>1. \A i \in 0 .. n : i \in T
    BY <1>2, <1>3, BoundedInduction
  <2> QED
    BY <2>1
<1> QED
  BY <1>4 DEF T, sf, sg

\* One number more.
LEMMA SumAdd ==
  ASSUME NEW n \in Nat, NEW f \in [1 .. n -> Int], NEW g \in [1 .. n -> Int],
         NEW j \in 1 .. n, NEW x \in Int,
         \A i \in 1 .. n : i # j => g[i] = f[i],
         g[j] = f[j] + x
  PROVE  RunningSum(g, n)[n] = RunningSum(f, n)[n] + x
<1> DEFINE sf == RunningSum(f, n)
           sg == RunningSum(g, n)
           T == {i \in 0 .. n : sg[i] = IF i >= j THEN sf[i] + x ELSE sf[i]}
<1>1. /\ \A i \in 0 .. n : sf[i] \in Int /\ sg[i] \in Int
      /\ sf[0] = 0 /\ sg[0] = 0
      /\ \A i \in 1 .. n : sf[i] = sf[i - 1] + f[i] /\ sg[i] = sg[i - 1] + g[i]
  BY SumRecursion
<1> HIDE DEF sf, sg
<1>2. 0 \in T
  BY <1>1
<1>3. ASSUME NEW i \in 1 .. n, i - 1 \in T PROVE i \in T
  <2>1. i - 1 \in 0 .. n /\ i \in 0 .. n
    OBVIOUS
  <2>2. PICK a \in Int, b \in Int, c \in Int, d \in Int :
          a = sg[i - 1] /\ b = g[i] /\ c = sf[i - 1] /\ d = f[i]
    BY <1>1, <2>1
  <2>3. sg[i] = a + b /\ sf[i] = c + d
    BY <1>1, <2>2
  <2>4. CASE i = j
    <3>1. a = c /\ b = d + x
      BY <1>3, <2>2, <2>4
    <3> QED
      BY <2>1, <2>3, <2>4, <3>1
  <2>5. CASE i > j
    <3>1. a = c + x /\ b = d
      BY <1>3, <2>2, <2>5
    <3> QED
      BY <2>1, <2>3, <2>5, <3>1
  <2>6. CASE i < j
    <3>1. a = c /\ b = d
      BY <1>3, <2>2, <2>6
    <3> QED
      BY <2>1, <2>3, <2>6, <3>1
  <2> QED
    BY <2>4, <2>5, <2>6
<1> HIDE DEF T
<1>4. n \in T
  <2>1. \A i \in 0 .. n : i \in T
    BY <1>2, <1>3, BoundedInduction
  <2> QED
    BY <2>1
<1> QED
  BY <1>4 DEF T, sf, sg

\* Nothing adds up to nothing.
LEMMA SumOfZeros ==
  ASSUME NEW n \in Nat, NEW f \in [1 .. n -> Int], \A i \in 1 .. n : f[i] = 0
  PROVE  RunningSum(f, n)[n] = 0
<1> DEFINE sum == RunningSum(f, n)
           T == {i \in 0 .. n : sum[i] = 0}
<1>1. sum[0] = 0 /\ \A i \in 1 .. n : sum[i] = sum[i - 1] + f[i]
  BY SumRecursion
<1> HIDE DEF sum
<1>2. 0 \in T
  BY <1>1
<1>3. ASSUME NEW i \in 1 .. n, i - 1 \in T PROVE i \in T
  BY <1>1, <1>3
<1> HIDE DEF T
<1>4. n \in T
  <2>1. \A i \in 0 .. n : i \in T
    BY <1>2, <1>3, BoundedInduction
  <2> QED
    BY <2>1
<1> QED
  BY <1>4 DEF T, sum
=============================================================================
