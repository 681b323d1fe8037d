----------------------------- MODULE AnswerProofs -----------------------------
(***************************************************************************)
(* Proofs about what a solve leaves for its client: the files it stores,   *)
(* for any jobs, forms, sizes and budget, and the FITS file among them,    *)
(* for any uploads, whatever their HDUs and headers.                       *)
(***************************************************************************)
EXTENDS AnswerFiles, SolvedFits, DataInduction

-----------------------------------------------------------------------------
(* The bytes of a list of files.                                            *)

LEMMA ArtifactSize == \A art \in Artifact : art.size \in Nat
  BY FilesAssumption DEF FilesAssumption, Artifact, Kinds

LEMMA SumsFacts ==
  ASSUME NEW seq \in Seq(Artifact)
  PROVE  LET sums == Sums(seq)
         IN /\ Len(seq) \in Nat
            /\ \A n \in 0 .. Len(seq) : sums[n] \in Nat
            /\ sums[0] = 0
            /\ \A n \in 1 .. Len(seq) : seq[n].size \in Nat /\ sums[n] = sums[n - 1] + seq[n].size
<1> DEFINE len == Len(seq)
           size == [n \in 1 .. len |-> seq[n].size]
           sums == Sums(seq)
<1>1. len \in Nat /\ \A n \in 1 .. len : seq[n].size \in Nat /\ size[n] = seq[n].size
  BY LenProperties, ArtifactSize
<1>2. size \in [1 .. len -> Int]
  BY <1>1
<1>3. sums = RunningSum(size, len)
  BY LenProperties DEF Sums
<1> HIDE DEF size, sums, len
<1>4. sums[0] = 0 /\ \A n \in 1 .. len : sums[n] = sums[n - 1] + seq[n].size
  <2>1. sums[0] = 0 /\ \A n \in 1 .. len : sums[n] = sums[n - 1] + size[n]
    BY <1>1, <1>2, <1>3, SumRecursion
  <2> QED
    BY <1>1, <2>1
<1>5. \A n \in 0 .. len : sums[n] \in Nat
  <2> DEFINE T == {n \in 0 .. len : sums[n] \in Nat}
  <2>1. 0 \in T
    BY <1>1, <1>4
  <2>2. ASSUME NEW n \in 1 .. len, n - 1 \in T PROVE n \in T
    <3>1. n \in 0 .. len /\ sums[n - 1] \in Nat /\ seq[n].size \in Nat
      BY <1>1, <2>2
    <3>2. sums[n] = sums[n - 1] + seq[n].size
      BY <1>4
    <3> QED
      BY <3>1, <3>2
  <2> HIDE DEF T
  <2>3. \A n \in 0 .. len : n \in T
    BY <1>1, <2>1, <2>2, BoundedInduction
  <2> QED
    BY <2>3 DEF T
<1> QED
  BY <1>1, <1>4, <1>5 DEF len, sums

\* More files, more bytes.
LEMMA SumsGrow ==
  ASSUME NEW seq \in Seq(Artifact)
  PROVE  \A b \in 0 .. Len(seq) : \A a \in 0 .. b : Sums(seq)[a] <= Sums(seq)[b]
<1> DEFINE len == Len(seq)
           sums == Sums(seq)
           T == {b \in 0 .. len : \A a \in 0 .. b : sums[a] <= sums[b]}
<1>1. /\ len \in Nat /\ \A n \in 0 .. len : sums[n] \in Nat
      /\ \A n \in 1 .. len : sums[n - 1] \in Nat /\ sums[n - 1] <= sums[n]
  <2>1. /\ len \in Nat /\ \A n \in 0 .. len : sums[n] \in Nat
        /\ \A n \in 1 .. len : seq[n].size \in Nat /\ sums[n] = sums[n - 1] + seq[n].size
    BY SumsFacts
  <2> HIDE DEF len, sums
  <2>2. ASSUME NEW n \in 1 .. len PROVE sums[n - 1] \in Nat /\ sums[n - 1] <= sums[n]
    <3>1. n - 1 \in 0 .. len
      BY <2>1
    <3>2. sums[n - 1] \in Nat
      BY <2>1, <3>1
    <3>3. seq[n].size \in Nat /\ sums[n] = sums[n - 1] + seq[n].size
      BY <2>1
    <3> QED
      BY <3>2, <3>3
  <2> QED
    BY <2>1, <2>2
<1> HIDE DEF len, sums
<1>2. 0 \in T
  BY <1>1
<1>3. ASSUME NEW b \in 1 .. len, b - 1 \in T PROVE b \in T
  <2>1. b \in 0 .. len /\ b - 1 \in 0 .. len
    BY <1>1
  <2>2. ASSUME NEW a \in 0 .. b PROVE sums[a] <= sums[b]
    <3>1. a = b \/ a \in 0 .. b - 1
      BY <1>1
    <3>2. a \in 0 .. len
      BY <1>1
    <3> QED
      BY <1>1, <1>3, <2>1, <3>1, <3>2
  <2> QED
    BY <2>1, <2>2
<1> HIDE DEF T
<1>4. \A b \in 0 .. len : b \in T
  BY <1>1, <1>2, <1>3, BoundedInduction
<1> QED
  BY <1>4 DEF T, len, sums

\* The bytes of the end of a list are those of the whole list without those
\* before it.
LEMMA EndingWeight ==
  ASSUME NEW seq \in Seq(Artifact), NEW a \in 1 .. Len(seq) + 1
  PROVE  Weight(SubSeq(seq, a, Len(seq))) = Sums(seq)[Len(seq)] - Sums(seq)[a - 1]
<1> DEFINE len == Len(seq)
           sums == Sums(seq)
           rest == SubSeq(seq, a, len)
           S == {n \in 0 .. Len(rest) : Sums(rest)[n] = sums[a - 1 + n] - sums[a - 1]}
<1>1. /\ len \in Nat /\ \A n \in 0 .. len : sums[n] \in Nat
      /\ \A n \in 1 .. len : seq[n].size \in Nat /\ sums[n] = sums[n - 1] + seq[n].size
  BY SumsFacts
<1>2. /\ rest \in Seq(Artifact) /\ Len(rest) = len - a + 1
      /\ \A i \in 1 .. Len(rest) : rest[i] = seq[a + i - 1]
  BY Ending
<1> HIDE DEF rest
<1>3. /\ \A n \in 0 .. Len(rest) : Sums(rest)[n] \in Nat
      /\ Sums(rest)[0] = 0
      /\ \A n \in 1 .. Len(rest) : Sums(rest)[n] = Sums(rest)[n - 1] + rest[n].size
  BY <1>2, SumsFacts
<1>4. a \in 1 .. len + 1
  OBVIOUS
<1> HIDE DEF len, sums
<1>5. Len(rest) \in Nat /\ a - 1 \in 0 .. len
  BY <1>1, <1>2, <1>4
<1>6. 0 \in S
  BY <1>1, <1>3, <1>5
<1>7. ASSUME NEW n \in 1 .. Len(rest), n - 1 \in S PROVE n \in S
  <2>1. /\ a + n - 1 \in 1 .. len /\ a - 1 + (n - 1) = (a + n - 1) - 1 /\ n \in 0 .. Len(rest)
        /\ a - 1 + n = a + n - 1 /\ (a + n - 1) - 1 \in 0 .. len
    BY <1>1, <1>2, <1>4
  <2>2. Sums(rest)[n - 1] = sums[(a + n - 1) - 1] - sums[a - 1]
    BY <1>7, <2>1
  <2>3. Sums(rest)[n] = Sums(rest)[n - 1] + seq[a + n - 1].size
    BY <1>2, <1>3
  <2>4. sums[a + n - 1] = sums[(a + n - 1) - 1] + seq[a + n - 1].size /\ seq[a + n - 1].size \in Nat
    BY <1>1, <2>1
  <2>5. sums[a - 1] \in Nat /\ sums[(a + n - 1) - 1] \in Nat
    BY <1>1, <1>5, <2>1
  <2>6. Sums(rest)[n] = sums[a - 1 + n] - sums[a - 1]
    BY SMTT(20), <2>1, <2>2, <2>3, <2>4, <2>5
  <2> QED
    BY <2>1, <2>6
<1> HIDE DEF S
<1>8. \A n \in 0 .. Len(rest) : n \in S
  BY <1>5, <1>6, <1>7, BoundedInduction
<1>9. Len(rest) \in 0 .. Len(rest) /\ a - 1 + Len(rest) = len
  BY <1>1, <1>2, <1>4, <1>5
<1>10. Sums(rest)[Len(rest)] = sums[len] - sums[a - 1]
  BY <1>8, <1>9 DEF S
<1> QED
  BY <1>10 DEF Weight, rest, len, sums

\* A file more at the end leaves the sums before it as they are.
LEMMA SumsAppend ==
  ASSUME NEW seq \in Seq(Artifact), NEW art \in Artifact
  PROVE  /\ \A n \in 0 .. Len(seq) : Sums(Append(seq, art))[n] = Sums(seq)[n]
         /\ Sums(Append(seq, art))[Len(seq) + 1] = Sums(seq)[Len(seq)] + art.size
<1> DEFINE len == Len(seq)
           new == Append(seq, art)
           T == {n \in 0 .. len : Sums(new)[n] = Sums(seq)[n]}
<1>1. /\ new \in Seq(Artifact) /\ len \in Nat /\ Len(new) = len + 1
      /\ \A i \in 1 .. len : new[i] = seq[i]
      /\ new[len + 1] = art
  BY Pushed
<1> HIDE DEF new
<1>2. /\ Sums(seq)[0] = 0
      /\ \A n \in 1 .. len : Sums(seq)[n] = Sums(seq)[n - 1] + seq[n].size
  BY SumsFacts
<1>3. /\ Sums(new)[0] = 0
      /\ \A n \in 1 .. len + 1 : Sums(new)[n] = Sums(new)[n - 1] + new[n].size
  BY <1>1, SumsFacts
<1> HIDE DEF len
<1>4. 0 \in T
  BY <1>1, <1>2, <1>3
<1>5. ASSUME NEW n \in 1 .. len, n - 1 \in T PROVE n \in T
  <2>1. n \in 0 .. len /\ n \in 1 .. len + 1
    BY <1>1
  <2> QED
    BY <1>1, <1>2, <1>3, <1>5, <2>1
<1> HIDE DEF T
<1>6. \A n \in 0 .. len : Sums(new)[n] = Sums(seq)[n]
  <2>1. \A n \in 0 .. len : n \in T
    BY <1>1, <1>4, <1>5, BoundedInduction
  <2> QED
    BY <2>1 DEF T
<1>7. Sums(new)[len + 1] = Sums(new)[len] + art.size
  <2>1. len + 1 \in 1 .. len + 1 /\ (len + 1) - 1 = len
    BY <1>1
  <2> QED
    BY <1>1, <1>3, <2>1
<1>8. len \in 0 .. len
  BY <1>1
<1> QED
  BY <1>6, <1>7, <1>8 DEF new, len

-----------------------------------------------------------------------------
(* put_artifact                                                             *)

\* Evicting takes files off the front, none too many and none too few.
LEMMA EvictFacts ==
  ASSUME NEW seq \in Seq(Artifact), seq # <<>>
  PROVE  \E n \in 1 .. Len(seq) :
           /\ Evict(seq) = SubSeq(seq, n, Len(seq))
           /\ n < Len(seq) => Weight(SubSeq(seq, n, Len(seq))) <= Budget
           /\ n > 1 => Weight(SubSeq(seq, n - 1, Len(seq))) > Budget
<1> DEFINE len == Len(seq)
           W(n) == Weight(SubSeq(seq, n, len))
           fits == {n \in 1 .. len : W(n) <= Budget}
<1>1. len \in Nat \ {0} /\ Budget \in Nat
  BY EmptySeq, FilesAssumption DEF FilesAssumption
<1>2. \A n \in 1 .. len : W(n) \in Int
  <2>1. /\ \A n \in 0 .. len : Sums(seq)[n] \in Nat
        /\ \A n \in 1 .. len + 1 : W(n) = Sums(seq)[len] - Sums(seq)[n - 1]
    BY SumsFacts, EndingWeight
  <2> HIDE DEF len, W
  <2>2. len \in 0 .. len /\ \A n \in 1 .. len : n \in 1 .. len + 1 /\ n - 1 \in 0 .. len
    BY <1>1
  <2> QED
    BY SMTT(20), <2>1, <2>2
<1>3. Evict(seq) = SubSeq(seq, IF fits = {} THEN len ELSE Min(fits), len)
  BY DEF Evict
<1> HIDE DEF len, W
<1>4. CASE fits = {}
  <2>1. len \in 1 .. len /\ len - 1 \in 0 .. len /\ (len > 1 => len - 1 \in 1 .. len)
    BY <1>1
  <2>2. len > 1 => W(len - 1) > Budget
    BY <1>1, <1>2, <1>4, <2>1
  <2>3. ~(len < len)
    BY <1>1
  <2> QED
    BY <1>3, <1>4, <2>1, <2>2, <2>3 DEF W, len
<1>5. CASE fits # {}
  <2>1. PICK x \in fits : \A y \in fits : x <= y
    <3>1. fits \in SUBSET Nat
      BY <1>1
    <3> QED
      BY <1>5, <3>1, LeastNatural
  <2>2. PICK m : m = Min(fits)
    OBVIOUS
  <2>3. m \in fits /\ \A y \in fits : m <= y
    <3>1. m = CHOOSE z \in fits : \A y \in fits : z <= y
      BY <2>2 DEF Min
    <3> HIDE DEF fits
    <3> QED
      BY <2>1, <3>1
  <2>4. m \in 1 .. len /\ W(m) <= Budget
    BY <2>3
  <2>5. m > 1 => W(m - 1) > Budget
    <3> SUFFICES ASSUME m > 1 PROVE W(m - 1) > Budget
      OBVIOUS
    <3>1. m - 1 \in 1 .. len /\ ~(m <= m - 1)
      BY <1>1, <2>4
    <3>2. m - 1 \notin fits
      BY <2>3, <3>1
    <3> QED
      BY <1>1, <1>2, <3>1, <3>2
  <2>6. Evict(seq) = SubSeq(seq, m, len)
    BY <1>3, <1>5, <2>2
  <2> QED
    BY <2>4, <2>5, <2>6 DEF W, len
<1> QED
  BY <1>4, <1>5

\* The bytes stored from file n on.
BytesFrom(seq, n) == Sums(seq)[Len(seq)] - Sums(seq)[n - 1]

LEMMA BytesFromEnding ==
  ASSUME NEW seq \in Seq(Artifact), NEW n \in 1 .. Len(seq)
  PROVE  /\ BytesFrom(seq, n) \in Int
         /\ Weight(SubSeq(seq, n, Len(seq))) = BytesFrom(seq, n)
         /\ \A i \in 1 .. n : BytesFrom(seq, i) \in Int /\ BytesFrom(seq, i) >= BytesFrom(seq, n)
<1> DEFINE len == Len(seq)
           sums == Sums(seq)
<1>1. /\ len \in Nat
      /\ \A k \in 0 .. len : sums[k] \in Nat
      /\ \A b \in 0 .. len : \A a \in 0 .. b : sums[a] <= sums[b]
  BY SumsFacts, SumsGrow
<1>2. n \in 1 .. len /\ n \in 1 .. len + 1
  BY <1>1
<1>3. Weight(SubSeq(seq, n, Len(seq))) = BytesFrom(seq, n)
  BY <1>2, EndingWeight DEF BytesFrom
<1> HIDE DEF len, sums
<1>4. ASSUME NEW i \in 1 .. n
      PROVE  sums[len] - sums[i - 1] \in Int /\ sums[len] - sums[i - 1] >= sums[len] - sums[n - 1]
  <2>1. i - 1 \in 0 .. n - 1 /\ n - 1 \in 0 .. len /\ i - 1 \in 0 .. len /\ len \in 0 .. len
    BY <1>1, <1>2
  <2>2. sums[i - 1] <= sums[n - 1] /\ sums[len] \in Nat /\ sums[i - 1] \in Nat /\ sums[n - 1] \in Nat
    BY <1>1, <2>1
  <2> QED
    BY <2>2
<1>5. n \in 1 .. n
  BY <1>2
<1> QED
  BY <1>3, <1>4, <1>5 DEF BytesFrom, len, sums

\* One more file, and no ending weighs less.
LEMMA BytesGrow ==
  ASSUME NEW seq \in Seq(Artifact), NEW art \in Artifact, NEW n \in 1 .. Len(seq)
  PROVE  BytesFrom(Append(seq, art), n) >= BytesFrom(seq, n)
<1> DEFINE len == Len(seq)
           new == Append(seq, art)
<1>1. /\ len \in Nat /\ Len(new) = len + 1 /\ art.size \in Nat
      /\ \A k \in 0 .. len : Sums(seq)[k] \in Nat
      /\ \A k \in 0 .. len : Sums(new)[k] = Sums(seq)[k]
      /\ Sums(new)[len + 1] = Sums(seq)[len] + art.size
  BY SumsFacts, SumsAppend, Pushed, ArtifactSize
<1>2. n \in 1 .. len
  OBVIOUS
<1> HIDE DEF len, new
<1>3. n - 1 \in 0 .. len /\ len \in 0 .. len
  BY <1>1, <1>2
<1>4. /\ Sums(new)[n - 1] = Sums(seq)[n - 1]
      /\ Sums(seq)[n - 1] \in Nat /\ Sums(seq)[len] \in Nat
  BY <1>1, <1>3
<1>5. Sums(new)[len + 1] - Sums(new)[n - 1] >= Sums(seq)[len] - Sums(seq)[n - 1]
  BY <1>1, <1>4
<1> QED
  BY <1>1, <1>5 DEF BytesFrom, len, new

\* The cache holds the last files stored, as many as its budget allows.
Window(seq, all) ==
  \E from \in 1 .. Len(all) + 1 :
    /\ seq = SubSeq(all, from, Len(all))
    /\ all # <<>> => from <= Len(all)
    /\ from > 1 => BytesFrom(all, from - 1) > Budget
    /\ from < Len(all) => BytesFrom(all, from) <= Budget

LEMMA WindowStep ==
  ASSUME NEW all \in Seq(Artifact), NEW seq, Window(seq, all), NEW art \in Artifact
  PROVE  Window(Evict(Append(seq, art)), Append(all, art))
<1> DEFINE new == Append(all, art)
           len == Len(all)
<1>1. PICK from \in 1 .. len + 1 :
        /\ seq = SubSeq(all, from, Len(all))
        /\ from > 1 => from - 1 \in 1 .. len /\ BytesFrom(all, from - 1) > Budget
  <2>1. PICK from \in 1 .. len + 1 :
        /\ seq = SubSeq(all, from, Len(all))
        /\ from > 1 => BytesFrom(all, from - 1) > Budget
    BY DEF Window
  <2>2. len \in Nat
    BY LenProperties
  <2> QED
    BY <2>1, <2>2
<1>2. /\ new \in Seq(Artifact) /\ len \in Nat /\ Len(new) = len + 1
  BY Pushed
<1>3. Append(seq, art) = SubSeq(new, from, Len(new))
  BY <1>1, EndingOfPush
<1>4. from > 1 => BytesFrom(new, from - 1) >= BytesFrom(all, from - 1)
  BY <1>1, BytesGrow
<1>5. from > 1 => BytesFrom(all, from - 1) \in Int
  BY <1>1, BytesFromEnding
<1> HIDE DEF new, len
<1>6. /\ Append(seq, art) \in Seq(Artifact)
      /\ Len(Append(seq, art)) = len - from + 2
  <2>1. from \in 1 .. Len(new) + 1
    BY <1>2
  <2>2. SubSeq(new, from, Len(new)) \in Seq(Artifact)
        /\ Len(SubSeq(new, from, Len(new))) = Len(new) - from + 1
    BY <1>2, <2>1, Ending
  <2> QED
    BY <1>2, <1>3, <2>2
<1>7. Append(seq, art) # <<>>
  BY <1>2, <1>6, EmptySeq
<1> DEFINE cache == Append(seq, art)
<1> HIDE DEF cache
<1>8. PICK n \in 1 .. Len(cache) :
           /\ Evict(cache) = SubSeq(cache, n, Len(cache))
           /\ n < Len(cache) => Weight(SubSeq(cache, n, Len(cache))) <= Budget
           /\ n > 1 => Weight(SubSeq(cache, n - 1, Len(cache))) > Budget
  BY <1>6, <1>7, EvictFacts DEF cache
<1>9. /\ from \in 1 .. Len(new) /\ Len(cache) = Len(new) - from + 1
      /\ n \in 1 .. Len(new) - from + 1 /\ from + n - 1 \in 1 .. Len(new)
      /\ from \in Int /\ n \in Int
  BY <1>2, <1>6, <1>8 DEF cache
<1>10. ASSUME NEW i \in 1 .. Len(cache)
       PROVE  /\ SubSeq(cache, i, Len(cache)) = SubSeq(new, from + i - 1, Len(new))
              /\ Weight(SubSeq(cache, i, Len(cache))) = BytesFrom(new, from + i - 1)
  <2>1. i \in 1 .. Len(new) - from + 1 /\ from + i - 1 \in 1 .. Len(new)
    BY <1>2, <1>9
  <2>2. SubSeq(cache, i, Len(cache)) = SubSeq(new, from + i - 1, Len(new))
    BY <1>2, <1>3, <1>9, <2>1, EndingOfEnding DEF cache
  <2> QED
    BY <1>2, <2>1, <2>2, BytesFromEnding
<1> DEFINE start == from + n - 1
<1>11. Evict(cache) = SubSeq(new, start, Len(new))
  BY <1>8, <1>10
<1>12. start < Len(new) => BytesFrom(new, start) <= Budget
  <2>1. start < Len(new) => n < Len(cache)
    BY <1>2, <1>9
  <2> QED
    BY <1>8, <1>10, <2>1
<1>13. start > 1 => BytesFrom(new, start - 1) > Budget
  <2>1. CASE n = 1
    <3>1. start = from
      BY <1>9, <2>1
    <3>2. from > 1 => BytesFrom(new, from - 1) > Budget
      <4>1. ASSUME from > 1 PROVE BytesFrom(new, from - 1) > Budget
        <5>1. from - 1 \in 1 .. Len(new) /\ Budget \in Nat
          BY <1>2, <1>9, <4>1, FilesAssumption DEF FilesAssumption
        <5>2. BytesFrom(new, from - 1) \in Int
          BY <1>2, <5>1, BytesFromEnding
        <5> QED
          BY <1>1, <1>4, <1>5, <4>1, <5>1, <5>2
      <4> QED
        BY <4>1
    <3> QED
      BY <3>1, <3>2
  <2>2. CASE n > 1
    <3>1. n - 1 \in 1 .. Len(cache) /\ from + (n - 1) - 1 = start - 1
      BY <1>2, <1>9, <2>2
    <3>2. Weight(SubSeq(cache, n - 1, Len(cache))) = BytesFrom(new, from + (n - 1) - 1)
      BY <1>10, <3>1
    <3> QED
      BY <1>8, <2>2, <3>1, <3>2
  <2> QED
    BY <1>9, <2>1, <2>2
<1>14. start \in 1 .. Len(new) + 1 /\ start <= Len(new)
  BY <1>2, <1>9
<1> HIDE DEF start
<1>15. Window(Evict(cache), new)
  BY <1>11, <1>12, <1>13, <1>14 DEF Window
<1> QED
  BY <1>15 DEF cache, new

-----------------------------------------------------------------------------
(* The handlers.                                                            *)

Stages == Kinds \cup {"answered", "failed"}

\* The outputs a handler may have stored by the time it is at a stage.
Passed(s) ==
  CASE s = "fits" -> {}
    [] s = "skyview" -> {"fits"}
    [] s = "preview" -> {"fits", "skyview"}
    [] s = "answered" -> Kinds
    [] s = "failed" -> {}

FileOf(i, j, k) == puts[i].job = j /\ puts[i].kind = k

\* Every file is stored once, on the way of its handler through the stages.
PutInv ==
  /\ stage \in [Jobs -> Stages]
  /\ puts \in Seq(Artifact)
  /\ \A i \in DOMAIN puts : puts[i].kind \in Passed(stage[puts[i].job])
  /\ \A i, k \in DOMAIN puts : puts[i].job = puts[k].job /\ puts[i].kind = puts[k].kind => i = k

CacheInv == Window(items, puts)

\* What an answer advertises was stored, and what a client did not get any more
\* was followed by more than the budget.
AnswerInv ==
  \A j \in Jobs :
    /\ \A k \in advertised[j] : \E i \in DOMAIN puts : FileOf(i, j, k)
    /\ \A k \in DOMAIN fetched[j] : fetched[j][k] = "404" =>
         \E i \in DOMAIN puts : FileOf(i, j, k) /\ BytesFrom(puts, i) > Budget

\* The histories are kept job by job.
HistoryInv ==
  /\ advertised \in [Jobs -> SUBSET Kinds]
  /\ fetched = [j \in Jobs |-> fetched[j]]

FilesInv == PutInv /\ CacheInv /\ AnswerInv /\ HistoryInv

LEMMA FilesInitInv == FilesInit => FilesInv
<1> SUFFICES ASSUME FilesInit PROVE FilesInv
  OBVIOUS
<1>1. /\ puts = <<>> /\ items = <<>> /\ <<>> \in Seq(Artifact) /\ Len(<<>>) = 0
      /\ DOMAIN puts = {}
  BY EmptySeq DEF FilesInit
<1>2. PutInv
  BY <1>1 DEF FilesInit, PutInv, Stages, Kinds
<1>3. CacheInv
  <2>1. SubSeq(<<>>, 1, 0) = <<>>
    BY SubSeqEmpty
  <2>2. /\ items = SubSeq(puts, 1, Len(puts)) /\ 1 \in 1 .. Len(puts) + 1
        /\ puts = <<>> /\ ~(1 > 1) /\ ~(1 < Len(puts))
    BY <1>1, <2>1
  <2> QED
    BY <2>2 DEF CacheInv, Window
<1>4. AnswerInv /\ HistoryInv
  BY DEF FilesInit, AnswerInv, HistoryInv
<1> QED
  BY <1>2, <1>3, <1>4 DEF FilesInv

\* The file a handler stores, and what becomes of the cache.
LEMMA StoredFile ==
  ASSUME FilesInv, NEW j \in Jobs, Store(j)
  PROVE  \E art \in Artifact :
           /\ art.job = j /\ art.kind = stage[j] /\ stage[j] \in Kinds
           /\ puts' = Append(puts, art)
           /\ items' = Evict(Append(items, art))
<1>1. PICK size \in Sizes[stage[j]] : Put([job |-> j, kind |-> stage[j], size |-> size])
  BY DEF Store
<1>2. stage[j] \in Kinds
  BY FilesAssumption DEF Store, FilesAssumption
<1>3. PICK art \in Artifact : art = [job |-> j, kind |-> stage[j], size |-> size]
  BY <1>2 DEF Artifact
<1> DEFINE others == {n \in DOMAIN items : ~(items[n].job = art.job /\ items[n].kind = art.kind)}
<1>4. /\ puts' = Append(puts, art)
      /\ items' = Evict(Append(Retain(items, others), art))
  BY <1>1, <1>3 DEF Put
<1>5. PICK from \in 1 .. Len(puts) + 1 : items = SubSeq(puts, from, Len(puts))
  BY DEF FilesInv, CacheInv, Window
<1>6. /\ items \in Seq(Artifact) /\ Len(items) = Len(puts) - from + 1
      /\ \A i \in 1 .. Len(items) : items[i] = puts[from + i - 1]
  <2>1. puts \in Seq(Artifact)
    BY DEF FilesInv, PutInv
  <2> QED
    BY <1>5, <2>1, Ending
<1>7. DOMAIN items = 1 .. Len(items) /\ DOMAIN puts = 1 .. Len(puts) /\ Len(puts) \in Nat
  <2>1. puts \in Seq(Artifact)
    BY DEF FilesInv, PutInv
  <2> QED
    BY <1>6, <2>1, LenProperties
<1>8. \A n \in 1 .. Len(items) : n \in others
  <2> SUFFICES ASSUME NEW n \in 1 .. Len(items), items[n].job = j, items[n].kind = stage[j]
               PROVE  FALSE
    BY <1>3, <1>7
  <2>1. from + n - 1 \in DOMAIN puts /\ items[n] = puts[from + n - 1]
    <3>1. PICK last \in Nat, length \in Nat :
            last = Len(puts) /\ length = Len(items) /\ length = last - from + 1
      BY <1>6, <1>7, LenProperties
    <3>2. from + n - 1 \in 1 .. last
      <4>1. from \in 1 .. last + 1 /\ n \in 1 .. length
        BY <3>1
      <4> QED
        BY <3>1, <4>1
    <3> QED
      BY SMTT(20), <1>6, <1>7, <3>1, <3>2
  <2>2. stage[j] \in Passed(stage[j])
    BY <2>1 DEF FilesInv, PutInv
  <2> QED
    BY <1>2, <2>2 DEF Passed, Kinds
<1> HIDE DEF others
<1>9. Retain(items, others) = items
  BY <1>6, <1>8, RetainAll
<1> QED
  BY <1>2, <1>3, <1>4, <1>9

LEMMA StoreFiles ==
  ASSUME FilesInv, NEW j \in Jobs, Store(j)
  PROVE  FilesInv'
<1>1. PICK art \in Artifact :
        /\ art.job = j /\ art.kind = stage[j] /\ stage[j] \in Kinds
        /\ puts' = Append(puts, art)
        /\ items' = Evict(Append(items, art))
  BY StoredFile
<1>2. PICK all \in Seq(Artifact) : all = puts
  BY DEF FilesInv, PutInv
<1> DEFINE new == Append(all, art)
<1>3. /\ new \in Seq(Artifact) /\ Len(all) \in Nat /\ Len(new) = Len(all) + 1
      /\ \A i \in 1 .. Len(all) : new[i] = all[i]
      /\ new[Len(all) + 1] = art
  BY <1>2, Pushed
<1>4. DOMAIN all = 1 .. Len(all) /\ DOMAIN new = 1 .. Len(all) + 1
  BY <1>3, LenProperties
<1>5. \A i \in DOMAIN all : BytesFrom(new, i) >= BytesFrom(all, i)
                            /\ BytesFrom(new, i) \in Int /\ BytesFrom(all, i) \in Int
  <2> SUFFICES ASSUME NEW i \in 1 .. Len(all)
               PROVE  BytesFrom(new, i) >= BytesFrom(all, i)
                            /\ BytesFrom(new, i) \in Int /\ BytesFrom(all, i) \in Int
    BY <1>4
  <2>1. i \in 1 .. Len(new)
    BY <1>3
  <2> QED
    BY <1>3, <2>1, BytesGrow, BytesFromEnding
<1> HIDE DEF new
<1>6. puts' = new
  BY <1>1, <1>2 DEF new
<1>7. /\ stage' = [stage EXCEPT ![j] = NextStage(stage[j])]
      /\ advertised' = [advertised EXCEPT ![j] = @ \cup {stage[j]}]
      /\ fetched' = fetched
      /\ NextStage(stage[j]) \in Stages
      /\ Passed(NextStage(stage[j])) = Passed(stage[j]) \cup {stage[j]}
      /\ stage[j] \notin Passed(stage[j])
  BY <1>1 DEF Store, NextStage, Stages, Kinds, Passed
<1>8. PutInv'
  <2>1. stage' \in [Jobs -> Stages] /\ stage'[j] = NextStage(stage[j])
        /\ \A s \in Jobs : s # j => stage'[s] = stage[s]
    BY <1>7 DEF FilesInv, PutInv
  <2>2. \A i \in DOMAIN all : all[i].kind \in Passed(stage[all[i].job]) /\ all[i].job \in Jobs
    <3>1. \A i \in DOMAIN all : all[i] \in Artifact
      BY <1>4, ElementOfSeq
    <3> QED
      BY <1>2, <3>1 DEF FilesInv, PutInv, Artifact
  <2>3. \A i \in DOMAIN new : i \in DOMAIN all \/ i = Len(all) + 1
    BY <1>3, <1>4
  <2>4. ASSUME NEW i \in DOMAIN new PROVE new[i].kind \in Passed(stage'[new[i].job])
    <3>1. CASE i \in DOMAIN all
      <4>1. new[i] = all[i]
        BY <1>3, <1>4, <3>1
      <4> QED
        BY <1>7, <2>1, <2>2, <3>1, <4>1
    <3>2. CASE i = Len(all) + 1
      BY <1>1, <1>3, <1>7, <2>1, <3>2
    <3> QED
      BY <2>3, <3>1, <3>2
  <2>5. \A i \in DOMAIN all : ~(all[i].job = art.job /\ all[i].kind = art.kind)
    BY <1>1, <1>7, <2>2
  <2>6. \A i, k \in DOMAIN all : all[i].job = all[k].job /\ all[i].kind = all[k].kind => i = k
    BY <1>2 DEF FilesInv, PutInv
  <2>7. ASSUME NEW i \in DOMAIN new, NEW k \in DOMAIN new,
               new[i].job = new[k].job, new[i].kind = new[k].kind
        PROVE  i = k
    <3>1. \A n \in DOMAIN all : new[n] = all[n]
      BY <1>3, <1>4
    <3>2. CASE i \in DOMAIN all /\ k \in DOMAIN all
      BY <2>6, <2>7, <3>1, <3>2
    <3>3. CASE i \in DOMAIN all /\ k = Len(all) + 1
      BY <1>3, <2>5, <2>7, <3>1, <3>3
    <3>4. CASE i = Len(all) + 1 /\ k \in DOMAIN all
      BY <1>3, <2>5, <2>7, <3>1, <3>4
    <3> QED
      BY <2>3, <3>2, <3>3, <3>4
  <2> QED
    BY <1>3, <1>6, <2>1, <2>4, <2>7 DEF PutInv
<1>9. CacheInv'
  <2>1. Window(items, all)
    BY <1>2 DEF FilesInv, CacheInv
  <2>2. Window(Evict(Append(items, art)), new)
    BY <2>1, WindowStep DEF new
  <2>3. CacheInv' = Window(items', puts')
    BY DEF CacheInv, Window
  <2> QED
    BY <1>1, <1>6, <2>2, <2>3
<1>10. AnswerInv'
  <2>1. \A i \in DOMAIN all : i \in DOMAIN new /\ new[i] = all[i]
    BY <1>3, <1>4
  <2>2. Len(all) + 1 \in DOMAIN new
    BY <1>3, <1>4
  <2>3. Budget \in Nat
    BY FilesAssumption DEF FilesAssumption
  <2>4. ASSUME NEW s \in Jobs, NEW k \in advertised'[s]
        PROVE  \E i \in DOMAIN new : new[i].job = s /\ new[i].kind = k
    <3>1. CASE s = j /\ k = stage[j]
      BY <1>1, <1>3, <2>2, <3>1
    <3>2. CASE ~(s = j /\ k = stage[j])
      <4>1. k \in advertised[s]
        BY <1>7, <2>4, <3>2 DEF FilesInv, HistoryInv
      <4>2. PICK i \in DOMAIN all : all[i].job = s /\ all[i].kind = k
        BY <1>2, <4>1 DEF FilesInv, AnswerInv, FileOf
      <4> QED
        BY <2>1, <4>2
    <3> QED
      BY <3>1, <3>2
  <2>5. ASSUME NEW s \in Jobs, NEW k \in DOMAIN fetched[s], fetched[s][k] = "404"
        PROVE  \E i \in DOMAIN new : new[i].job = s /\ new[i].kind = k /\ BytesFrom(new, i) > Budget
    <3>1. PICK i \in DOMAIN all : all[i].job = s /\ all[i].kind = k /\ BytesFrom(all, i) > Budget
      BY <1>2, <2>5 DEF FilesInv, AnswerInv, FileOf
    <3>2. BytesFrom(new, i) > Budget
      BY <1>5, <2>3, <3>1
    <3> QED
      BY <2>1, <3>1, <3>2
  <2>6. ASSUME NEW i \in DOMAIN new
        PROVE  /\ i \in DOMAIN puts' /\ puts'[i] = new[i]
               /\ BytesFrom(puts, i)' = BytesFrom(new, i)
    BY <1>6 DEF BytesFrom
  <2>7. ASSUME NEW s \in Jobs, NEW k \in advertised'[s]
        PROVE  \E i \in DOMAIN puts' : FileOf(i, s, k)'
    BY <2>4, <2>6 DEF FileOf
  <2>8. ASSUME NEW s \in Jobs, NEW k \in DOMAIN fetched'[s], fetched'[s][k] = "404"
        PROVE  \E i \in DOMAIN puts' : FileOf(i, s, k)' /\ BytesFrom(puts, i)' > Budget
    <3>1. PICK i \in DOMAIN new : new[i].job = s /\ new[i].kind = k /\ BytesFrom(new, i) > Budget
      BY <1>7, <2>5, <2>8
    <3>2. i \in DOMAIN puts' /\ FileOf(i, s, k)' /\ BytesFrom(puts, i)' = BytesFrom(new, i)
      BY <2>6, <3>1 DEF FileOf
    <3> QED
      BY <3>1, <3>2
  <2> QED
    BY <2>7, <2>8, Zenon DEF AnswerInv
<1>11. HistoryInv'
  BY <1>1, <1>7 DEF FilesInv, HistoryInv
<1> QED
  BY <1>8, <1>9, <1>10, <1>11 DEF FilesInv

\* Answers and their files stay as they are.
LEMMA SameAnswers ==
  ASSUME FilesInv, UNCHANGED <<advertised, puts, fetched>>
  PROVE  AnswerInv' /\ HistoryInv'
<1>1. advertised' = advertised /\ puts' = puts /\ fetched' = fetched
  OBVIOUS
<1>2. HistoryInv'
  BY <1>1 DEF FilesInv, HistoryInv
<1>3. \A i, j, k : FileOf(i, j, k)' = FileOf(i, j, k) /\ BytesFrom(puts, i)' = BytesFrom(puts, i)
  BY <1>1 DEF FileOf, BytesFrom
<1>4. AnswerInv
  BY DEF FilesInv
<1>5. AnswerInv'
  <2>1. ASSUME NEW j \in Jobs, NEW k \in advertised'[j] PROVE \E i \in DOMAIN puts' : FileOf(i, j, k)'
    BY <1>1, <1>3, <1>4, <2>1 DEF AnswerInv
  <2>2. ASSUME NEW j \in Jobs, NEW k \in DOMAIN fetched'[j], fetched'[j][k] = "404"
        PROVE  \E i \in DOMAIN puts' : FileOf(i, j, k)' /\ BytesFrom(puts, i)' > Budget
    BY <1>1, <1>3, <1>4, <2>2 DEF AnswerInv
  <2> QED
    BY <2>1, <2>2, Zenon DEF AnswerInv
<1> QED
  BY <1>2, <1>5

\* An output that is not made leaves the files alone.
LEMMA PassFiles ==
  ASSUME FilesInv, NEW j \in Jobs, Skip(j) \/ Fail(j)
  PROVE  FilesInv'
<1>1. /\ UNCHANGED <<items, advertised, puts, fetched>>
      /\ \E s \in Stages : /\ stage' = [stage EXCEPT ![j] = s]
                           /\ Passed(stage[j]) \subseteq Passed(s)
  BY FilesAssumption DEF Skip, Fail, NextStage, Passed, Kinds, Stages, FilesAssumption
<1>2. PICK s \in Stages : /\ stage' = [stage EXCEPT ![j] = s]
                          /\ Passed(stage[j]) \subseteq Passed(s)
  BY <1>1
<1>3. PutInv'
  <2>1. \A x \in Jobs : Passed(stage[x]) \subseteq Passed(stage'[x])
    BY <1>2 DEF FilesInv, PutInv
  <2>2. \A i \in DOMAIN puts : puts[i].job \in Jobs
    <3>1. puts \in Seq(Artifact)
      BY DEF FilesInv, PutInv
    <3>2. \A i \in DOMAIN puts : puts[i] \in Artifact
      BY <3>1, LenProperties
    <3> QED
      BY <3>2 DEF Artifact
  <2>3. stage' \in [Jobs -> Stages]
    BY <1>2 DEF FilesInv, PutInv
  <2> QED
    BY <1>1, <2>1, <2>2, <2>3 DEF FilesInv, PutInv
<1>4. CacheInv'
  BY <1>1 DEF FilesInv, CacheInv, Window, BytesFrom
<1>5. AnswerInv' /\ HistoryInv'
  BY <1>1, SameAnswers
<1> QED
  BY <1>3, <1>4, <1>5 DEF FilesInv

\* A client is refused only what has left the window of the cache.
LEMMA FetchFiles ==
  ASSUME FilesInv, NEW j \in Jobs, Fetch(j)
  PROVE  FilesInv'
<1>1. PICK k \in advertised[j] \ DOMAIN fetched[j] :
        fetched' = [fetched EXCEPT ![j] =
          [x \in DOMAIN fetched[j] \cup {k} |->
             IF x # k THEN fetched[j][x] ELSE IF Stored(j, k) THEN "served" ELSE "404"]]
  BY DEF Fetch
<1>2. UNCHANGED <<items, stage, advertised, puts>>
  BY DEF Fetch
<1>3. PutInv' /\ CacheInv' /\ HistoryInv'
  BY <1>1, <1>2 DEF FilesInv, PutInv, CacheInv, Window, HistoryInv, BytesFrom
<1>4. ~Stored(j, k) => \E i \in DOMAIN puts : FileOf(i, j, k) /\ BytesFrom(puts, i) > Budget
  <2> SUFFICES ASSUME ~Stored(j, k)
               PROVE  \E i \in DOMAIN puts : FileOf(i, j, k) /\ BytesFrom(puts, i) > Budget
    OBVIOUS
  <2>1. PICK all \in Seq(Artifact) : all = puts
    BY DEF FilesInv, PutInv
  <2>2. Len(all) \in Nat /\ DOMAIN all = 1 .. Len(all)
    BY LenProperties
  <2>3. PICK i \in 1 .. Len(all) : FileOf(i, j, k)
    BY <2>1, <2>2 DEF FilesInv, AnswerInv
  <2>4. PICK from \in 1 .. Len(all) + 1 :
          /\ items = SubSeq(all, from, Len(all))
          /\ from > 1 => BytesFrom(all, from - 1) > Budget
    BY <2>1 DEF FilesInv, CacheInv, Window
  <2>5. i < from
    <3> SUFFICES ASSUME ~(i < from) PROVE FALSE
      OBVIOUS
    <3>1. /\ items \in Seq(Artifact) /\ Len(items) = Len(all) - from + 1
          /\ \A n \in 1 .. Len(items) : items[n] = all[from + n - 1]
      BY <2>4, Ending
    <3>2. DOMAIN items = 1 .. Len(items)
      BY <3>1, LenProperties
    <3>3. i - from + 1 \in 1 .. Len(items) /\ from + (i - from + 1) - 1 = i
      BY <2>2, <3>1
    <3>4. items[i - from + 1] = all[i]
      BY <3>1, <3>3
    <3> QED
      BY <2>1, <2>3, <3>2, <3>3, <3>4 DEF Stored, FileOf
  <2>6. from - 1 \in 1 .. Len(all) /\ i \in 1 .. from - 1 /\ from > 1
    BY <2>2, <2>5
  <2>7. BytesFrom(all, i) >= BytesFrom(all, from - 1) /\ BytesFrom(all, i) \in Int
        /\ BytesFrom(all, from - 1) \in Int
    BY <2>6, BytesFromEnding
  <2>8. Budget \in Nat
    BY FilesAssumption DEF FilesAssumption
  <2>9. BytesFrom(all, i) > Budget
    BY <2>4, <2>6, <2>7, <2>8
  <2> QED
    BY <2>1, <2>2, <2>3, <2>9
<1>5. AnswerInv'
  <2> SUFFICES ASSUME NEW s \in Jobs
               PROVE  /\ \A x \in advertised[s] : \E i \in DOMAIN puts : FileOf(i, s, x)
                      /\ \A x \in DOMAIN fetched'[s] : fetched'[s][x] = "404" =>
                           \E i \in DOMAIN puts : FileOf(i, s, x) /\ BytesFrom(puts, i) > Budget
    BY <1>2 DEF AnswerInv, FileOf, BytesFrom
  <2>1. CASE s # j
    BY <1>1, <2>1 DEF FilesInv, AnswerInv, HistoryInv
  <2>2. CASE s = j
    <3>1. fetched'[j] = [x \in DOMAIN fetched[j] \cup {k} |->
             IF x # k THEN fetched[j][x] ELSE IF Stored(j, k) THEN "served" ELSE "404"]
      BY <1>1 DEF FilesInv, HistoryInv
    <3> QED
      BY <1>4, <2>2, <3>1 DEF FilesInv, AnswerInv
  <2> QED
    BY <2>1, <2>2
<1> QED
  BY <1>3, <1>5 DEF FilesInv

LEMMA FilesStepInv == FilesInv /\ [FilesNext]_filesVars => FilesInv'
<1> SUFFICES ASSUME FilesInv, [FilesNext]_filesVars PROVE FilesInv'
  OBVIOUS
<1>1. ASSUME NEW j \in Jobs, Store(j) PROVE FilesInv'
  BY <1>1, StoreFiles
<1>2. ASSUME NEW j \in Jobs, Skip(j) \/ Fail(j) PROVE FilesInv'
  BY <1>2, PassFiles
<1>3. ASSUME NEW j \in Jobs, Fetch(j) PROVE FilesInv'
  BY <1>3, FetchFiles
<1>4. CASE UNCHANGED filesVars
  <2>1. UNCHANGED <<items, stage, advertised, puts, fetched>>
    BY <1>4 DEF filesVars
  <2>2. PutInv' /\ CacheInv'
    BY <2>1 DEF FilesInv, PutInv, CacheInv, Window, BytesFrom
  <2>3. AnswerInv' /\ HistoryInv'
    BY <2>1, SameAnswers
  <2> QED
    BY <2>2, <2>3 DEF FilesInv
<1> QED
  BY <1>1, <1>2, <1>3, <1>4 DEF FilesNext

-----------------------------------------------------------------------------
\* The inductive invariant of the handlers and the cache.
THEOREM FilesInvariance == FilesSpec => []FilesInv
  BY FilesInitInv, FilesStepInv, PTL DEF FilesSpec

\* No file stays behind that no answer leads to (v1.rs, solve).
THEOREM NothingLeftBehind == FilesSpec => []FailedAnswerLeavesNoFile
<1>1. FilesInv => FailedAnswerLeavesNoFile
  BY DEF FilesInv, PutInv, FailedAnswerLeavesNoFile, Passed
<1> QED
  BY <1>1, FilesInvariance, PTL

\* The cache keeps to its budget, and keeps the newest file (store.rs,
\* put_artifact).
THEOREM BudgetKept == FilesSpec => []WithinBudget
<1>1. FilesInv => WithinBudget
  <2> SUFFICES ASSUME FilesInv PROVE WithinBudget
    OBVIOUS
  <2>1. PICK all \in Seq(Artifact) : all = puts
    BY DEF FilesInv, PutInv
  <2>2. Len(all) \in Nat
    BY LenProperties
  <2>3. PICK from \in 1 .. Len(all) + 1 :
          /\ items = SubSeq(all, from, Len(all))
          /\ all # <<>> => from <= Len(all)
          /\ from < Len(all) => BytesFrom(all, from) <= Budget
    BY <2>1 DEF FilesInv, CacheInv, Window
  <2>4. /\ items \in Seq(Artifact) /\ Len(items) = Len(all) - from + 1
        /\ \A n \in 1 .. Len(items) : items[n] = all[from + n - 1]
    BY <2>3, Ending
  <2>5. CASE all = <<>>
    <3>1. Len(items) = 0
      BY <2>2, <2>3, <2>4, <2>5, EmptySeq
    <3>2. Weight(items) = 0
      BY <2>4, <3>1, SumsFacts DEF Weight
    <3>3. Budget \in Nat
      BY FilesAssumption DEF FilesAssumption
    <3> QED
      BY <2>1, <2>5, <3>2, <3>3 DEF WithinBudget
  <2>6. CASE all # <<>>
    <3>1. from \in 1 .. Len(all) /\ Len(items) \in 1 .. Len(items) /\ from + Len(items) - 1 = Len(all)
      BY <2>2, <2>3, <2>4, <2>6
    <3>2. items[Len(items)] = all[Len(all)]
      BY <2>4, <3>1
    <3>3. items # <<>>
      BY <2>4, <3>1, EmptySeq
    <3>4. Weight(items) <= Budget \/ Len(items) = 1
      <4>1. Weight(items) = BytesFrom(all, from)
        BY <2>3, <3>1, BytesFromEnding
      <4>2. from < Len(all) \/ Len(items) = 1
        BY <2>2, <2>4, <3>1
      <4> QED
        BY <2>3, <4>1, <4>2
    <3> QED
      BY <2>1, <3>2, <3>3, <3>4 DEF WithinBudget
  <2> QED
    BY <2>5, <2>6
<1> QED
  BY <1>1, FilesInvariance, PTL

\* A file is missing only because more than the budget was stored since.
THEOREM OnlyUnderPressure == FilesSpec => []RefusedOnlyUnderPressure
<1>1. FilesInv => RefusedOnlyUnderPressure
  <2> SUFFICES ASSUME FilesInv, NEW j \in Jobs, NEW k \in DOMAIN fetched[j], fetched[j][k] = "404"
               PROVE  /\ \E i \in DOMAIN puts : puts[i].job = j /\ puts[i].kind = k
                      /\ Weight(Since(j, k)) > Budget
    BY DEF RefusedOnlyUnderPressure
  <2>1. PICK all \in Seq(Artifact) : all = puts
    BY DEF FilesInv, PutInv
  <2>2. Len(all) \in Nat /\ DOMAIN all = 1 .. Len(all)
    BY LenProperties
  <2>3. PICK i \in 1 .. Len(all) : all[i].job = j /\ all[i].kind = k /\ BytesFrom(all, i) > Budget
    BY <2>1, <2>2 DEF FilesInv, AnswerInv, FileOf
  <2>4. \A n \in DOMAIN puts : puts[n].job = j /\ puts[n].kind = k => n = i
    BY <2>1, <2>2, <2>3 DEF FilesInv, PutInv
  <2>5. {n \in DOMAIN puts : puts[n].job = j /\ puts[n].kind = k} = {i}
    BY <2>1, <2>2, <2>3, <2>4
  <2>6. Max({i}) = i
    <3>1. i >= i /\ i \in Int
      BY <2>2
    <3> QED
      BY <3>1 DEF Max
  <2>7. Since(j, k) = SubSeq(all, i, Len(all))
    BY <2>1, <2>5, <2>6 DEF Since
  <2>8. Weight(Since(j, k)) = BytesFrom(all, i)
    BY <2>7, BytesFromEnding
  <2> QED
    BY <2>1, <2>2, <2>3, <2>8
<1> QED
  BY <1>1, FilesInvariance, PTL

-----------------------------------------------------------------------------
(* Blocks, and headers in them.                                             *)

\* The blocks that n cells take.
LEMMA PaddedFacts ==
  ASSUME NEW n \in Nat
  PROVE  /\ Padded(n) \in Nat /\ n <= Padded(n) /\ Padded(n) < n + PerBlock
         /\ \E q \in Nat : Padded(n) = q * PerBlock
<1>1. PerBlock \in Nat /\ PerBlock >= 1
  BY FitsAssumption DEF FitsAssumption
<1> DEFINE x == n + PerBlock - 1
           q == x \div PerBlock
<1>2. x \in Nat
  BY <1>1
<1>3. q \in Nat /\ PerBlock * q <= x /\ x < PerBlock * q + PerBlock
  <2> HIDE DEF x
  <2>1. PerBlock \in Nat \ {0}
    BY <1>1
  <2> QED
    BY <1>2, <2>1
<1>4. Padded(n) = q * PerBlock
  BY DEF Padded
<1> HIDE DEF q
<1>5. q * PerBlock = PerBlock * q /\ PerBlock * q \in Nat
  BY <1>1, <1>3
<1> QED
  BY <1>1, <1>3, <1>4, <1>5 DEF x

\* A multiple of the block that is smaller than a block is none.
LEMMA SmallMultiple ==
  ASSUME NEW e \in Int, -PerBlock < e * PerBlock, e * PerBlock < PerBlock
  PROVE  e = 0
<1>1. PerBlock \in Nat /\ PerBlock >= 1 /\ e * PerBlock \in Int
  BY FitsAssumption DEF FitsAssumption
<1>2. CASE e >= 1
  <2>1. PICK f \in Nat : f = e - 1
    <3>1. e - 1 \in Nat
      BY <1>2
    <3> QED
      BY <3>1
  <2>2. f * PerBlock >= 0 /\ f * PerBlock = e * PerBlock - PerBlock
    BY <1>1, <2>1
  <2> QED
    BY <1>1, <2>2
<1>3. CASE e <= -1
  <2>1. PICK f \in Nat : f = -1 - e
    <3>1. -1 - e \in Nat
      BY <1>3
    <3> QED
      BY <3>1
  <2>2. f * PerBlock >= 0 /\ f * PerBlock = -PerBlock - e * PerBlock
    BY <1>1, <2>1
  <2> QED
    BY <1>1, <2>2
<1> QED
  BY <1>2, <1>3

\* Whole blocks more or less do not move the end of a file in its block.
LEMMA SameRemainder ==
  ASSUME NEW x \in Nat, NEW y \in Nat, NEW p \in Nat, NEW q \in Nat,
         y + p * PerBlock = x + q * PerBlock
  PROVE  y % PerBlock = x % PerBlock
<1>1. PerBlock \in Nat /\ PerBlock >= 1
  BY FitsAssumption DEF FitsAssumption
<1>2. ASSUME NEW n \in Nat
      PROVE  \E c \in Nat : n = c * PerBlock + (n % PerBlock) /\ n % PerBlock \in 0 .. PerBlock - 1
  <2>1. n \div PerBlock \in Nat /\ n % PerBlock \in 0 .. PerBlock - 1
        /\ n = PerBlock * (n \div PerBlock) + (n % PerBlock)
    BY <1>1
  <2>2. PICK c \in Nat : c = n \div PerBlock
    BY <2>1
  <2>3. PerBlock * c = c * PerBlock
    BY <1>1
  <2> QED
    BY <2>1, <2>2, <2>3
<1>3. PICK c \in Nat : x = c * PerBlock + (x % PerBlock) /\ x % PerBlock \in 0 .. PerBlock - 1
  BY <1>2
<1>4. PICK d \in Nat : y = d * PerBlock + (y % PerBlock) /\ y % PerBlock \in 0 .. PerBlock - 1
  BY <1>2
<1>5. PICK r \in 0 .. PerBlock - 1, t \in 0 .. PerBlock - 1 : r = x % PerBlock /\ t = y % PerBlock
  BY <1>3, <1>4
<1>6. PICK e \in Int : e = (d + p) - (c + q)
  OBVIOUS
<1>7. e * PerBlock = (d * PerBlock + p * PerBlock) - (c * PerBlock + q * PerBlock)
  BY <1>1, <1>6
<1>8. /\ d * PerBlock \in Int /\ p * PerBlock \in Int
      /\ c * PerBlock \in Int /\ q * PerBlock \in Int /\ e * PerBlock \in Int
  BY <1>1
<1>9. e * PerBlock = r - t
  <2>1. PICK cc \in Int, dd \in Int, pp \in Int, qq \in Int :
          /\ cc = c * PerBlock /\ dd = d * PerBlock
          /\ pp = p * PerBlock /\ qq = q * PerBlock
    BY <1>8
  <2>2. x = cc + r /\ y = dd + t /\ y + pp = x + qq
    BY <1>3, <1>4, <1>5, <2>1
  <2>3. e * PerBlock = (dd + pp) - (cc + qq)
    BY <1>7, <2>1
  <2>4. r \in Int /\ t \in Int
    BY <1>1, <1>5
  <2> QED
    BY SMTT(20), <2>1, <2>2, <2>3, <2>4
<1>10. -PerBlock < e * PerBlock /\ e * PerBlock < PerBlock
  BY <1>1, <1>5, <1>9
<1>11. e = 0
  BY <1>10, SmallMultiple
<1>12. e * PerBlock = 0
  BY <1>1, <1>11
<1>13. r = t
  BY <1>5, <1>9, <1>12
<1> QED
  BY <1>5, <1>13

\* Whole blocks leave no rest.
LEMMA PaddedWhole ==
  ASSUME NEW q \in Nat
  PROVE  (q * PerBlock) % PerBlock = 0
<1>1. PerBlock \in Nat /\ PerBlock >= 1 /\ q * PerBlock \in Nat
  BY FitsAssumption DEF FitsAssumption
<1>2. (q * PerBlock) % PerBlock = 0 % PerBlock
  <2>1. q * PerBlock + 0 * PerBlock = 0 + q * PerBlock
    BY <1>1
  <2> QED
    BY <1>1, <2>1, SameRemainder
<1> QED
  BY <1>1, <1>2

-----------------------------------------------------------------------------
\* A header with these cards starts behind cell off.
HeaderAt(file, off, cards) ==
  /\ cards \in Seq(Cells)
  /\ \A i \in 1 .. Len(cards) : cards[i] # End /\ file[off + i] = cards[i]
  /\ file[off + Len(cards) + 1] = End
  /\ off + Padded(Len(cards) + 1) <= Len(file)

HduOf(off, cards) ==
  [cards |-> cards, offset |-> off, data_offset |-> off + Padded(Len(cards) + 1),
   data_len |-> DataLen(cards)]

\* Header::parse finds a header that is there.
LEMMA FoundHeader ==
  ASSUME NEW file \in Seq(Cells), NEW off \in Nat, NEW cards, HeaderAt(file, off, cards)
  PROVE  HasHeader(file, off) /\ HduAt(file, off) = HduOf(off, cards)
<1> DEFINE e == off + Len(cards) + 1
<1>1. /\ Len(cards) \in Nat /\ Len(file) \in Nat /\ e \in Nat
      /\ e - off = Len(cards) + 1
      /\ e <= off + Padded(Len(cards) + 1)
      /\ cards \in Seq(Cells)
  <2>1. cards \in Seq(Cells) /\ Len(cards) \in Nat /\ Len(file) \in Nat
    <3>1. cards \in Seq(Cells)
      BY DEF HeaderAt
    <3> QED
      BY <3>1, LenProperties
  <2>2. Len(cards) + 1 <= Padded(Len(cards) + 1) /\ Padded(Len(cards) + 1) \in Nat
    <3>1. Len(cards) + 1 \in Nat
      BY <2>1
    <3> QED
      BY <3>1, PaddedFacts
  <2> QED
    BY <2>1, <2>2
<1>2. e \in Ends(file, off) /\ \A i \in Ends(file, off) : e <= i
  <2>1. e \in off + 1 .. Len(file) /\ file[e] = End
    <3>1. file[e] = End /\ off + Padded(Len(cards) + 1) <= Len(file)
      BY DEF HeaderAt
    <3>2. Padded(Len(cards) + 1) \in Nat
      BY <1>1, PaddedFacts
    <3> QED
      BY <1>1, <3>1, <3>2
  <2>2. ASSUME NEW i \in Ends(file, off), i < e PROVE FALSE
    <3>1. i \in off + 1 .. Len(file) /\ file[i] = End
      BY DEF Ends
    <3>2. i - off \in 1 .. Len(cards) /\ off + (i - off) = i
      BY <1>1, <2>2, <3>1
    <3>3. file[off + (i - off)] # End
      BY <3>2 DEF HeaderAt
    <3> QED
      BY <3>1, <3>2, <3>3
  <2>3. \A i \in Ends(file, off) : i \in Int
    BY DEF Ends
  <2> QED
    BY <1>1, <2>1, <2>2, <2>3 DEF Ends
<1>3. EndCell(file, off) = e
  <2>1. \A i \in Ends(file, off) : i \in Int
    BY DEF Ends
  <2>2. ASSUME NEW i \in Ends(file, off), \A j \in Ends(file, off) : i <= j PROVE i = e
    BY <1>1, <1>2, <2>1, <2>2
  <2> HIDE DEF e
  <2> QED
    BY <1>2, <2>2 DEF EndCell
<1>4. HasHeader(file, off)
  BY <1>1, <1>2, <1>3 DEF HasHeader, DataOffset, HeaderAt
<1>5. SubSeq(file, off + 1, e - 1) = cards
  <2>1. \A i \in off + 1 .. e - 1 : file[i] \in Cells
    <3>1. e - 1 <= Len(file) /\ \A i \in 1 .. Len(file) : file[i] \in Cells
      <4>1. e \in 1 .. Len(file)
        BY <1>1, <1>2 DEF Ends
      <4> QED
        BY <1>1, <4>1, LenProperties
    <3> QED
      BY <1>1, <3>1
  <2> DEFINE sub == SubSeq(file, off + 1, e - 1)
  <2>2. /\ sub \in Seq(Cells) /\ Len(sub) = IF off + 1 <= e - 1 THEN (e - 1) - (off + 1) + 1 ELSE 0
        /\ \A i \in 1 .. (e - 1) - (off + 1) + 1 : sub[i] = file[(off + 1) + i - 1]
    <3>1. off + 1 \in Int /\ e - 1 \in Int
      BY <1>1
    <3> HIDE DEF e
    <3> QED
      BY SMTT(20), <2>1, <3>1, SubSeqProperties
  <2> HIDE DEF sub
  <2>3. Len(sub) = Len(cards)
    BY <1>1, <2>2
  <2>4. ASSUME NEW i \in 1 .. Len(cards) PROVE sub[i] = cards[i]
    <3>1. sub[i] = file[(off + 1) + i - 1] /\ (off + 1) + i - 1 = off + i
      BY <1>1, <2>2
    <3> QED
      BY <3>1 DEF HeaderAt
  <2>5. sub = cards
    BY <1>1, <2>2, <2>3, <2>4, SeqEqual
  <2> QED
    BY <2>5 DEF sub
<1>6. DataOffset(file, off) = off + Padded(Len(cards) + 1)
  BY <1>1, <1>3 DEF DataOffset
<1>7. SubSeq(file, off + 1, EndCell(file, off) - 1) = cards
  BY <1>3, <1>5
<1> HIDE DEF e
<1> QED
  BY <1>4, <1>6, <1>7 DEF HduAt, HduOf

\* What Header::parse finds is there.
LEMMA HeaderFound ==
  ASSUME NEW file \in Seq(Cells), NEW off \in Nat, HasHeader(file, off)
  PROVE  \E cards : HeaderAt(file, off, cards)
<1> DEFINE e == EndCell(file, off)
           cards == SubSeq(file, off + 1, e - 1)
<1>1. PICK x \in Ends(file, off) : \A i \in Ends(file, off) : x <= i
  <2>1. Ends(file, off) \in SUBSET Nat /\ Ends(file, off) # {}
    BY DEF Ends, HasHeader
  <2> QED
    BY <2>1, LeastNatural
<1>2. e \in Ends(file, off) /\ \A i \in Ends(file, off) : e <= i
  BY <1>1 DEF EndCell
<1>3. /\ Len(file) \in Nat /\ e \in off + 1 .. Len(file) /\ file[e] = End
      /\ \A i \in off + 1 .. e - 1 : file[i] \in Cells /\ file[i] # End
  <2>1. Len(file) \in Nat /\ \A i \in 1 .. Len(file) : file[i] \in Cells
    BY LenProperties
  <2>2. e \in off + 1 .. Len(file) /\ file[e] = End
    BY <1>2 DEF Ends
  <2>3. ASSUME NEW i \in off + 1 .. e - 1 PROVE file[i] \in Cells /\ file[i] # End
    <3>1. i \in off + 1 .. Len(file) /\ i \in 1 .. Len(file) /\ ~(e <= i)
      BY <2>1, <2>2
    <3>2. i \notin Ends(file, off)
      BY <1>2, <3>1
    <3> QED
      BY <2>1, <3>1, <3>2 DEF Ends
  <2> QED
    BY <2>1, <2>2, <2>3
<1>4. off + Padded(e - off) <= Len(file)
  BY DEF HasHeader, DataOffset
<1> HIDE DEF e
<1>5. /\ cards \in Seq(Cells) /\ Len(cards) = e - off - 1
      /\ \A i \in 1 .. Len(cards) : cards[i] = file[off + i]
  <2>1. /\ cards \in Seq(Cells)
        /\ Len(cards) = IF off + 1 <= e - 1 THEN (e - 1) - (off + 1) + 1 ELSE 0
        /\ \A i \in 1 .. (e - 1) - (off + 1) + 1 : cards[i] = file[(off + 1) + i - 1]
    <3>1. off + 1 \in Int /\ e - 1 \in Int
      BY <1>3
    <3> QED
      BY <1>3, <3>1, SubSeqProperties
  <2> HIDE DEF cards
  <2>2. Len(cards) = e - off - 1
    BY <1>3, <2>1
  <2>3. ASSUME NEW i \in 1 .. Len(cards) PROVE cards[i] = file[off + i]
    <3>1. i \in 1 .. (e - 1) - (off + 1) + 1 /\ (off + 1) + i - 1 = off + i
      BY <1>3, <2>2
    <3> QED
      BY <2>1, <3>1
  <2> QED
    BY <2>1, <2>2, <2>3
<1> HIDE DEF cards
<1>6. off + Len(cards) + 1 = e /\ Len(cards) + 1 = e - off
  BY <1>3, <1>5
<1>7. ASSUME NEW i \in 1 .. Len(cards) PROVE cards[i] # End /\ file[off + i] = cards[i]
  <2>1. off + i \in off + 1 .. e - 1
    BY <1>3, <1>5
  <2> QED
    BY <1>3, <1>5, <2>1
<1>8. HeaderAt(file, off, cards)
  BY <1>3, <1>4, <1>5, <1>6, <1>7 DEF HeaderAt
<1> QED
  BY <1>8

\* The cards the writers make.
LEMMA CardIsCell ==
  /\ End \in Cells /\ Blank \in Cells
  /\ \A n \in Int : Card(Data, n) \in Cells
  /\ \A n \in Int : Card(<<"SIMPLE">>, n) \in Cells /\ Card(<<"NAXIS">>, n) \in Cells
  /\ \A n \in Int, i \in Nat : Card(<<"NAXIS", i>>, n) \in Cells
  /\ Card(<<"COMMENT">>, NoValue) \in Cells
<1>1. \A s \in Names : <<s>> \in Keys
  BY DEF Keys
<1>2. \A s \in Names, i \in Nat : <<s, i>> \in Keys
  BY DEF Keys
<1>3. <<>> \in Keys
  BY DEF Keys
<1>4. \A key \in Keys, n \in Int \cup {NoValue} : Card(key, n) \in Cells
  BY DEF Card, Cells
<1>5. {"END", "data", "SIMPLE", "NAXIS", "COMMENT"} \subseteq Names
  BY FitsAssumption DEF FitsAssumption
<1>6. \A s \in Names, n \in Int \cup {NoValue} : Card(<<s>>, n) \in Cells
  BY <1>1, <1>4
<1>7. \A i \in Nat, n \in Int : Card(<<"NAXIS", i>>, n) \in Cells
  BY <1>2, <1>4, <1>5
<1>8. End \in Cells /\ Card(<<"COMMENT">>, NoValue) \in Cells
  BY <1>5, <1>6 DEF End
<1>9. Blank \in Cells
  BY <1>3, <1>4 DEF Blank
<1>10. \A n \in Int : /\ Card(Data, n) \in Cells
                      /\ Card(<<"SIMPLE">>, n) \in Cells /\ Card(<<"NAXIS">>, n) \in Cells
  BY <1>5, <1>6 DEF Data
<1> QED
  BY <1>7, <1>8, <1>9, <1>10

\* What header_block makes of the cards.
LEMMA HeaderBlockFacts ==
  ASSUME NEW cards \in Seq(Cells)
  PROVE  LET block == HeaderBlock(cards)
         IN /\ block \in Seq(Cells)
            /\ Len(cards) \in Nat
            /\ Len(block) = Padded(Len(cards) + 1)
            /\ Len(cards) + 1 <= Len(block)
            /\ \A i \in 1 .. Len(cards) : block[i] = cards[i]
            /\ block[Len(cards) + 1] = End
<1> DEFINE filled == Append(cards, End)
           blanks == [i \in 1 .. Padded(Len(filled)) - Len(filled) |-> Blank]
<1>1. /\ filled \in Seq(Cells) /\ Len(cards) \in Nat /\ Len(filled) = Len(cards) + 1
      /\ \A i \in 1 .. Len(cards) : filled[i] = cards[i]
      /\ filled[Len(cards) + 1] = End
  BY CardIsCell, Pushed
<1>2. HeaderBlock(cards) = filled \o blanks
  BY DEF HeaderBlock
<1> HIDE DEF filled
<1>3. Len(filled) \in Nat /\ Padded(Len(filled)) \in Nat /\ Len(filled) <= Padded(Len(filled))
  <2>1. Len(filled) \in Nat
    BY <1>1
  <2> QED
    BY <2>1, PaddedFacts
<1>4. blanks \in Seq(Cells) /\ Len(blanks) = Padded(Len(filled)) - Len(filled)
  <2>1. Blank \in Cells
    BY CardIsCell
  <2>2. PICK n \in Nat : n = Padded(Len(filled)) - Len(filled)
    BY <1>3
  <2>3. [i \in 1 .. n |-> Blank] \in Seq(Cells) /\ Len([i \in 1 .. n |-> Blank]) = n
    BY <2>1
  <2> QED
    BY <2>2, <2>3
<1> HIDE DEF blanks
<1>5. /\ filled \o blanks \in Seq(Cells) /\ Len(filled \o blanks) = Len(filled) + Len(blanks)
      /\ \A i \in 1 .. Len(filled) + Len(blanks) :
           (filled \o blanks)[i] = IF i <= Len(filled) THEN filled[i] ELSE blanks[i - Len(filled)]
  BY <1>1, <1>4, ConcatProperties
<1>6. \A i \in 1 .. Len(filled) : (filled \o blanks)[i] = filled[i]
  BY <1>3, <1>4, <1>5
<1>7. /\ \A i \in 1 .. Len(cards) : (filled \o blanks)[i] = cards[i]
      /\ (filled \o blanks)[Len(cards) + 1] = End
  BY <1>1, <1>6
<1>8. Len(filled \o blanks) = Padded(Len(cards) + 1) /\ Len(cards) + 1 <= Len(filled \o blanks)
  BY <1>1, <1>3, <1>4, <1>5
<1> QED
  BY <1>1, <1>2, <1>5, <1>7, <1>8

\* A header that was written is the header that is read.
LEMMA WrittenHeader ==
  ASSUME NEW file \in Seq(Cells), NEW off \in Nat, NEW cards \in Seq(Cells),
         \A i \in 1 .. Len(cards) : cards[i] # End,
         \A i \in 1 .. Len(HeaderBlock(cards)) : file[off + i] = HeaderBlock(cards)[i],
         off + Len(HeaderBlock(cards)) <= Len(file)
  PROVE  HeaderAt(file, off, cards)
<1> DEFINE block == HeaderBlock(cards)
<1>1. /\ Len(cards) \in Nat
      /\ Len(block) = Padded(Len(cards) + 1) /\ Padded(Len(cards) + 1) \in Nat
      /\ Len(cards) + 1 <= Len(block)
      /\ \A i \in 1 .. Len(cards) : block[i] = cards[i]
      /\ block[Len(cards) + 1] = End
  <2>1. Len(cards) + 1 \in Nat
    BY HeaderBlockFacts
  <2> QED
    BY <2>1, HeaderBlockFacts, PaddedFacts
<1>2. \A i \in 1 .. Len(block) : file[off + i] = block[i]
  OBVIOUS
<1> HIDE DEF block
<1>3. \A i \in 1 .. Len(cards) : file[off + i] = cards[i]
  BY <1>1, <1>2
<1>4. file[off + Len(cards) + 1] = End
  <2>1. Len(cards) + 1 \in 1 .. Len(block) /\ off + (Len(cards) + 1) = off + Len(cards) + 1
    BY <1>1
  <2>2. file[off + (Len(cards) + 1)] = block[Len(cards) + 1]
    BY <1>2, <2>1
  <2> QED
    BY <1>1, <2>1, <2>2
<1>5. off + Padded(Len(cards) + 1) <= Len(file)
  BY <1>1 DEF block
<1> QED
  BY <1>3, <1>4, <1>5 DEF HeaderAt

-----------------------------------------------------------------------------
(* Header::get, and what it tells of the data.                              *)

Valued(cards, key) == {i \in DOMAIN cards : cards[i].key = key /\ cards[i].val # NoValue}

\* Header::get returns the first card that has the key and a value.
LEMMA GetFirst ==
  ASSUME NEW cards \in Seq(Cells), NEW key, NEW default, NEW i \in Valued(cards, key),
         \A j \in Valued(cards, key) : i <= j
  PROVE  Get(cards, key, default) = cards[i].val /\ cards[i].val \in Int
<1>1. DOMAIN cards = 1 .. Len(cards) /\ Len(cards) \in Nat /\ \A j \in 1 .. Len(cards) : cards[j] \in Cells
  BY LenProperties
<1>2. Valued(cards, key) \in SUBSET Nat /\ Valued(cards, key) # {}
  BY <1>1 DEF Valued
<1>3. \A k \in Valued(cards, key) : (\A j \in Valued(cards, key) : k <= j) => k = i
  BY <1>2
<1>4. Get(cards, key, default)
        = cards[CHOOSE k \in Valued(cards, key) : \A j \in Valued(cards, key) : k <= j].val
  BY <1>2 DEF Get, Valued
<1>5. (CHOOSE k \in Valued(cards, key) : \A j \in Valued(cards, key) : k <= j) = i
  BY <1>3
<1>6. cards[i].val \in Int
  BY <1>1 DEF Valued, Cells
<1> QED
  BY <1>4, <1>5, <1>6

\* The default, if there is no such card.
LEMMA GetNone ==
  ASSUME NEW cards, NEW key, NEW default, Valued(cards, key) = {}
  PROVE  Get(cards, key, default) = default
  BY DEF Get, Valued

\* If there is such a card there is a first one.
LEMMA LeastValued ==
  ASSUME NEW cards \in Seq(Cells), NEW key
  PROVE  /\ Valued(cards, key) \in SUBSET (1 .. Len(cards))
         /\ Valued(cards, key) = {}
              \/ \E i \in Valued(cards, key) : \A j \in Valued(cards, key) : i <= j
<1>1. Valued(cards, key) \in SUBSET (1 .. Len(cards)) /\ Len(cards) \in Nat
  BY LenProperties DEF Valued
<1>2. Valued(cards, key) \in SUBSET Nat
  BY <1>1
<1> QED
  BY <1>1, <1>2, LeastNatural

\* It is a number.
LEMMA GetType ==
  ASSUME NEW cards \in Seq(Cells), NEW key
  PROVE  Get(cards, key, 0) \in Int
<1>1. CASE Valued(cards, key) = {}
  <2>1. Get(cards, key, 0) = 0
    BY <1>1, GetNone
  <2> QED
    BY <2>1
<1>2. CASE Valued(cards, key) # {}
  <2>1. PICK i \in Valued(cards, key) : \A j \in Valued(cards, key) : i <= j
    BY <1>2, LeastValued
  <2> QED
    BY <2>1, GetFirst
<1> QED
  BY <1>1, <1>2

\* Reading a key when the cards with it are there in the same order, and the
\* others may have gone.
LEMMA GetRetained ==
  ASSUME NEW cards \in Seq(Cells), NEW places, NEW key,
         \A i \in 1 .. Len(cards) : cards[i].key = key => i \in places
  PROVE  Get(Retain(cards, places), key, 0) = Get(cards, key, 0)
<1> DEFINE left == Retain(cards, places)
<1>1. left \in Seq(Cells) /\ \E at : Picks(left, cards, places, Len(cards), at)
  BY RetainFacts
<1> HIDE DEF left
<1>2. PICK at : Picks(left, cards, places, Len(cards), at)
  BY <1>1
<1>3. Len(left) \in Nat /\ Len(cards) \in Nat /\ DOMAIN left = 1 .. Len(left) /\ DOMAIN cards = 1 .. Len(cards)
  BY <1>1, LenProperties
<1>4. \A k \in Valued(left, key) : k \in 1 .. Len(left) /\ at[k] \in Valued(cards, key)
  BY <1>2, <1>3 DEF Picks, Valued
<1>5. ASSUME NEW i \in Valued(cards, key)
      PROVE  \E k \in Valued(left, key) : at[k] = i
  <2>1. i \in 1 .. Len(cards) /\ i \in places
    BY <1>3 DEF Valued
  <2>2. PICK k \in 1 .. Len(left) : at[k] = i
    BY <1>2, <2>1 DEF Picks
  <2>3. left[k] = cards[i]
    BY <1>2, <2>2 DEF Picks
  <2> QED
    BY <1>3, <2>2, <2>3 DEF Valued
<1>6. CASE Valued(cards, key) = {}
  <2>1. Valued(left, key) = {}
    BY <1>4, <1>6
  <2> QED
    BY <1>6, <2>1, GetNone DEF left
<1>7. CASE Valued(cards, key) # {}
  <2>1. PICK i \in Valued(cards, key) : \A j \in Valued(cards, key) : i <= j
    BY <1>7, LeastValued
  <2>2. PICK k \in Valued(left, key) : at[k] = i
    BY <1>5
  <2>3. ASSUME NEW l \in Valued(left, key) PROVE k <= l
    <3>1. k \in 1 .. Len(left) /\ l \in 1 .. Len(left) /\ i <= at[l]
      BY <1>4, <2>1
    <3>2. l < k => at[l] < at[k]
      BY <1>2, <3>1 DEF Picks
    <3>3. at[l] \in 1 .. Len(cards) /\ i \in 1 .. Len(cards)
      BY <1>2, <1>3, <3>1 DEF Picks, Valued
    <3> QED
      BY <2>2, <3>1, <3>2, <3>3
  <2>4. Get(left, key, 0) = left[k].val
    BY <1>1, <2>3, GetFirst
  <2>5. Get(cards, key, 0) = cards[i].val
    BY <2>1, GetFirst
  <2>6. left[k] = cards[i]
    BY <1>2, <1>4, <2>2 DEF Picks
  <2> QED
    BY <2>4, <2>5, <2>6 DEF left
<1> QED
  BY <1>6, <1>7

\* Reading a key that no card of the second list has.
LEMMA GetBefore ==
  ASSUME NEW cards \in Seq(Cells), NEW more \in Seq(Cells), NEW key,
         \A i \in 1 .. Len(more) : more[i].key # key
  PROVE  Get(cards \o more, key, 0) = Get(cards, key, 0)
<1> DEFINE all == cards \o more
<1>1. /\ all \in Seq(Cells) /\ Len(all) = Len(cards) + Len(more)
      /\ \A i \in 1 .. Len(cards) + Len(more) :
           all[i] = IF i <= Len(cards) THEN cards[i] ELSE more[i - Len(cards)]
      /\ Len(cards) \in Nat /\ Len(more) \in Nat
  BY ConcatProperties, LenProperties
<1> HIDE DEF all
<1>2. DOMAIN all = 1 .. Len(all) /\ DOMAIN cards = 1 .. Len(cards)
  BY <1>1, LenProperties
<1>3. Valued(all, key) = Valued(cards, key)
  <2>1. ASSUME NEW i \in Valued(cards, key) PROVE i \in Valued(all, key)
    <3>1. i \in 1 .. Len(cards) /\ i \in 1 .. Len(cards) + Len(more) /\ i <= Len(cards)
      BY <1>1, <1>2 DEF Valued
    <3>2. all[i] = cards[i] /\ i \in DOMAIN all
      BY <1>1, <1>2, <3>1
    <3> QED
      BY <3>2 DEF Valued
  <2>2. ASSUME NEW i \in Valued(all, key) PROVE i \in Valued(cards, key)
    <3>1. i \in 1 .. Len(cards) + Len(more) /\ all[i].key = key /\ all[i].val # NoValue
      BY <1>1, <1>2 DEF Valued
    <3>2. CASE i <= Len(cards)
      BY <1>1, <1>2, <3>1, <3>2 DEF Valued
    <3>3. CASE ~(i <= Len(cards))
      <4>1. i - Len(cards) \in 1 .. Len(more) /\ all[i] = more[i - Len(cards)]
        BY <1>1, <3>1, <3>3
      <4> QED
        BY <3>1, <4>1
    <3> QED
      BY <3>2, <3>3
  <2> QED
    BY <2>1, <2>2
<1>4. CASE Valued(cards, key) = {}
  <2>1. Get(all, key, 0) = 0 /\ Get(cards, key, 0) = 0
    BY <1>3, <1>4, GetNone
  <2> QED
    BY <2>1 DEF all
<1>5. CASE Valued(cards, key) # {}
  <2>1. PICK i \in Valued(cards, key) : \A j \in Valued(cards, key) : i <= j
    BY <1>5, LeastValued
  <2>2. Get(cards, key, 0) = cards[i].val
    BY <2>1, GetFirst
  <2>3. Get(all, key, 0) = all[i].val
    BY <1>1, <1>3, <2>1, GetFirst
  <2>4. all[i] = cards[i]
    BY <1>1, <1>2, <2>1 DEF Valued
  <2> QED
    BY <2>2, <2>3, <2>4 DEF all
<1> QED
  BY <1>4, <1>5

-----------------------------------------------------------------------------
(* The elements of the data.                                                *)

\* The product of the axes, by its recursion.
LEMMA ElementsFacts ==
  ASSUME NEW n \in Nat, NEW axes \in [1 .. n -> Nat]
  PROVE  LET elements == Elements(axes, n)
         IN /\ \A i \in 0 .. n : elements[i] \in Nat
            /\ elements[0] = 1
            /\ \A i \in 1 .. n : elements[i] = elements[i - 1] * axes[i]
<1> DEFINE step == [p \in Nat \X (1 .. n) |-> p[1] * axes[p[2]]]
           elements == Elements(axes, n)
           Eq(g) == g = [i \in 0 .. n |-> IF i = 0 THEN 1 ELSE g[i - 1] * axes[i]]
<1>1. step \in Steps(Nat, n)
  <2>1. ASSUME NEW p \in Nat \X (1 .. n) PROVE p[1] * axes[p[2]] \in Nat
    <3>1. PICK a \in Nat, b \in Nat : a = p[1] /\ b = axes[p[2]]
      OBVIOUS
    <3>2. a * b \in Nat
      OBVIOUS
    <3> QED
      BY <3>1, <3>2
  <2> QED
    BY <2>1 DEF Steps
<1>2. \A x \in Nat, i \in 1 .. n : step[<<x, i>>] = x * axes[i]
  OBVIOUS
<1> HIDE DEF step
<1>3. PICK g \in [0 .. n -> Nat] : Recurs(g, 1, n, step)
  <2> DEFINE X == Nat
             one == 1
  <2>1. step \in Steps(X, n) /\ one \in X
    BY <1>1
  <2> HIDE DEF X, one
  <2>2. \E g \in [0 .. n -> X] : Recurs(g, one, n, step)
    BY <2>1, Recursion
  <2> QED
    BY <2>2 DEF X, one
<1>4. \A i \in 1 .. n : g[i] = g[i - 1] * axes[i]
  <2> SUFFICES ASSUME NEW i \in 1 .. n PROVE g[i] = g[i - 1] * axes[i]
    OBVIOUS
  <2>1. i - 1 \in 0 .. n /\ g[i - 1] \in Nat
    OBVIOUS
  <2> QED
    BY <1>2, <1>3, <2>1 DEF Recurs
<1>5. Eq(g)
  <2>1. \A i \in 0 .. n : g[i] = IF i = 0 THEN 1 ELSE g[i - 1] * axes[i]
    <3>1. \A i \in 0 .. n : i = 0 \/ i \in 1 .. n
      OBVIOUS
    <3>2. g[0] = 1
      BY <1>3 DEF Recurs
    <3> QED
      BY <1>4, <3>1, <3>2
  <2> QED
    BY <2>1
<1>6. elements = CHOOSE h : Eq(h)
  BY DEF Elements
<1> HIDE DEF elements
<1>7. Eq(elements)
  <2> HIDE DEF Eq
  <2> QED
    BY <1>5, <1>6
<1>8. elements[0] = 1 /\ \A i \in 1 .. n : elements[i] = elements[i - 1] * axes[i]
  <2>1. 0 \in 0 .. n /\ \A i \in 1 .. n : i \in 0 .. n /\ i # 0
    OBVIOUS
  <2> QED
    BY <1>7, <2>1
<1>9. \A i \in 0 .. n : elements[i] \in Nat
  <2> DEFINE T == {i \in 0 .. n : elements[i] \in Nat}
  <2>1. 0 \in T
    BY <1>8
  <2>2. ASSUME NEW i \in 1 .. n, i - 1 \in T PROVE i \in T
    <3>1. PICK a \in Nat, b \in Nat : a = elements[i - 1] /\ b = axes[i]
      BY <2>2
    <3>2. a * b \in Nat /\ elements[i] = a * b /\ i \in 0 .. n
      BY <1>8, <3>1
    <3> QED
      BY <3>2
  <2> HIDE DEF T
  <2>3. \A i \in 0 .. n : i \in T
    BY <2>1, <2>2, BoundedInduction
  <2> QED
    BY <2>3 DEF T
<1> QED
  BY <1>8, <1>9 DEF elements

\* The length of the data is a length.
LEMMA DataLenType ==
  ASSUME NEW cards \in Seq(Cells)
  PROVE  DataLen(cards) \in Nat
<1> DEFINE naxis == NotNegative(Get(cards, <<"NAXIS">>, 0))
           axes == [i \in 1 .. naxis |-> NotNegative(Get(cards, <<"NAXIS", i>>, 0))]
           nelem == IF naxis = 0 THEN 0 ELSE Elements(axes, naxis)[naxis]
           pcount == NotNegative(Get(cards, <<"PCOUNT">>, 0))
<1>1. \A key : NotNegative(Get(cards, key, 0)) \in Nat
  BY GetType DEF NotNegative
<1>2. naxis \in Nat /\ pcount \in Nat
  BY <1>1
<1>3. axes \in [1 .. naxis -> Nat]
  BY <1>1
<1>4. DataLen(cards) = nelem + pcount
  BY DEF DataLen
<1> HIDE DEF naxis, axes, pcount
<1>5. nelem \in Nat
  <2>1. naxis \in 0 .. naxis
    BY <1>2
  <2>2. Elements(axes, naxis)[naxis] \in Nat
    BY <1>2, <1>3, <2>1, ElementsFacts
  <2> QED
    BY <2>2
<1> QED
  BY <1>2, <1>4, <1>5

\* The same values of the keys that size the data, the same length.
SameData(old, new) == \A key : SizesData(key) => Get(new, key, 0) = Get(old, key, 0)

\* The data are as long then, and have as many axes.
LEMMA SameDataLen ==
  ASSUME NEW old, NEW new, SameData(old, new)
  PROVE  DataLen(new) = DataLen(old) /\ Get(new, <<"NAXIS">>, 0) = Get(old, <<"NAXIS">>, 0)
<1>1. Get(new, <<"NAXIS">>, 0) = Get(old, <<"NAXIS">>, 0)
  BY DEF SameData, SizesData
<1>2. Get(new, <<"PCOUNT">>, 0) = Get(old, <<"PCOUNT">>, 0)
  BY DEF SameData, SizesData
<1>3. \A i : Get(new, <<"NAXIS", i>>, 0) = Get(old, <<"NAXIS", i>>, 0)
  <2>1. \A i : Len(<<"NAXIS", i>>) = 2 /\ <<"NAXIS", i>>[1] = "NAXIS"
    OBVIOUS
  <2> QED
    BY <2>1 DEF SameData, SizesData
<1>4. \A n : [i \in 1 .. n |-> NotNegative(Get(new, <<"NAXIS", i>>, 0))]
               = [i \in 1 .. n |-> NotNegative(Get(old, <<"NAXIS", i>>, 0))]
  BY <1>3
<1>5. DataLen(new) = DataLen(old)
  BY <1>1, <1>2, <1>4, Zenon DEF DataLen
<1> QED
  BY <1>1, <1>5

-----------------------------------------------------------------------------
(* The HDUs of a file, by what the file says of them.                       *)

Hdu == [cards : Seq(Cells), offset : Nat, data_offset : Nat, data_len : Nat]

\* Where HDU n + 1 starts if there is one.
Start(hdus, n) == IF n = 0 THEN 0 ELSE After(hdus[n])

\* HDUs one behind the other, each all there.
Linked(file, hdus) ==
  /\ hdus \in Seq(Hdu)
  /\ \A n \in 1 .. Len(hdus) :
       /\ hdus[n] = HduOf(Start(hdus, n - 1), hdus[n].cards)
       /\ HeaderAt(file, Start(hdus, n - 1), hdus[n].cards)
       /\ Complete(file, hdus[n])

\* They make up the file.
Chain(file, hdus) == Linked(file, hdus) /\ Len(file) <= Start(hdus, Len(hdus))

\* The places of an HDU in its file.
LEMMA HduOfFacts ==
  ASSUME NEW off \in Nat, NEW cards \in Seq(Cells)
  PROVE  LET hdu == HduOf(off, cards)
         IN /\ hdu \in Hdu
            /\ hdu.cards = cards /\ hdu.offset = off
            /\ hdu.data_offset = off + Padded(Len(cards) + 1)
            /\ hdu.data_len = DataLen(cards)
            /\ Len(cards) \in Nat /\ Padded(Len(cards) + 1) \in Nat
            /\ Len(cards) + 1 <= Padded(Len(cards) + 1)
            /\ DataLen(cards) \in Nat
            /\ After(hdu) = off + Padded(Len(cards) + 1) + Padded(DataLen(cards))
            /\ After(hdu) \in Nat
            /\ hdu.data_offset + hdu.data_len <= After(hdu) /\ off + 1 <= After(hdu)
<1>1. Len(cards) \in Nat /\ DataLen(cards) \in Nat
  BY LenProperties, DataLenType
<1>2. Len(cards) + 1 \in Nat
  BY <1>1
<1>3. Padded(Len(cards) + 1) \in Nat /\ Len(cards) + 1 <= Padded(Len(cards) + 1)
  BY <1>2, PaddedFacts
<1>4. Padded(DataLen(cards)) \in Nat /\ DataLen(cards) <= Padded(DataLen(cards))
  BY <1>1, PaddedFacts
<1>5. PICK h \in Nat, l \in Nat, p \in Nat :
        h = Padded(Len(cards) + 1) /\ l = DataLen(cards) /\ p = Padded(DataLen(cards))
  BY <1>1, <1>3, <1>4
<1>6. HduOf(off, cards) = [cards |-> cards, offset |-> off, data_offset |-> off + h, data_len |-> l]
  BY <1>5 DEF HduOf
<1>7. After(HduOf(off, cards)) = off + h + p
  BY <1>5, <1>6 DEF After
<1> QED
  BY <1>1, <1>3, <1>4, <1>5, <1>6, <1>7 DEF Hdu

WalkState == [hdus : Seq(Hdu), off : Nat, failed : BOOLEAN]

\* One turn of Fits::parse.
Turn(file, at) ==
  IF at.failed \/ at.off >= Len(file) THEN at
  ELSE IF HasHeader(file, at.off) /\ Complete(file, HduAt(file, at.off))
  THEN [hdus |-> Append(at.hdus, HduAt(file, at.off)), off |-> After(HduAt(file, at.off)),
        failed |-> FALSE]
  ELSE [at EXCEPT !.failed = TRUE]

\* What the loop reads is an HDU where it is.
LEMMA ReadHdu ==
  ASSUME NEW file \in Seq(Cells), NEW off \in Nat, HasHeader(file, off)
  PROVE  /\ HduAt(file, off) \in Hdu /\ HduAt(file, off).cards \in Seq(Cells)
         /\ HduAt(file, off) = HduOf(off, HduAt(file, off).cards)
         /\ HeaderAt(file, off, HduAt(file, off).cards)
         /\ After(HduAt(file, off)) \in Nat /\ off + 1 <= After(HduAt(file, off))
<1>1. PICK cards : HeaderAt(file, off, cards)
  BY HeaderFound
<1>2. HduAt(file, off) = HduOf(off, cards) /\ cards \in Seq(Cells)
  BY <1>1, FoundHeader DEF HeaderAt
<1>3. HduAt(file, off).cards = cards /\ HduAt(file, off) \in Hdu
      /\ After(HduAt(file, off)) \in Nat /\ off + 1 <= After(HduAt(file, off))
  <2> DEFINE hdu == HduOf(off, cards)
  <2>1. hdu.cards = cards /\ hdu \in Hdu /\ After(hdu) \in Nat /\ off + 1 <= After(hdu)
    BY <1>2, HduOfFacts
  <2> HIDE DEF hdu
  <2>2. HduAt(file, off) = hdu
    BY <1>2 DEF hdu
  <2> QED
    BY <2>1, <2>2
<1> QED
  BY <1>1, <1>2, <1>3

\* The loop keeps its types.
LEMMA TurnType ==
  ASSUME NEW file \in Seq(Cells), NEW at \in WalkState
  PROVE  Turn(file, at) \in WalkState
<1>1. CASE at.failed \/ at.off >= Len(file)
  BY <1>1 DEF Turn
<1>2. CASE /\ ~(at.failed \/ at.off >= Len(file))
           /\ HasHeader(file, at.off) /\ Complete(file, HduAt(file, at.off))
  <2>1. at.off \in Nat /\ at.hdus \in Seq(Hdu)
    BY DEF WalkState
  <2>2. HduAt(file, at.off) \in Hdu /\ After(HduAt(file, at.off)) \in Nat
    BY <1>2, <2>1, ReadHdu
  <2>3. Append(at.hdus, HduAt(file, at.off)) \in Seq(Hdu)
    BY <2>1, <2>2, AppendProperties
  <2>4. Turn(file, at) = [hdus |-> Append(at.hdus, HduAt(file, at.off)),
                          off |-> After(HduAt(file, at.off)), failed |-> FALSE]
    BY <1>2 DEF Turn
  <2> QED
    BY <2>2, <2>3, <2>4 DEF WalkState
<1>3. CASE /\ ~(at.failed \/ at.off >= Len(file))
           /\ ~(HasHeader(file, at.off) /\ Complete(file, HduAt(file, at.off)))
  <2>1. Turn(file, at) = [at EXCEPT !.failed = TRUE]
    BY <1>3 DEF Turn
  <2> QED
    BY <2>1 DEF WalkState
<1> QED
  BY <1>1, <1>2, <1>3

\* The recursion of Walk has a solution, so it holds of Walk.
LEMMA WalkRecursion ==
  ASSUME NEW file \in Seq(Cells)
  PROVE  LET walk == Walk(file)
         IN /\ Len(file) \in Nat
            /\ \A n \in 0 .. Len(file) : walk[n] \in WalkState
            /\ walk[0] = [hdus |-> <<>>, off |-> 0, failed |-> FALSE]
            /\ \A n \in 1 .. Len(file) : walk[n] = Turn(file, walk[n - 1])
<1> DEFINE len == Len(file)
           base == [hdus |-> <<>>, off |-> 0, failed |-> FALSE]
           step == [p \in WalkState \X (1 .. len) |-> Turn(file, p[1])]
           walk == Walk(file)
           Eq(g) == g = [n \in 0 .. len |-> IF n = 0 THEN base ELSE Turn(file, g[n - 1])]
<1>1. len \in Nat
  BY LenProperties
<1>2. step \in Steps(WalkState, len)
  <2>1. ASSUME NEW p \in WalkState \X (1 .. len) PROVE Turn(file, p[1]) \in WalkState
    <3>1. p[1] \in WalkState
      OBVIOUS
    <3> QED
      BY <3>1, TurnType
  <2> QED
    BY <2>1 DEF Steps
<1>3. \A x \in WalkState, n \in 1 .. len : step[<<x, n>>] = Turn(file, x)
  OBVIOUS
<1>4. base \in WalkState
  <2>1. <<>> \in Seq(Hdu)
    BY EmptySeq
  <2> QED
    BY <2>1 DEF WalkState
<1>5. walk = CHOOSE g : Eq(g)
  BY Zenon DEF Walk, Turn
<1> HIDE DEF step, len, base, walk
<1>6. PICK g \in [0 .. len -> WalkState] : Recurs(g, base, len, step)
  BY <1>1, <1>2, <1>4, Recursion
<1>7. \A n \in 1 .. len : g[n] = Turn(file, g[n - 1])
  <2> SUFFICES ASSUME NEW n \in 1 .. len PROVE g[n] = Turn(file, g[n - 1])
    OBVIOUS
  <2>1. n - 1 \in 0 .. len
    BY <1>1
  <2> QED
    BY <1>3, <1>6, <2>1 DEF Recurs
<1>8. Eq(g)
  <2>1. \A n \in 0 .. len : n # 0 => n \in 1 .. len
    BY <1>1
  <2>2. \A n \in 0 .. len : g[n] = IF n = 0 THEN base ELSE Turn(file, g[n - 1])
    BY <1>6, <1>7, <2>1 DEF Recurs
  <2> QED
    BY <2>2
<1>9. Eq(walk)
  <2> HIDE DEF Eq
  <2> QED
    BY <1>5, <1>8
<1>10. walk[0] = base /\ \A n \in 1 .. len : walk[n] = Turn(file, walk[n - 1])
  <2>1. 0 \in 0 .. len /\ \A n \in 1 .. len : n \in 0 .. len /\ n # 0
    BY <1>1
  <2> QED
    BY <1>9, <2>1
<1>11. \A n \in 0 .. len : walk[n] \in WalkState
  <2> DEFINE T == {n \in 0 .. len : walk[n] \in WalkState}
  <2>1. 0 \in T
    BY <1>1, <1>4, <1>10
  <2>2. ASSUME NEW n \in 1 .. len, n - 1 \in T PROVE n \in T
    <3>1. walk[n - 1] \in WalkState /\ n \in 0 .. len
      BY <1>1, <2>2
    <3>2. walk[n] \in WalkState
      BY <1>10, <3>1, TurnType
    <3> QED
      BY <3>1, <3>2
  <2> HIDE DEF T
  <2>3. \A n \in 0 .. len : n \in T
    BY <1>1, <2>1, <2>2, BoundedInduction
  <2> QED
    BY <2>3 DEF T
<1> QED
  BY <1>1, <1>10, <1>11 DEF len, base, walk

\* A further HDU.
LEMMA LinkOneMore ==
  ASSUME NEW file \in Seq(Cells), NEW hdus, Linked(file, hdus), NEW cards,
         LET off == Start(hdus, Len(hdus))
         IN off \in Nat /\ HeaderAt(file, off, cards) /\ Complete(file, HduOf(off, cards))
  PROVE  LET new == Append(hdus, HduOf(Start(hdus, Len(hdus)), cards))
         IN /\ Linked(file, new)
            /\ Start(new, Len(new)) = After(HduOf(Start(hdus, Len(hdus)), cards))
<1> DEFINE off == Start(hdus, Len(hdus))
           hdu == HduOf(off, cards)
           new == Append(hdus, hdu)
<1>1. hdus \in Seq(Hdu) /\ cards \in Seq(Cells) /\ off \in Nat
  BY DEF Linked, HeaderAt
<1>2. hdu \in Hdu /\ hdu.cards = cards
  <2> HIDE DEF off
  <2> QED
    BY <1>1, HduOfFacts
<1>3. HeaderAt(file, off, cards) /\ Complete(file, hdu) /\ hdu = HduOf(off, cards)
  OBVIOUS
<1>4. off = Start(hdus, Len(hdus))
  OBVIOUS
<1> HIDE DEF off, hdu
<1>5. /\ new \in Seq(Hdu) /\ Len(hdus) \in Nat /\ Len(new) = Len(hdus) + 1
      /\ \A n \in 1 .. Len(hdus) : new[n] = hdus[n]
      /\ new[Len(hdus) + 1] = hdu
  BY <1>1, <1>2, Pushed
<1> HIDE DEF new
<1>6. \A n \in 0 .. Len(hdus) : Start(new, n) = Start(hdus, n)
  <2>1. \A n \in 0 .. Len(hdus) : n = 0 \/ n \in 1 .. Len(hdus)
    BY <1>5
  <2> QED
    BY <1>5, <2>1 DEF Start
<1>7. ASSUME NEW n \in 1 .. Len(new)
      PROVE  /\ new[n] = HduOf(Start(new, n - 1), new[n].cards)
             /\ HeaderAt(file, Start(new, n - 1), new[n].cards)
             /\ Complete(file, new[n])
  <2>1. CASE n \in 1 .. Len(hdus)
    <3>1. n - 1 \in 0 .. Len(hdus) /\ new[n] = hdus[n]
      BY <1>5, <2>1
    <3>2. Start(new, n - 1) = Start(hdus, n - 1)
      BY <1>6, <3>1
    <3> QED
      BY <2>1, <3>1, <3>2 DEF Linked
  <2>2. CASE n = Len(hdus) + 1
    <3>1. Len(hdus) \in 0 .. Len(hdus) /\ n - 1 = Len(hdus)
      BY <1>5, <2>2
    <3>2. Start(new, n - 1) = off
      BY <1>4, <1>6, <3>1
    <3> QED
      BY <1>2, <1>3, <1>5, <2>2, <3>2
  <2> QED
    BY <1>5, <2>1, <2>2
<1>8. Start(new, Len(new)) = After(hdu)
  BY <1>5 DEF Start
<1> QED
  BY <1>5, <1>7, <1>8 DEF Linked, new, hdu, off

\* Each HDU starts where its predecessor ends, and takes a cell at least.
LEMMA LinkedOrder ==
  ASSUME NEW file \in Seq(Cells), NEW hdus, Linked(file, hdus)
  PROVE  /\ Len(hdus) \in Nat
         /\ \A n \in 1 .. Len(hdus) :
              /\ hdus[n] \in Hdu /\ hdus[n].cards \in Seq(Cells)
              /\ hdus[n].offset = Start(hdus, n - 1)
              /\ Start(hdus, n) = After(hdus[n])
         /\ \A n \in 0 .. Len(hdus) : Start(hdus, n) \in Nat /\ n <= Start(hdus, n)
         /\ \A m \in 0 .. Len(hdus) : \A n \in 0 .. m : Start(hdus, n) <= Start(hdus, m)
<1>1. hdus \in Seq(Hdu) /\ Len(hdus) \in Nat
  BY LenProperties DEF Linked
<1>2. \A n \in 1 .. Len(hdus) : hdus[n] \in Hdu /\ hdus[n].cards \in Seq(Cells)
  <2>1. \A n \in 1 .. Len(hdus) : hdus[n] \in Hdu
    BY <1>1, LenProperties
  <2> QED
    BY <2>1 DEF Hdu
<1>3. \A n \in 1 .. Len(hdus) : Start(hdus, n) = After(hdus[n])
  BY DEF Start
<1> DEFINE T == {m \in 0 .. Len(hdus) :
                   /\ Start(hdus, m) \in Nat /\ m <= Start(hdus, m)
                   /\ \A n \in 0 .. m : Start(hdus, n) <= Start(hdus, m)}
<1>4. 0 \in T
  BY <1>1 DEF Start
<1>5. ASSUME NEW m \in 1 .. Len(hdus), m - 1 \in T PROVE m \in T
  <2>1. PICK off \in Nat : off = Start(hdus, m - 1)
    BY <1>5
  <2>2. m - 1 <= off /\ \A n \in 0 .. m - 1 : Start(hdus, n) <= off
    BY <1>5, <2>1
  <2>3. hdus[m] = HduOf(off, hdus[m].cards)
    BY <2>1 DEF Linked
  <2>4. After(hdus[m]) \in Nat /\ off + 1 <= After(hdus[m])
    BY ZenonT(30), <1>2, <2>3, HduOfFacts
  <2>5. PICK s \in Nat : s = Start(hdus, m) /\ off + 1 <= s
    BY <1>3, <2>4
  <2>6. ASSUME NEW n \in 0 .. m PROVE Start(hdus, n) <= s
    <3>1. CASE n = m
      BY <2>5, <3>1
    <3>2. CASE n \in 0 .. m - 1
      <4>1. Start(hdus, n) \in Int
        <5>1. CASE n = 0
          BY <5>1 DEF Start
        <5>2. CASE n # 0
          <6>1. n \in 1 .. Len(hdus)
            BY <5>2
          <6>2. hdus[n].data_offset \in Nat /\ hdus[n].data_len \in Nat
            BY <1>2, <6>1 DEF Hdu
          <6>3. Padded(hdus[n].data_len) \in Nat
            BY <6>2, PaddedFacts
          <6> QED
            BY <1>3, <6>1, <6>2, <6>3 DEF After
        <5> QED
          BY <5>1, <5>2
      <4> QED
        BY <2>2, <2>5, <3>2, <4>1
    <3> QED
      BY <3>1, <3>2
  <2> QED
    BY <2>2, <2>5, <2>6
<1> HIDE DEF T
<1>6. \A m \in 0 .. Len(hdus) : m \in T
  BY <1>1, <1>4, <1>5, BoundedInduction
<1>7. \A n \in 1 .. Len(hdus) : hdus[n].offset = Start(hdus, n - 1)
  <2> SUFFICES ASSUME NEW n \in 1 .. Len(hdus) PROVE hdus[n].offset = Start(hdus, n - 1)
    OBVIOUS
  <2>1. hdus[n] = HduOf(Start(hdus, n - 1), hdus[n].cards)
    BY DEF Linked
  <2>2. HduOf(Start(hdus, n - 1), hdus[n].cards).offset = Start(hdus, n - 1)
    BY DEF HduOf
  <2> QED
    BY <2>1, <2>2
<1> QED
  BY <1>1, <1>2, <1>3, <1>6, <1>7 DEF T

\* A file that parses is such a chain.
LEMMA ParsedIsChain ==
  ASSUME NEW file \in Seq(Cells), Parses(file)
  PROVE  Chain(file, Hdus(file))
<1> DEFINE walk == Walk(file)
           len == Len(file)
           T == {n \in 0 .. len : ~walk[n].failed =>
                   /\ Linked(file, walk[n].hdus)
                   /\ walk[n].off = Start(walk[n].hdus, Len(walk[n].hdus))
                   /\ (n <= walk[n].off \/ len <= walk[n].off)}
<1>1. /\ len \in Nat
      /\ \A n \in 0 .. len : walk[n] \in WalkState
      /\ walk[0] = [hdus |-> <<>>, off |-> 0, failed |-> FALSE]
      /\ \A n \in 1 .. len : walk[n] = Turn(file, walk[n - 1])
  BY WalkRecursion
<1> HIDE DEF walk, len
<1>2. 0 \in T
  <2>1. <<>> \in Seq(Hdu) /\ Len(<<>>) = 0
    BY EmptySeq
  <2>2. \A n \in 1 .. 0 : FALSE
    OBVIOUS
  <2>3. Linked(file, <<>>)
    BY <2>1, <2>2 DEF Linked
  <2>4. Start(<<>>, Len(<<>>)) = 0
    BY <2>1 DEF Start
  <2> QED
    BY <1>1, <2>3, <2>4
<1>3. ASSUME NEW n \in 1 .. len, n - 1 \in T PROVE n \in T
  <2> DEFINE at == walk[n - 1]
  <2>1. n - 1 \in 0 .. len /\ n \in 0 .. len
    BY <1>1
  <2>2. at \in WalkState /\ walk[n] = Turn(file, at)
    BY <1>1, <2>1
  <2>3. ~at.failed => /\ Linked(file, at.hdus)
                      /\ at.off = Start(at.hdus, Len(at.hdus))
                      /\ (n - 1 <= at.off \/ len <= at.off)
    BY <1>3
  <2>4. at.off \in Nat
    BY <2>2 DEF WalkState
  <2> HIDE DEF at
  <2>5. CASE at.failed \/ at.off >= len
    <3>1. walk[n] = at
      BY <2>2, <2>5 DEF Turn, len
    <3> QED
      BY <1>1, <2>1, <2>3, <2>4, <2>5, <3>1
  <2>6. CASE /\ ~(at.failed \/ at.off >= len)
             /\ ~(HasHeader(file, at.off) /\ Complete(file, HduAt(file, at.off)))
    <3>1. walk[n] = [at EXCEPT !.failed = TRUE]
      BY <2>2, <2>6 DEF Turn, len
    <3>2. walk[n].failed
      BY <2>2, <3>1 DEF WalkState
    <3> QED
      BY <2>1, <3>2
  <2>7. CASE /\ ~(at.failed \/ at.off >= len)
             /\ HasHeader(file, at.off) /\ Complete(file, HduAt(file, at.off))
    <3> DEFINE hdu == HduAt(file, at.off)
    <3>1. walk[n] = [hdus |-> Append(at.hdus, hdu), off |-> After(hdu), failed |-> FALSE]
      BY <2>2, <2>7 DEF Turn, len
    <3>2. /\ hdu = HduOf(at.off, hdu.cards) /\ HeaderAt(file, at.off, hdu.cards)
          /\ After(hdu) \in Nat /\ at.off + 1 <= After(hdu)
      BY <2>4, <2>7, ReadHdu
    <3>3. Complete(file, hdu)
      BY <2>7
    <3> HIDE DEF hdu
    <3>4. /\ Linked(file, Append(at.hdus, hdu))
          /\ Start(Append(at.hdus, hdu), Len(Append(at.hdus, hdu))) = After(hdu)
      <4>1. Linked(file, at.hdus) /\ at.off = Start(at.hdus, Len(at.hdus))
        BY <2>3, <2>7
      <4> QED
        BY <2>4, <3>2, <3>3, <4>1, LinkOneMore
    <3>5. n <= After(hdu) \/ len <= After(hdu)
      BY <1>1, <2>3, <2>4, <2>7, <3>2
    <3>6. walk[n].hdus = Append(at.hdus, hdu) /\ walk[n].off = After(hdu)
      BY <3>1
    <3>7. /\ Linked(file, walk[n].hdus)
          /\ walk[n].off = Start(walk[n].hdus, Len(walk[n].hdus))
          /\ (n <= walk[n].off \/ len <= walk[n].off)
      BY <3>4, <3>5, <3>6
    <3> QED
      BY <2>1, <3>7
  <2> QED
    BY <2>5, <2>6, <2>7
<1> HIDE DEF T
<1>4. len \in T
  <2>1. \A n \in 0 .. len : n \in T
    BY <1>1, <1>2, <1>3, BoundedInduction
  <2> QED
    BY <1>1, <2>1
<1>5. ~walk[len].failed /\ Hdus(file) = walk[len].hdus
  BY DEF Parses, Hdus, walk, len
<1> QED
  BY <1>1, <1>4, <1>5 DEF T, Chain, len

\* And a file with such a chain is parsed into it.
LEMMA ChainIsParsed ==
  ASSUME NEW file \in Seq(Cells), NEW hdus, Chain(file, hdus)
  PROVE  ~Walk(file)[Len(file)].failed /\ Hdus(file) = hdus
<1> DEFINE walk == Walk(file)
           len == Len(file)
           Upto(n) == IF n <= Len(hdus) THEN n ELSE Len(hdus)
           T == {n \in 0 .. len :
                   /\ ~walk[n].failed /\ walk[n].off = Start(hdus, Upto(n))
                   /\ walk[n].hdus \in Seq(Hdu) /\ Len(walk[n].hdus) = Upto(n)
                   /\ \A i \in 1 .. Upto(n) : walk[n].hdus[i] = hdus[i]}
<1>1. /\ len \in Nat
      /\ \A n \in 0 .. len : walk[n] \in WalkState
      /\ walk[0] = [hdus |-> <<>>, off |-> 0, failed |-> FALSE]
      /\ \A n \in 1 .. len : walk[n] = Turn(file, walk[n - 1])
  BY WalkRecursion
<1>2. /\ Linked(file, hdus) /\ len <= Start(hdus, Len(hdus)) /\ hdus \in Seq(Hdu)
      /\ Len(hdus) \in Nat
  BY LenProperties DEF Chain, Linked
<1> HIDE DEF walk, len
<1>3. 0 \in T
  <2>1. <<>> \in Seq(Hdu) /\ Len(<<>>) = 0
    BY EmptySeq
  <2>2. Upto(0) = 0 /\ Start(hdus, 0) = 0
    BY <1>2 DEF Start
  <2>3. \A n \in 1 .. 0 : FALSE
    OBVIOUS
  <2>4. ~walk[0].failed /\ walk[0].off = 0 /\ walk[0].hdus = <<>> /\ 0 \in 0 .. len
    BY <1>1
  <2> HIDE DEF Upto
  <2> QED
    BY <2>1, <2>2, <2>3, <2>4
<1>4. ASSUME NEW n \in 1 .. len, n - 1 \in T PROVE n \in T
  <2> DEFINE at == walk[n - 1]
  <2>1. n - 1 \in 0 .. len /\ n \in 0 .. len /\ n \in Nat
    BY <1>1
  <2>2. at \in WalkState /\ walk[n] = Turn(file, at)
    BY <1>1, <2>1
  <2>3. /\ ~at.failed /\ at.off = Start(hdus, Upto(n - 1))
        /\ at.hdus \in Seq(Hdu) /\ Len(at.hdus) = Upto(n - 1)
        /\ \A i \in 1 .. Upto(n - 1) : at.hdus[i] = hdus[i]
    BY <1>4
  <2> HIDE DEF at
  <2>4. CASE n <= Len(hdus)
    <3>1. Upto(n - 1) = n - 1 /\ Upto(n) = n /\ n \in 1 .. Len(hdus)
      BY <1>2, <2>1, <2>4
    <3> HIDE DEF Upto
    <3>2. /\ hdus[n] = HduOf(at.off, hdus[n].cards)
          /\ HeaderAt(file, at.off, hdus[n].cards)
          /\ Complete(file, hdus[n])
      BY <1>2, <2>3, <3>1 DEF Linked
    <3>3. at.off \in Nat /\ hdus[n] \in Hdu /\ hdus[n].cards \in Seq(Cells)
      BY <1>2, <2>2, <3>1, LinkedOrder DEF WalkState
    <3>4. HasHeader(file, at.off) /\ HduAt(file, at.off) = hdus[n]
      BY <3>2, <3>3, FoundHeader
    <3>5. at.off < len
      <4>1. at.off + Padded(Len(hdus[n].cards) + 1) <= len
        BY <3>2 DEF HeaderAt, len
      <4>2. /\ Len(hdus[n].cards) \in Nat /\ Padded(Len(hdus[n].cards) + 1) \in Nat
            /\ Len(hdus[n].cards) + 1 <= Padded(Len(hdus[n].cards) + 1)
        BY <3>3, HduOfFacts
      <4> QED
        BY <1>1, <3>3, <4>1, <4>2
    <3>6. walk[n] = [hdus |-> Append(at.hdus, hdus[n]), off |-> After(hdus[n]), failed |-> FALSE]
      <4>1. ~(at.failed \/ at.off >= len)
        BY <1>1, <2>3, <3>3, <3>5
      <4> QED
        BY <2>2, <3>2, <3>4, <4>1 DEF Turn, len
    <3>7. /\ Append(at.hdus, hdus[n]) \in Seq(Hdu)
          /\ Len(Append(at.hdus, hdus[n])) = n
          /\ \A i \in 1 .. n - 1 : Append(at.hdus, hdus[n])[i] = hdus[i]
          /\ Append(at.hdus, hdus[n])[n] = hdus[n]
      <4>1. Len(at.hdus) = n - 1 /\ (n - 1) + 1 = n
        BY <2>1, <2>3, <3>1
      <4>2. /\ Append(at.hdus, hdus[n]) \in Seq(Hdu)
            /\ Len(Append(at.hdus, hdus[n])) = Len(at.hdus) + 1
            /\ \A i \in 1 .. Len(at.hdus) : Append(at.hdus, hdus[n])[i] = at.hdus[i]
            /\ Append(at.hdus, hdus[n])[Len(at.hdus) + 1] = hdus[n]
        BY <2>3, <3>3, Pushed
      <4> QED
        BY <2>3, <3>1, <4>1, <4>2
    <3>8. \A i \in 1 .. n : Append(at.hdus, hdus[n])[i] = hdus[i]
      <4>1. \A i \in 1 .. n : i = n \/ i \in 1 .. n - 1
        BY <2>1
      <4> QED
        BY <3>7, <4>1
    <3>9. Start(hdus, n) = After(hdus[n])
      BY <3>1 DEF Start
    <3>10. ~walk[n].failed /\ walk[n].off = After(hdus[n]) /\ walk[n].hdus = Append(at.hdus, hdus[n])
      BY <3>6
    <3> QED
      BY <2>1, <3>1, <3>7, <3>8, <3>9, <3>10
  <2>5. CASE ~(n <= Len(hdus))
    <3>1. Upto(n - 1) = Len(hdus) /\ Upto(n) = Len(hdus)
      BY <1>2, <2>1, <2>5
    <3>2. at.off >= len
      <4>1. at.off \in Nat
        BY <2>2 DEF WalkState
      <4> QED
        BY <1>1, <1>2, <2>3, <3>1, <4>1
    <3>3. walk[n] = at
      BY <2>2, <3>2 DEF Turn, len
    <3> HIDE DEF Upto
    <3> QED
      BY <2>1, <2>3, <3>1, <3>3
  <2> QED
    BY <2>4, <2>5
<1> HIDE DEF T
<1>5. len \in T
  <2>1. \A n \in 0 .. len : n \in T
    BY <1>1, <1>3, <1>4, BoundedInduction
  <2> QED
    BY <1>1, <2>1
<1>6. Len(hdus) <= len
  <2>1. CASE Len(hdus) = 0
    BY <1>1, <2>1
  <2>2. CASE Len(hdus) # 0
    <3> DEFINE n == Len(hdus)
               off == Start(hdus, n - 1)
    <3>1. n \in 1 .. Len(hdus) /\ n - 1 \in 0 .. Len(hdus)
      BY <1>2, <2>2
    <3>2. off \in Nat /\ n - 1 <= off /\ hdus[n].cards \in Seq(Cells)
      BY <1>2, <3>1, LinkedOrder
    <3>3. off + Padded(Len(hdus[n].cards) + 1) <= len
      BY <1>2, <3>1 DEF Linked, HeaderAt, len
    <3>4. /\ Len(hdus[n].cards) \in Nat /\ Padded(Len(hdus[n].cards) + 1) \in Nat
          /\ Len(hdus[n].cards) + 1 <= Padded(Len(hdus[n].cards) + 1)
      BY <3>2, HduOfFacts
    <3> HIDE DEF off
    <3> QED
      BY <1>1, <1>2, <3>2, <3>3, <3>4
  <2> QED
    BY <2>1, <2>2
<1>7. Upto(len) = Len(hdus)
  BY <1>1, <1>2, <1>6
<1>8. /\ ~walk[len].failed
      /\ walk[len].hdus \in Seq(Hdu) /\ Len(walk[len].hdus) = Len(hdus)
      /\ \A i \in 1 .. Len(hdus) : walk[len].hdus[i] = hdus[i]
  <2> HIDE DEF Upto
  <2> QED
    BY <1>5, <1>7 DEF T
<1>9. walk[len].hdus = hdus
  BY <1>2, <1>8, SeqEqual
<1> QED
  BY <1>8, <1>9 DEF Hdus, walk, len

-----------------------------------------------------------------------------
(* A file with a new header for one of its HDUs.                            *)

Spliced(file, a, block, b) == SubSeq(file, 1, a) \o block \o SubSeq(file, b + 1, Len(file))

Rewritten(file, hdu, cards) == Spliced(file, hdu.offset, HeaderBlock(cards), hdu.data_offset)

\* What is in such a file.
SplicedCells(new, file, a, block, b, l, m) ==
  /\ new \in Seq(Cells)
  /\ Len(new) = a + m + (l - b)
  /\ \A i \in 1 .. a : new[i] = file[i]
  /\ \A i \in 1 .. m : new[a + i] = block[i]
  /\ \A i \in b + 1 .. l : new[i + (a + m - b)] = file[i]

\* Where the cells of the old file and of the block are in the new one.
LEMMA RewrittenCells ==
  ASSUME NEW file \in Seq(Cells), NEW block \in Seq(Cells), NEW a \in Nat, NEW b \in Nat,
         NEW l \in Nat, NEW m \in Nat, l = Len(file), m = Len(block), a <= b, b <= l
  PROVE  SplicedCells(Spliced(file, a, block, b), file, a, block, b, l, m)
<1> DEFINE before == SubSeq(file, 1, a)
           behind == SubSeq(file, b + 1, Len(file))
           front == before \o block
           new == front \o behind
<1>1. \A i \in 1 .. l : file[i] \in Cells
  BY LenProperties
<1>2. before \in Seq(Cells) /\ Len(before) = a /\ \A i \in 1 .. a : before[i] = file[i]
  <2>1. \A i \in 1 .. a : file[i] \in Cells
    BY <1>1
  <2>2. /\ SubSeq(file, 1, a) \in Seq(Cells)
        /\ Len(SubSeq(file, 1, a)) = IF 1 <= a THEN a - 1 + 1 ELSE 0
        /\ \A i \in 1 .. a - 1 + 1 : SubSeq(file, 1, a)[i] = file[1 + i - 1]
    BY <2>1, SubSeqProperties
  <2>3. \A i \in 1 .. a : i \in 1 .. a - 1 + 1 /\ 1 + i - 1 = i
    OBVIOUS
  <2> QED
    BY <2>2, <2>3
<1>3. behind \in Seq(Cells) /\ Len(behind) = l - b /\ \A i \in 1 .. l - b : behind[i] = file[b + i]
  <2>1. b + 1 \in 1 .. Len(file) + 1
    OBVIOUS
  <2>2. /\ behind \in Seq(Cells) /\ Len(behind) = Len(file) - (b + 1) + 1
        /\ \A i \in 1 .. Len(behind) : behind[i] = file[(b + 1) + i - 1]
    BY <2>1, Ending
  <2> HIDE DEF behind
  <2>3. Len(behind) = l - b
    BY <2>2
  <2>4. ASSUME NEW i \in 1 .. l - b PROVE behind[i] = file[b + i]
    <3>1. (b + 1) + i - 1 = b + i /\ i \in 1 .. Len(behind)
      BY <2>3
    <3>2. behind[i] = file[(b + 1) + i - 1]
      BY <2>2, <3>1
    <3> QED
      BY <3>1, <3>2
  <2> QED
    BY <2>2, <2>3, <2>4
<1> HIDE DEF before, behind
<1>4. before \in Seq(Cells) /\ behind \in Seq(Cells) /\ Len(before) = a /\ Len(behind) = l - b
  BY <1>2, <1>3
<1>5. /\ front \in Seq(Cells) /\ Len(front) = a + m
      /\ \A i \in 1 .. a + m : front[i] = IF i <= a THEN before[i] ELSE block[i - a]
  <2>1. before \in Seq(Cells) /\ block \in Seq(Cells)
    BY <1>4
  <2>2. /\ front \in Seq(Cells) /\ Len(front) = Len(before) + Len(block)
        /\ \A i \in 1 .. Len(before) + Len(block) :
             front[i] = IF i <= Len(before) THEN before[i] ELSE block[i - Len(before)]
    BY <2>1, ConcatProperties
  <2> HIDE DEF front
  <2>3. Len(before) = a /\ Len(block) = m
    BY <1>4
  <2> QED
    BY <2>2, <2>3
<1> HIDE DEF front
<1>6. front \in Seq(Cells) /\ Len(front) = a + m
  BY <1>5
<1>7. /\ new \in Seq(Cells) /\ Len(new) = a + m + (l - b)
      /\ \A i \in 1 .. a + m + (l - b) :
           new[i] = IF i <= a + m THEN front[i] ELSE behind[i - (a + m)]
  <2>1. /\ new \in Seq(Cells) /\ Len(new) = Len(front) + Len(behind)
        /\ \A i \in 1 .. Len(front) + Len(behind) :
             new[i] = IF i <= Len(front) THEN front[i] ELSE behind[i - Len(front)]
    <3>1. front \in Seq(Cells) /\ behind \in Seq(Cells)
      BY <1>4, <1>6
    <3> QED
      BY <3>1, ConcatProperties
  <2>2. Len(front) = a + m /\ Len(behind) = l - b
    BY <1>4, <1>6
  <2> HIDE DEF new
  <2> QED
    BY <2>1, <2>2
<1> HIDE DEF new
<1>8. ASSUME NEW i \in 1 .. a PROVE new[i] = file[i]
  <2>1. i \in 1 .. a + m /\ i <= a /\ i \in 1 .. a + m + (l - b) /\ i <= a + m
    OBVIOUS
  <2>2. new[i] = front[i]
    BY <1>7, <2>1
  <2>3. front[i] = before[i]
    BY <1>5, <2>1
  <2> QED
    BY <1>2, <2>2, <2>3
<1>9. ASSUME NEW i \in 1 .. m PROVE new[a + i] = block[i]
  <2>1. /\ a + i \in 1 .. a + m /\ ~(a + i <= a) /\ (a + i) - a = i
        /\ a + i \in 1 .. a + m + (l - b) /\ a + i <= a + m
    OBVIOUS
  <2>2. new[a + i] = front[a + i]
    BY <1>7, <2>1
  <2>3. front[a + i] = block[i]
    BY <1>5, <2>1
  <2> QED
    BY <2>2, <2>3
<1>10. ASSUME NEW i \in b + 1 .. l PROVE new[i + (a + m - b)] = file[i]
  <2> DEFINE k == i + (a + m - b)
  <2>1. k \in 1 .. a + m + (l - b) /\ ~(k <= a + m) /\ k - (a + m) = i - b
    OBVIOUS
  <2>2. i - b \in 1 .. l - b /\ b + (i - b) = i
    OBVIOUS
  <2> HIDE DEF k
  <2>3. new[k] = behind[i - b]
    BY <1>7, <2>1
  <2>4. behind[i - b] = file[b + (i - b)]
    BY <1>3, <2>2
  <2>5. new[k] = file[i]
    BY <2>2, <2>3, <2>4
  <2> QED
    BY <2>5 DEF k
<1>11. new = Spliced(file, a, block, b)
  BY DEF Spliced, new, front, before, behind
<1> QED
  BY <1>7, <1>8, <1>9, <1>10, <1>11 DEF SplicedCells

\* A header that is copied to another place.
LEMMA MovedHeader ==
  ASSUME NEW file, NEW new \in Seq(Cells), NEW off \in Nat, NEW to \in Nat, NEW cards,
         HeaderAt(file, off, cards),
         \A i \in 1 .. Padded(Len(cards) + 1) : new[to + i] = file[off + i],
         to + Padded(Len(cards) + 1) <= Len(new)
  PROVE  HeaderAt(new, to, cards)
<1>1. cards \in Seq(Cells)
  BY DEF HeaderAt
<1>2. /\ Len(cards) \in Nat /\ Padded(Len(cards) + 1) \in Nat
      /\ Len(cards) + 1 <= Padded(Len(cards) + 1)
  BY <1>1, HduOfFacts
<1>3. \A i \in 1 .. Len(cards) : cards[i] # End /\ new[to + i] = cards[i]
  <2>1. \A i \in 1 .. Len(cards) : i \in 1 .. Padded(Len(cards) + 1)
    BY <1>2
  <2> QED
    BY <2>1 DEF HeaderAt
<1>4. new[to + Len(cards) + 1] = End
  <2>1. /\ Len(cards) + 1 \in 1 .. Padded(Len(cards) + 1)
        /\ to + (Len(cards) + 1) = to + Len(cards) + 1
        /\ off + (Len(cards) + 1) = off + Len(cards) + 1
    BY <1>2
  <2>2. new[to + (Len(cards) + 1)] = file[off + (Len(cards) + 1)]
    BY <2>1
  <2>3. file[off + Len(cards) + 1] = End
    BY DEF HeaderAt
  <2> QED
    BY <2>1, <2>2, <2>3
<1> QED
  BY <1>1, <1>3, <1>4 DEF HeaderAt

SameCells(new, to, file, off, n) == \A i \in 1 .. n : new[to + i] = file[off + i]
Slice(file, off, n) == SubSeq(file, off + 1, off + n)

\* The same cells in another place of another file.
LEMMA MovedCells ==
  ASSUME NEW file \in Seq(Cells), NEW new, NEW off \in Nat, NEW to \in Nat, NEW n \in Nat,
         off + n <= Len(file), SameCells(new, to, file, off, n)
  PROVE  Slice(new, to, n) = Slice(file, off, n)
<1>1. Len(file) \in Nat /\ \A i \in 1 .. Len(file) : file[i] \in Cells
  BY LenProperties
<1>2. \A i \in off + 1 .. off + n : file[i] \in Cells
  BY <1>1
<1>3. ASSUME NEW i \in to + 1 .. to + n PROVE new[i] \in Cells
  <2>1. i - to \in 1 .. n /\ to + (i - to) = i /\ off + (i - to) \in 1 .. Len(file)
    BY <1>1
  <2>2. new[to + (i - to)] = file[off + (i - to)]
    BY <2>1 DEF SameCells
  <2> QED
    BY <1>1, <2>1, <2>2
<1> DEFINE x == SubSeq(new, to + 1, to + n)
           y == SubSeq(file, off + 1, off + n)
<1>4. /\ x \in Seq(Cells) /\ Len(x) = IF to + 1 <= to + n THEN (to + n) - (to + 1) + 1 ELSE 0
      /\ \A i \in 1 .. (to + n) - (to + 1) + 1 : x[i] = new[(to + 1) + i - 1]
  <2>1. PICK first \in Int, last \in Int : first = to + 1 /\ last = to + n
    OBVIOUS
  <2>2. \A i \in first .. last : new[i] \in Cells
    BY <1>3, <2>1
  <2>3. /\ SubSeq(new, first, last) \in Seq(Cells)
        /\ Len(SubSeq(new, first, last)) = IF first <= last THEN last - first + 1 ELSE 0
        /\ \A i \in 1 .. last - first + 1 : SubSeq(new, first, last)[i] = new[first + i - 1]
    BY SMTT(20), <2>2, SubSeqProperties
  <2> QED
    BY <2>1, <2>3
<1>5. /\ y \in Seq(Cells) /\ Len(y) = IF off + 1 <= off + n THEN (off + n) - (off + 1) + 1 ELSE 0
      /\ \A i \in 1 .. (off + n) - (off + 1) + 1 : y[i] = file[(off + 1) + i - 1]
  <2>1. off + 1 \in Int /\ off + n \in Int
    OBVIOUS
  <2> QED
    BY <1>2, <2>1, SubSeqProperties
<1> HIDE DEF x, y
<1>6. Len(x) = n /\ Len(y) = n
  BY <1>4, <1>5
<1>7. ASSUME NEW i \in 1 .. n PROVE x[i] = y[i]
  <2>1. /\ i \in 1 .. (to + n) - (to + 1) + 1 /\ (to + 1) + i - 1 = to + i
        /\ i \in 1 .. (off + n) - (off + 1) + 1 /\ (off + 1) + i - 1 = off + i
    OBVIOUS
  <2>2. x[i] = new[to + i] /\ y[i] = file[off + i]
    BY <1>4, <1>5, <2>1
  <2> QED
    BY <2>2 DEF SameCells
<1>8. x = y
  BY <1>4, <1>5, <1>6, <1>7, SeqEqual
<1> QED
  BY <1>8 DEF Slice, x, y

\* The cells by which what follows the rewritten header moves.
Shift(hdus, j, cards) == Padded(Len(cards) + 1) - Padded(Len(hdus[j].cards) + 1)

\* A range of cells that moves by d stays in a file that grows by d.
LEMMA MovedRange ==
  ASSUME NEW off \in Nat, NEW h \in Nat, NEW l \in Nat, NEW size \in Nat, NEW d \in Int,
         NEW to \in Nat, to = off + d, off + h + l <= size
  PROVE  /\ to + h <= size + d /\ to + h + l <= size + d
         /\ off + h \in Nat /\ to + h \in Nat
  OBVIOUS

\* The HDUs of the new file.
Moved(hdus, j, cards) ==
  [n \in 1 .. Len(hdus) |->
     IF n < j THEN hdus[n]
     ELSE IF n = j THEN HduOf(hdus[j].offset, cards)
     ELSE HduOf(hdus[n].offset + Shift(hdus, j, cards), hdus[n].cards)]

\* The HDUs of the new file are the old ones, with the cards for HDU j and what
\* is behind it moved.
LEMMA Rewrite ==
  ASSUME NEW file \in Seq(Cells), NEW hdus, Chain(file, hdus), NEW j \in 1 .. Len(hdus),
         NEW cards \in Seq(Cells), \A i \in 1 .. Len(cards) : cards[i] # End,
         DataLen(cards) = DataLen(hdus[j].cards)
  PROVE  LET new == Rewritten(file, hdus[j], cards)
             moved == Moved(hdus, j, cards)
         IN /\ new \in Seq(Cells)
            /\ Chain(new, moved)
            /\ Len(moved) = Len(hdus)
            /\ \A n \in 1 .. Len(hdus) : moved[n].cards = IF n = j THEN cards ELSE hdus[n].cards
            /\ \A n \in 1 .. Len(hdus) : Pixels(new, moved[n]) = Pixels(file, hdus[n])
            /\ Len(new) % PerBlock = Len(file) % PerBlock
            /\ hdus[j].offset \in Nat
            /\ \A i \in 1 .. hdus[j].offset : new[i] = file[i]
            /\ \A i \in 1 .. Len(cards) : new[hdus[j].offset + i] = cards[i]
<1> DEFINE old == hdus[j].cards
           new == Rewritten(file, hdus[j], cards)
           moved == Moved(hdus, j, cards)
           block == HeaderBlock(cards)
<1>1. /\ Linked(file, hdus) /\ Len(file) <= Start(hdus, Len(hdus))
      /\ hdus \in Seq(Hdu) /\ Len(hdus) \in Nat /\ Len(file) \in Nat
  BY LenProperties DEF Chain, Linked
<1>2. /\ \A n \in 1 .. Len(hdus) :
           /\ hdus[n].cards \in Seq(Cells) /\ hdus[n].offset = Start(hdus, n - 1)
           /\ Start(hdus, n) = After(hdus[n])
      /\ \A n \in 0 .. Len(hdus) : Start(hdus, n) \in Nat
      /\ \A m \in 0 .. Len(hdus) : \A n \in 0 .. m : Start(hdus, n) <= Start(hdus, m)
  BY <1>1, LinkedOrder
\* What is known of HDU n.
<1> DEFINE Facts(n) ==
      LET off == hdus[n].offset
          h == Padded(Len(hdus[n].cards) + 1)
          l == DataLen(hdus[n].cards)
      IN /\ off \in Nat /\ h \in Nat /\ l \in Nat /\ Padded(l) \in Nat
         /\ hdus[n] = HduOf(off, hdus[n].cards)
         /\ hdus[n].data_offset = off + h /\ hdus[n].data_len = l
         /\ After(hdus[n]) = off + h + Padded(l) /\ l <= Padded(l)
         /\ HeaderAt(file, off, hdus[n].cards)
         /\ off + h + l <= Len(file)
<1>3. ASSUME NEW n \in 1 .. Len(hdus) PROVE Facts(n)
  <2>1. n - 1 \in 0 .. Len(hdus)
    BY <1>1
  <2>2. PICK off \in Nat : off = hdus[n].offset /\ off = Start(hdus, n - 1)
    BY <1>2, <2>1
  <2>3. PICK c \in Seq(Cells) : c = hdus[n].cards
    BY <1>2
  <2>4. hdus[n] = HduOf(off, c) /\ HeaderAt(file, off, c) /\ Complete(file, hdus[n])
    BY <1>1, <2>2, <2>3 DEF Linked
  <2>5. /\ HduOf(off, c).data_offset = off + Padded(Len(c) + 1)
        /\ HduOf(off, c).data_len = DataLen(c)
        /\ Padded(Len(c) + 1) \in Nat /\ DataLen(c) \in Nat
        /\ After(HduOf(off, c)) = off + Padded(Len(c) + 1) + Padded(DataLen(c))
    BY HduOfFacts
  <2>6. Padded(DataLen(c)) \in Nat /\ DataLen(c) <= Padded(DataLen(c))
    BY <2>5, PaddedFacts
  <2>7. off + Padded(Len(c) + 1) + DataLen(c) <= Len(file)
    BY <2>4, <2>5 DEF Complete
  <2> QED
    BY <2>2, <2>3, <2>4, <2>5, <2>6, <2>7
<1>4. PICK a \in Nat, h \in Nat, l \in Nat, p \in Nat, size \in Nat :
        /\ a = hdus[j].offset /\ h = Padded(Len(old) + 1) /\ l = DataLen(old) /\ p = Padded(l)
        /\ hdus[j].data_offset = a + h /\ hdus[j].data_len = l
        /\ After(hdus[j]) = a + h + p /\ size = Len(file)
        /\ l <= p /\ a + h + l <= size
  BY <1>1, <1>3
<1>5. PICK k \in Nat, d \in Int : k = Padded(Len(cards) + 1) /\ d = k - h
  <2>1. PICK k \in Nat : k = Padded(Len(cards) + 1)
    BY HduOfFacts
  <2> QED
    BY <2>1
\* The arithmetic of the places.
<1>6. l <= p /\ a + h + l <= size /\ d = k - h
  BY <1>4, <1>5
<1>7. /\ block \in Seq(Cells) /\ Len(block) = k /\ Len(cards) \in Nat
      /\ Len(cards) + 1 <= k
      /\ \A i \in 1 .. Len(cards) : block[i] = cards[i]
  BY <1>5, HeaderBlockFacts
<1>8. /\ new \in Seq(Cells) /\ Len(new) = size + d
      /\ \A i \in 1 .. a : new[i] = file[i]
      /\ \A i \in 1 .. k : new[a + i] = block[i]
      /\ \A i \in a + h + 1 .. size : new[i + d] = file[i]
  <2>1. new = Spliced(file, a, block, a + h)
    BY <1>4 DEF Rewritten
  <2>2. a + h \in Nat /\ a <= a + h /\ a + h <= size
    BY <1>6
  <2>3. block \in Seq(Cells) /\ k = Len(block) /\ size = Len(file)
    BY <1>4, <1>7
  <2> HIDE DEF new, block
  <2>4. /\ new \in Seq(Cells)
        /\ Len(new) = a + k + (size - (a + h))
        /\ \A i \in 1 .. a : new[i] = file[i]
        /\ \A i \in 1 .. k : new[a + i] = block[i]
        /\ \A i \in (a + h) + 1 .. size : new[i + (a + k - (a + h))] = file[i]
    <3>1. PICK b \in Nat : b = a + h
      OBVIOUS
    <3>2. new = Spliced(file, a, block, b)
      BY <2>1, <3>1
    <3>3. block \in Seq(Cells) /\ k = Len(block) /\ size = Len(file) /\ a <= b /\ b <= size
      BY <2>2, <2>3, <3>1
    <3>4. SplicedCells(new, file, a, block, b, size, k)
      BY <3>2, <3>3, RewrittenCells
    <3> QED
      BY <3>1, <3>4 DEF SplicedCells
  <2>5. /\ a + k - (a + h) = d /\ a + k + (size - (a + h)) = size + d
        /\ (a + h) + 1 = a + h + 1
    BY <1>6
  <2>6. \A i \in a + h + 1 .. size : new[i + d] = file[i]
    BY <2>4, <2>5
  <2> QED
    BY <2>4, <2>5, <2>6
<1>9. Len(file) = size /\ Len(new) = size + d /\ new \in Seq(Cells) /\ d = Shift(hdus, j, cards)
  BY <1>4, <1>5, <1>8 DEF Shift
<1> HIDE DEF new, moved, block
<1>10. /\ Len(moved) = Len(hdus)
       /\ \A n \in 1 .. Len(hdus) : n < j => moved[n] = hdus[n]
       /\ moved[j] = HduOf(a, cards)
       /\ \A n \in 1 .. Len(hdus) : n > j => moved[n] = HduOf(hdus[n].offset + d, hdus[n].cards)
  <2>1. DOMAIN moved = 1 .. Len(hdus)
    BY DEF moved, Moved
  <2>2. moved = [n \in 1 .. Len(hdus) |-> moved[n]]
    BY <2>1 DEF moved, Moved
  <2>3. Len(moved) = Len(hdus)
    BY <1>1, <2>1, <2>2
  <2>4. \A n \in 1 .. Len(hdus) :
          moved[n] = IF n < j THEN hdus[n]
                     ELSE IF n = j THEN HduOf(hdus[j].offset, cards)
                     ELSE HduOf(hdus[n].offset + Shift(hdus, j, cards), hdus[n].cards)
    BY DEF moved, Moved
  <2>5. \A n \in 1 .. Len(hdus) : n > j => ~(n < j) /\ n # j
    OBVIOUS
  <2>6. ~(j < j)
    OBVIOUS
  <2> QED
    BY <1>4, <1>9, <2>3, <2>4, <2>5, <2>6
<1> DEFINE Good(n, off) ==
      /\ off \in Nat /\ moved[n] \in Hdu
      /\ moved[n] = HduOf(off, moved[n].cards)
      /\ HeaderAt(new, off, moved[n].cards)
      /\ Complete(new, moved[n])
      /\ moved[n].cards = (IF n = j THEN cards ELSE hdus[n].cards)
      /\ Pixels(new, moved[n]) = Pixels(file, hdus[n])
\* In front of the image nothing moves.
<1>11. ASSUME NEW n \in 1 .. Len(hdus), n < j PROVE Good(n, hdus[n].offset) /\ After(moved[n]) = After(hdus[n])
  <2>1. PICK off \in Nat, hn \in Nat, ln \in Nat, pn \in Nat :
          /\ off = hdus[n].offset /\ hn = Padded(Len(hdus[n].cards) + 1)
          /\ ln = DataLen(hdus[n].cards) /\ pn = Padded(ln) /\ ln <= pn
          /\ hdus[n] = HduOf(off, hdus[n].cards)
          /\ hdus[n].data_offset = off + hn /\ hdus[n].data_len = ln
          /\ After(hdus[n]) = off + hn + pn
          /\ HeaderAt(file, off, hdus[n].cards)
    BY <1>3
  <2>2. off + hn + pn <= a /\ ln <= pn
    <3>1. j - 1 \in 0 .. Len(hdus) /\ n \in 0 .. j - 1
      BY <1>1, <1>11
    <3>2. Start(hdus, n) <= Start(hdus, j - 1)
      BY <1>2, <3>1
    <3> QED
      BY <1>2, <1>4, <2>1, <3>2
  <2>3. moved[n] = hdus[n] /\ hdus[n] \in Hdu
    BY <1>1, <1>10, <1>11, LenProperties
  <2>4. HeaderAt(new, off, hdus[n].cards)
    <3>1. \A i \in 1 .. hn : off + i \in 1 .. a
      BY <2>2
    <3>2. \A i \in 1 .. hn : new[off + i] = file[off + i]
      BY <1>8, <3>1
    <3>3. off + hn <= size + d
      BY <1>6, <2>2
    <3>4. PICK c \in Seq(Cells) : c = hdus[n].cards
      BY <1>2
    <3>5. HeaderAt(file, off, c) /\ new \in Seq(Cells)
      BY <1>9, <2>1, <3>4
    <3>6. \A i \in 1 .. Padded(Len(c) + 1) : new[off + i] = file[off + i]
      BY <2>1, <3>2, <3>4
    <3>7. off + Padded(Len(c) + 1) <= Len(new)
      BY <1>9, <2>1, <3>3, <3>4
    <3>8. HeaderAt(new, off, c)
      BY <3>5, <3>6, <3>7, MovedHeader
    <3> QED
      BY <3>4, <3>8
  <2>5. Complete(new, hdus[n])
    <3>1. off + hn + ln <= size + d
      BY <1>6, <2>2
    <3> QED
      BY <1>9, <2>1, <3>1 DEF Complete
  <2>6. Pixels(new, hdus[n]) = Pixels(file, hdus[n])
    <3> DEFINE o == off + hn
    <3>1. o \in Nat /\ o + ln <= size /\ \A i \in 1 .. ln : o + i \in 1 .. a
      BY <1>6, <2>2
    <3> HIDE DEF o
    <3>2. \A i \in 1 .. ln : new[o + i] = file[o + i]
      BY <1>8, <3>1
    <3>3. Slice(new, o, ln) = Slice(file, o, ln)
      <4>1. o + ln <= Len(file)
        BY <1>9, <3>1
      <4>2. o \in Nat /\ SameCells(new, o, file, o, ln)
        BY <3>1, <3>2 DEF SameCells
      <4> QED
        BY <4>1, <4>2, MovedCells
    <3> QED
      BY <2>1, <3>3 DEF Pixels, Slice, o
  <2>7. n # j
    BY <1>11
  <2> QED
    BY <2>1, <2>3, <2>4, <2>5, <2>6, <2>7
\* The image has its new header and its old data.
<1>12. Good(j, a) /\ After(moved[j]) = After(hdus[j]) + d
  <2>1. /\ HduOf(a, cards) \in Hdu /\ HduOf(a, cards).cards = cards
        /\ HduOf(a, cards).data_offset = a + k /\ HduOf(a, cards).data_len = l
        /\ After(HduOf(a, cards)) = a + k + p
    <3>1. /\ HduOf(a, cards) \in Hdu /\ HduOf(a, cards).cards = cards
          /\ HduOf(a, cards).data_offset = a + Padded(Len(cards) + 1)
          /\ HduOf(a, cards).data_len = DataLen(cards)
          /\ After(HduOf(a, cards)) = a + Padded(Len(cards) + 1) + Padded(DataLen(cards))
      BY ZenonT(30), HduOfFacts
    <3>2. DataLen(cards) = l
      BY <1>4
    <3> QED
      BY <1>4, <1>5, <3>1, <3>2
  <2>2. HeaderAt(new, a, cards)
    <3>1. Len(block) = k /\ a + Len(block) <= Len(new)
      <4>1. a + k <= size + d
        BY <1>6
      <4> QED
        BY <1>7, <1>9, <4>1
    <3>2. \A i \in 1 .. Len(block) : new[a + i] = block[i]
      BY <1>8, <3>1
    <3> QED
      BY <1>9, <3>1, <3>2, WrittenHeader DEF block
  <2>3. Complete(new, HduOf(a, cards))
    <3>1. a + k + l <= size + d
      BY <1>6
    <3> QED
      BY <1>9, <2>1, <3>1 DEF Complete
  <2>4. Pixels(new, HduOf(a, cards)) = Pixels(file, hdus[j])
    <3> DEFINE o == a + h
               to == a + k
    <3>1. o \in Nat /\ to \in Nat /\ o + l <= size
      BY SMTT(20), <1>6
    <3>2. \A i \in 1 .. l : o + i \in a + h + 1 .. size /\ (o + i) + d = to + i
      BY <1>6
    <3> HIDE DEF o, to
    <3>3. \A i \in 1 .. l : new[to + i] = file[o + i]
      BY <1>8, <3>2
    <3>4. Slice(new, to, l) = Slice(file, o, l)
      <4>1. o + l <= Len(file)
        BY <1>9, <3>1
      <4>2. o \in Nat /\ to \in Nat /\ SameCells(new, to, file, o, l)
        BY <3>1, <3>3 DEF SameCells
      <4> QED
        BY <4>1, <4>2, MovedCells
    <3> QED
      BY <1>4, <2>1, <3>4 DEF Pixels, Slice, o, to
  <2>5. After(moved[j]) = After(hdus[j]) + d
    <3>1. a + k + p = (a + h + p) + d
      <4>1. d = k - h
        BY <1>6
      <4> QED
        BY <4>1
    <3> QED
      BY <1>4, <1>10, <2>1, <3>1
  <2>6. moved[j] = HduOf(a, cards)
    BY <1>10
  <2> HIDE DEF Shift
  <2> QED
    BY <2>1, <2>2, <2>3, <2>4, <2>5, <2>6
\* What follows it moves as it is.
<1>13. ASSUME NEW n \in 1 .. Len(hdus), n > j
       PROVE  Good(n, hdus[n].offset + d) /\ After(moved[n]) = After(hdus[n]) + d
  <2>1. PICK off \in Nat, hn \in Nat, ln \in Nat, pn \in Nat :
          /\ off = hdus[n].offset /\ hn = Padded(Len(hdus[n].cards) + 1)
          /\ ln = DataLen(hdus[n].cards) /\ pn = Padded(ln) /\ ln <= pn
          /\ hdus[n].data_offset = off + hn /\ hdus[n].data_len = ln
          /\ After(hdus[n]) = off + hn + pn
          /\ HeaderAt(file, off, hdus[n].cards)
          /\ off + hn + ln <= Len(file)
    BY <1>3
  <2>2. a + h + p <= off /\ ln <= pn /\ off + hn + ln <= size
    <3>1. n - 1 \in 0 .. Len(hdus) /\ j \in 0 .. n - 1
      BY <1>1, <1>13
    <3>2. Start(hdus, j) <= Start(hdus, n - 1)
      BY <1>2, <3>1
    <3>3. Start(hdus, j) = a + h + p /\ Start(hdus, n - 1) = off
      BY <1>2, <1>4, <2>1
    <3> QED
      BY <1>4, <2>1, <3>2, <3>3
  <2>3. PICK to \in Nat : to = off + d
    <3>1. off + d \in Nat
      BY <1>6, <2>2
    <3> QED
      BY <3>1
  <2>4. PICK c \in Seq(Cells) : c = hdus[n].cards
    BY <1>2
  <2>5. /\ HduOf(to, c) \in Hdu /\ HduOf(to, c).cards = c
        /\ HduOf(to, c).data_offset = to + hn /\ HduOf(to, c).data_len = ln
        /\ After(HduOf(to, c)) = to + hn + pn
    <3>1. /\ HduOf(to, c) \in Hdu /\ HduOf(to, c).cards = c
          /\ HduOf(to, c).data_offset = to + Padded(Len(c) + 1)
          /\ HduOf(to, c).data_len = DataLen(c)
          /\ After(HduOf(to, c)) = to + Padded(Len(c) + 1) + Padded(DataLen(c))
      BY ZenonT(30), HduOfFacts
    <3> QED
      BY <2>1, <2>4, <3>1
  <2>6. moved[n] = HduOf(to, c)
    <3>1. moved[n] = HduOf(hdus[n].offset + d, hdus[n].cards)
      BY <1>10, <1>13
    <3>2. hdus[n].offset + d = to
      BY <2>1, <2>3
    <3> QED
      BY <2>4, <3>1, <3>2
  <2>7. HeaderAt(new, to, c)
    <3>1. \A i \in 1 .. hn : off + i \in a + h + 1 .. size /\ (off + i) + d = to + i
      BY <2>2, <2>3
    <3>2. \A i \in 1 .. hn : new[to + i] = file[off + i]
      BY <1>8, <3>1
    <3>3. to + hn <= size + d
      BY <2>2, <2>3, MovedRange
    <3>4. HeaderAt(file, off, c) /\ new \in Seq(Cells)
      BY <1>9, <2>1, <2>4
    <3>5. \A i \in 1 .. Padded(Len(c) + 1) : new[to + i] = file[off + i]
      BY <2>1, <2>4, <3>2
    <3>6. to + Padded(Len(c) + 1) <= Len(new)
      BY <1>9, <2>1, <2>4, <3>3
    <3>7. PICK o \in Nat, t \in Nat : o = off /\ t = to
      BY <2>1
    <3>8. /\ HeaderAt(file, o, c) /\ t + Padded(Len(c) + 1) <= Len(new)
          /\ \A i \in 1 .. Padded(Len(c) + 1) : new[t + i] = file[o + i]
      BY <3>4, <3>5, <3>6, <3>7
    <3>9. HeaderAt(new, t, c)
      BY <3>4, <3>8, MovedHeader
    <3> QED
      BY <3>7, <3>9
  <2>8. Complete(new, HduOf(to, c))
    <3>1. to + hn + ln <= size + d
      BY <2>2, <2>3, MovedRange
    <3> QED
      BY <1>9, <2>5, <3>1 DEF Complete
  <2>9. Pixels(new, HduOf(to, c)) = Pixels(file, hdus[n])
    <3> DEFINE o == off + hn
               q == to + hn
    <3>1. o \in Nat /\ q \in Nat /\ o + ln <= size
      BY <2>2, <2>3, MovedRange
    <3>2. ASSUME NEW i \in 1 .. ln PROVE o + i \in a + h + 1 .. size /\ (o + i) + d = q + i
      <4>1. off + hn + i >= a + h + 1 /\ off + hn + i <= size
        BY <2>2
      <4>2. (off + hn + i) + d = to + hn + i
        BY <2>3
      <4> QED
        BY <4>1, <4>2
    <3> HIDE DEF o, q
    <3>3. \A i \in 1 .. ln : new[q + i] = file[o + i]
      BY <1>8, <3>2
    <3>4. Slice(new, q, ln) = Slice(file, o, ln)
      <4>1. o + ln <= Len(file)
        BY <1>9, <3>1
      <4>2. o \in Nat /\ q \in Nat /\ SameCells(new, q, file, o, ln)
        BY <3>1, <3>3 DEF SameCells
      <4> QED
        BY <4>1, <4>2, MovedCells
    <3> QED
      BY <2>1, <2>5, <3>4 DEF Pixels, Slice, o, q
  <2>10. After(moved[n]) = After(hdus[n]) + d
    <3>1. to + hn + pn = (off + hn + pn) + d
      BY <2>3
    <3> QED
      BY <2>1, <2>5, <2>6, <3>1
  <2>11. n # j
    BY <1>13
  <2> QED
    BY <2>1, <2>3, <2>4, <2>5, <2>6, <2>7, <2>8, <2>9, <2>10, <2>11
<1> HIDE DEF Facts
<1>14. ASSUME NEW n \in 1 .. Len(hdus) PROVE Good(n, Start(moved, n - 1))
  <2>1. Start(moved, n - 1) = IF n = 1 THEN 0 ELSE After(moved[n - 1])
    BY DEF Start
  <2>2. n - 1 \in 0 .. Len(hdus) /\ (n # 1 => n - 1 \in 1 .. Len(hdus))
    BY <1>1
  <2>3. hdus[n].offset = IF n = 1 THEN 0 ELSE After(hdus[n - 1])
    BY <1>2, <2>2 DEF Start
  <2>4. CASE n < j
    <3>1. n # 1 => After(moved[n - 1]) = After(hdus[n - 1])
      <4>1. n # 1 => n - 1 \in 1 .. Len(hdus) /\ n - 1 < j
        BY <2>2, <2>4
      <4> QED
        BY <1>11, <4>1
    <3>2. Start(moved, n - 1) = hdus[n].offset
      BY <2>1, <2>3, <3>1
    <3> QED
      BY <1>11, <2>4, <3>2
  <2>5. CASE n = j
    <3>1. n # 1 => After(moved[n - 1]) = After(hdus[n - 1])
      <4>1. n # 1 => n - 1 \in 1 .. Len(hdus) /\ n - 1 < j
        BY <2>2, <2>5
      <4> QED
        BY <1>11, <4>1
    <3>2. Start(moved, n - 1) = a
      BY <1>4, <2>1, <2>3, <2>5, <3>1
    <3> QED
      BY <1>12, <2>5, <3>2
  <2>6. CASE n > j
    <3>1. n # 1 /\ n - 1 \in 1 .. Len(hdus) /\ (n - 1 = j \/ n - 1 > j)
      BY <2>2, <2>6
    <3>2. After(moved[n - 1]) = After(hdus[n - 1]) + d
      BY <1>12, <1>13, <3>1
    <3>3. Start(moved, n - 1) = hdus[n].offset + d
      BY <2>1, <2>3, <3>1, <3>2
    <3> QED
      BY <1>13, <2>6, <3>3
  <2> QED
    BY <2>4, <2>5, <2>6
<1>15. moved \in Seq(Hdu)
  <2>1. \A n \in 1 .. Len(hdus) : moved[n] \in Hdu
    BY <1>14
  <2>2. moved = [n \in 1 .. Len(hdus) |-> moved[n]]
    BY DEF moved, Moved
  <2> QED
    BY <1>1, <2>1, <2>2
<1>16. Linked(new, moved)
  BY <1>10, <1>14, <1>15 DEF Linked
<1>17. Len(new) <= Start(moved, Len(moved))
  <2>1. Len(hdus) \in 1 .. Len(hdus) /\ Len(hdus) # 0
    BY <1>1
  <2>2. Start(hdus, Len(hdus)) = After(hdus[Len(hdus)]) /\ Start(moved, Len(moved)) = After(moved[Len(hdus)])
    BY <1>10, <2>1 DEF Start
  <2>3. After(moved[Len(hdus)]) = After(hdus[Len(hdus)]) + d
    <3>1. Len(hdus) = j \/ Len(hdus) > j
      BY <1>1
    <3> QED
      BY <1>12, <1>13, <2>1, <3>1
  <2>4. After(hdus[Len(hdus)]) \in Nat
    BY <1>1, <1>2, <2>1
  <2> QED
    BY <1>1, <1>9, <2>2, <2>3, <2>4
<1>18. Len(new) % PerBlock = Len(file) % PerBlock
  <2>1. \E q \in Nat : h = q * PerBlock
    <3>1. Len(old) + 1 \in Nat
      <4>1. old \in Seq(Cells)
        BY <1>2
      <4>2. Len(old) \in Nat
        BY <4>1, LenProperties
      <4> QED
        BY <4>2
    <3> QED
      BY <1>4, <3>1, PaddedFacts
  <2>2. \E q \in Nat : k = q * PerBlock
    <3>1. Len(cards) + 1 \in Nat
      BY <1>7
    <3> QED
      BY <1>5, <3>1, PaddedFacts
  <2>3. PICK q \in Nat, r \in Nat : h = q * PerBlock /\ k = r * PerBlock
    BY <2>1, <2>2
  <2>4. Len(new) \in Nat
    BY <1>9, LenProperties
  <2>5. Len(new) + h = Len(file) + k
    <3>1. (size + d) + h = size + k
      BY <1>6
    <3> QED
      BY <1>9, <3>1
  <2>6. Len(new) + q * PerBlock = Len(file) + r * PerBlock
    BY <2>3, <2>5
  <2> QED
    BY <1>1, <2>4, <2>6, SameRemainder
<1>19. \A i \in 1 .. Len(cards) : new[a + i] = cards[i]
  <2>1. \A i \in 1 .. Len(cards) : i \in 1 .. k
    BY <1>7
  <2> QED
    BY <1>7, <1>8, <2>1
<1>20. \A n \in 1 .. Len(hdus) :
         /\ moved[n].cards = (IF n = j THEN cards ELSE hdus[n].cards)
         /\ Pixels(new, moved[n]) = Pixels(file, hdus[n])
  BY <1>14
<1>21. Chain(new, moved)
  BY <1>16, <1>17 DEF Chain
<1> HIDE DEF Good
<1> QED
  BY <1>4, <1>8, <1>10, <1>18, <1>19, <1>20, <1>21 DEF new, moved

-----------------------------------------------------------------------------
(* Lists of which some elements stay, by what the elements are.             *)

\* Induction over lists that grow at their end.
LEMMA ListInduction ==
  ASSUME NEW X, NEW T, <<>> \in T,
         \A s \in Seq(X), e \in X : s \in T => Append(s, e) \in T
  PROVE  \A s \in Seq(X) : s \in T
<1> DEFINE S == {n \in Nat : \A s \in Seq(X) : Len(s) = n => s \in T}
<1>1. 0 \in S
  <2>1. ASSUME NEW s \in Seq(X), Len(s) = 0 PROVE s \in T
    <3>1. s = <<>>
      BY <2>1, EmptySeq
    <3> QED
      BY <3>1
  <2> QED
    BY <2>1
<1>2. ASSUME NEW n \in Nat, n \in S PROVE n + 1 \in S
  <2>1. ASSUME NEW s \in Seq(X), Len(s) = n + 1 PROVE s \in T
    <3> DEFINE r == SubSeq(s, 1, n)
    <3>1. \A i \in 1 .. n + 1 : s[i] \in X
      BY <2>1, LenProperties
    <3>2. /\ r \in Seq(X) /\ Len(r) = IF 1 <= n THEN n - 1 + 1 ELSE 0
          /\ \A i \in 1 .. n - 1 + 1 : r[i] = s[1 + i - 1]
      <4>1. \A i \in 1 .. n : s[i] \in X
        BY <3>1
      <4> QED
        BY <4>1, SubSeqProperties
    <3> HIDE DEF r
    <3>3. Len(r) = n /\ \A i \in 1 .. n : r[i] = s[i]
      <4>1. \A i \in 1 .. n : i \in 1 .. n - 1 + 1 /\ 1 + i - 1 = i
        OBVIOUS
      <4> QED
        BY <3>2, <4>1
    <3>4. PICK e \in X : e = s[n + 1]
      BY <3>1
    <3>5. r \in T
      BY <1>2, <3>2, <3>3
    <3>6. /\ Append(r, e) \in Seq(X) /\ Len(Append(r, e)) = n + 1
          /\ \A i \in 1 .. n : Append(r, e)[i] = r[i]
          /\ Append(r, e)[n + 1] = e
      BY <3>2, <3>3, Pushed
    <3>7. \A i \in 1 .. n + 1 : Append(r, e)[i] = s[i]
      <4>1. \A i \in 1 .. n + 1 : i = n + 1 \/ i \in 1 .. n
        OBVIOUS
      <4> QED
        BY <3>3, <3>4, <3>6, <4>1
    <3>8. Append(r, e) = s
      BY <2>1, <3>6, <3>7, SeqEqual
    <3> QED
      BY <3>2, <3>4, <3>5, <3>8
  <2> QED
    BY <2>1
<1> HIDE DEF S
<1>3. \A n \in Nat : n \in S
  BY <1>1, <1>2, Induction
<1>4. ASSUME NEW s \in Seq(X) PROVE s \in T
  <2>1. Len(s) \in Nat /\ Len(s) \in S
    BY <1>3, LenProperties
  <2> QED
    BY <2>1 DEF S
<1> QED
  BY <1>4

Sel(s, W) == Retain(s, {i \in DOMAIN s : s[i] \in W})

\* What stays is a list of the same kind.
LEMMA SelType ==
  ASSUME NEW X, NEW s \in Seq(X), NEW W
  PROVE  Sel(s, W) \in Seq(X)
  BY RetainFacts DEF Sel

\* Nothing stays of nothing.
LEMMA SelEmpty ==
  ASSUME NEW W
  PROVE  Sel(<<>>, W) = <<>>
<1>1. Len(<<>>) = 0 /\ <<>> \in Seq({0})
  BY EmptySeq
<1>2. \A s \in Seq({0}) : \A P : Kept(s, P)[0] = <<>>
  BY KeptRecursion
<1>3. Kept(<<>>, {i \in DOMAIN <<>> : <<>>[i] \in W})[0] = <<>>
  BY <1>1, <1>2, Zenon
<1> QED
  BY <1>1, <1>3 DEF Sel, Retain

\* An element more.
LEMMA SelAppend ==
  ASSUME NEW X, NEW s \in Seq(X), NEW e \in X, NEW W
  PROVE  Sel(Append(s, e), W) = IF e \in W THEN Append(Sel(s, W), e) ELSE Sel(s, W)
<1> DEFINE new == Append(s, e)
           len == Len(s)
           P == {i \in DOMAIN s : s[i] \in W}
           Q == {i \in DOMAIN new : new[i] \in W}
           f == Kept(s, P)
           g == Kept(new, Q)
<1>1. /\ new \in Seq(X) /\ len \in Nat /\ Len(new) = len + 1
      /\ \A i \in 1 .. len : new[i] = s[i]
      /\ new[len + 1] = e
  BY Pushed
<1> HIDE DEF new
<1>2. DOMAIN s = 1 .. len /\ DOMAIN new = 1 .. len + 1
  BY <1>1, LenProperties
<1>3. \A i \in 1 .. len : i \in P <=> i \in Q
  BY <1>1, <1>2
<1>4. len + 1 \in Q <=> e \in W
  BY <1>1, <1>2
<1> HIDE DEF P, Q
<1>5. /\ f[0] = <<>>
      /\ \A n \in 1 .. len : f[n] = IF n \in P THEN Append(f[n - 1], s[n]) ELSE f[n - 1]
  BY KeptRecursion
<1>6. /\ g[0] = <<>>
      /\ \A n \in 1 .. len + 1 : g[n] = IF n \in Q THEN Append(g[n - 1], new[n]) ELSE g[n - 1]
  <2>1. /\ g[0] = <<>>
        /\ \A n \in 1 .. Len(new) : g[n] = IF n \in Q THEN Append(g[n - 1], new[n]) ELSE g[n - 1]
    BY <1>1, KeptRecursion
  <2> HIDE DEF g
  <2> QED
    BY <1>1, <2>1
<1> HIDE DEF f, g, len
<1> DEFINE T == {n \in 0 .. len : g[n] = f[n]}
<1>7. 0 \in T
  BY <1>1, <1>5, <1>6
<1>8. ASSUME NEW n \in 1 .. len, n - 1 \in T PROVE n \in T
  <2>1. n \in 1 .. len + 1 /\ n \in 0 .. len /\ g[n - 1] = f[n - 1]
    BY <1>1, <1>8
  <2>2. g[n] = IF n \in Q THEN Append(g[n - 1], new[n]) ELSE g[n - 1]
    BY <1>6, <2>1
  <2>3. f[n] = IF n \in P THEN Append(f[n - 1], s[n]) ELSE f[n - 1]
    BY <1>5
  <2>4. g[n] = f[n]
    BY <1>1, <1>3, <2>1, <2>2, <2>3
  <2> QED
    BY <2>1, <2>4
<1> HIDE DEF T
<1>9. g[len] = f[len]
  <2>1. \A n \in 0 .. len : n \in T
    BY <1>1, <1>7, <1>8, BoundedInduction
  <2>2. len \in 0 .. len
    BY <1>1
  <2> QED
    BY <2>1, <2>2 DEF T
<1>10. g[len + 1] = IF e \in W THEN Append(f[len], e) ELSE f[len]
  <2>1. len + 1 \in 1 .. len + 1 /\ (len + 1) - 1 = len
    BY <1>1
  <2>2. g[len + 1] = IF len + 1 \in Q THEN Append(g[(len + 1) - 1], new[len + 1])
                     ELSE g[(len + 1) - 1]
    BY <1>6, <2>1
  <2> QED
    BY <1>1, <1>4, <1>9, <2>1, <2>2
<1>11. Sel(new, W) = g[len + 1] /\ Sel(s, W) = f[len]
  <2>1. Sel(new, W) = Kept(new, Q)[Len(new)]
    BY DEF Sel, Retain, Q
  <2>2. Sel(s, W) = Kept(s, P)[Len(s)]
    BY DEF Sel, Retain, P
  <2> QED
    BY <1>1, <2>1, <2>2 DEF f, g, len
<1> QED
  BY <1>10, <1>11 DEF new

\* Choosing twice.
LEMMA SelSel ==
  ASSUME NEW X, NEW V, NEW W
  PROVE  \A s \in Seq(X) : Sel(Sel(s, V), W) = Sel(s, V \cap W)
<1> DEFINE T == {s \in Seq(X) : Sel(Sel(s, V), W) = Sel(s, V \cap W)}
<1>1. <<>> \in T
  <2>1. <<>> \in Seq(X)
    BY EmptySeq
  <2>2. Sel(Sel(<<>>, V), W) = <<>> /\ Sel(<<>>, V \cap W) = <<>>
    BY SelEmpty
  <2> QED
    BY <2>1, <2>2
<1>2. ASSUME NEW s \in Seq(X), NEW e \in X, s \in T PROVE Append(s, e) \in T
  <2>1. Append(s, e) \in Seq(X)
    BY Pushed
  <2>2. PICK r \in Seq(X) : r = Sel(s, V)
    BY SelType
  <2>3. Sel(Append(s, e), V) = IF e \in V THEN Append(r, e) ELSE r
    BY <2>2, SelAppend
  <2>4. Sel(Append(r, e), W) = IF e \in W THEN Append(Sel(r, W), e) ELSE Sel(r, W)
    BY SelAppend
  <2>5. Sel(Append(s, e), V \cap W)
          = IF e \in V \cap W THEN Append(Sel(s, V \cap W), e) ELSE Sel(s, V \cap W)
    BY SelAppend
  <2>6. Sel(r, W) = Sel(s, V \cap W)
    BY <1>2, <2>2
  <2>7. Sel(Sel(Append(s, e), V), W) = Sel(Append(s, e), V \cap W)
    <3>1. CASE e \in V /\ e \in W
      <4>1. Sel(Sel(Append(s, e), V), W) = Append(Sel(r, W), e)
        BY <2>3, <2>4, <3>1
      <4>2. Sel(Append(s, e), V \cap W) = Append(Sel(s, V \cap W), e)
        BY <2>5, <3>1
      <4> QED
        BY <2>6, <4>1, <4>2
    <3>2. CASE ~(e \in V /\ e \in W)
      <4>1. Sel(Sel(Append(s, e), V), W) = Sel(r, W)
        BY <2>3, <2>4, <3>2
      <4>2. Sel(Append(s, e), V \cap W) = Sel(s, V \cap W)
        BY <2>5, <3>2
      <4> QED
        BY <2>6, <4>1, <4>2
    <3> QED
      BY <3>1, <3>2
  <2> QED
    BY <2>1, <2>7
<1> HIDE DEF T
<1>3. \A s \in Seq(X) : s \in T
  BY <1>1, <1>2, ListInduction
<1> QED
  BY <1>3 DEF T

\* Choosing from one list behind the other.
LEMMA SelConcat ==
  ASSUME NEW X, NEW s \in Seq(X), NEW W
  PROVE  \A t \in Seq(X) : Sel(s \o t, W) = Sel(s, W) \o Sel(t, W)
<1> DEFINE T == {t \in Seq(X) : Sel(s \o t, W) = Sel(s, W) \o Sel(t, W)}
<1>1. PICK r \in Seq(X) : r = Sel(s, W)
  BY SelType
<1>2. <<>> \in T
  <2>1. <<>> \in Seq(X) /\ s \o <<>> = s /\ r \o <<>> = r
    BY EmptySeq, ConcatEmptySeq
  <2>2. Sel(<<>>, W) = <<>>
    BY SelEmpty
  <2> QED
    BY <1>1, <2>1, <2>2
<1>3. ASSUME NEW t \in Seq(X), NEW e \in X, t \in T PROVE Append(t, e) \in T
  <2>1. Append(t, e) \in Seq(X)
    BY Pushed
  <2>2. PICK q \in Seq(X) : q = Sel(t, W)
    BY SelType
  <2>3. s \o Append(t, e) = Append(s \o t, e) /\ r \o Append(q, e) = Append(r \o q, e)
    BY SMTT(20)
  <2>4. s \o t \in Seq(X)
    BY ConcatProperties
  <2>5. Sel(Append(s \o t, e), W) = IF e \in W THEN Append(Sel(s \o t, W), e) ELSE Sel(s \o t, W)
    BY <2>4, SelAppend
  <2>6. Sel(Append(t, e), W) = IF e \in W THEN Append(q, e) ELSE q
    BY <2>2, SelAppend
  <2>7. Sel(s \o t, W) = r \o q
    BY <1>1, <1>3, <2>2
  <2>8. Sel(s \o Append(t, e), W) = r \o Sel(Append(t, e), W)
    BY <2>3, <2>5, <2>6, <2>7
  <2> QED
    BY <1>1, <2>1, <2>8
<1> HIDE DEF T
<1>4. \A t \in Seq(X) : t \in T
  BY <1>2, <1>3, ListInduction
<1> QED
  BY <1>4 DEF T

\* Every element stays.
LEMMA SelAll ==
  ASSUME NEW X, NEW s \in Seq(X), NEW W, \A i \in 1 .. Len(s) : s[i] \in W
  PROVE  Sel(s, W) = s
<1>1. 1 .. Len(s) \subseteq {i \in DOMAIN s : s[i] \in W}
  BY LenProperties
<1> QED
  BY <1>1, RetainAll DEF Sel

\* No element stays.
LEMMA SelNone ==
  ASSUME NEW X, NEW s \in Seq(X), NEW W, \A i \in 1 .. Len(s) : s[i] \notin W
  PROVE  Sel(s, W) = <<>>
<1> DEFINE P == {i \in DOMAIN s : s[i] \in W}
           r == Retain(s, P)
<1>1. P = {}
  BY LenProperties
<1> HIDE DEF P
<1>2. r \in Seq(X) /\ \E at : Picks(r, s, P, Len(s), at)
  BY RetainFacts
<1> HIDE DEF r
<1>3. Len(r) \in Nat /\ \A i \in 1 .. Len(r) : FALSE
  BY <1>1, <1>2, LenProperties DEF Picks
<1>4. Len(r) = 0
  BY <1>3
<1>5. r = <<>>
  BY <1>2, <1>4, EmptySeq
<1> QED
  BY <1>5 DEF Sel, r, P

-----------------------------------------------------------------------------
(* The cards of a solution, and the cards that make way for them.           *)

Comment == Card(<<"COMMENT">>, NoValue)
Solution(n) == Append(WcsCards(n), Comment)

\* Its four cards.
LEMMA SolutionFacts ==
  ASSUME NEW n \in Nat
  PROVE  /\ WcsCards(n) \in Seq(Cells) /\ Len(WcsCards(n)) = 3
         /\ DOMAIN SolutionKeys = 1 .. 3
         /\ \A i \in 1 .. 3 : WcsCards(n)[i] = Card(SolutionKeys[i], n)
         /\ Solution(n) \in Seq(Cells) /\ Len(Solution(n)) = 4
         /\ \A i \in 1 .. 3 : Solution(n)[i] = Card(SolutionKeys[i], n)
         /\ Solution(n)[4] = Comment /\ Comment \in Cells
<1>1. SolutionKeys \in Seq(Keys) /\ Len(SolutionKeys) = 3
  <2>1. <<"WCSAXES">> \in Keys /\ <<"CRVAL", 1>> \in Keys /\ <<"CD", 1, 2>> \in Keys
    <3>1. {"WCSAXES", "CRVAL", "CD"} \subseteq Names
      BY SolvedAssumption DEF SolvedAssumption
    <3> QED
      BY <3>1 DEF Keys
  <2> QED
    BY <2>1 DEF SolutionKeys
<1>2. DOMAIN SolutionKeys = 1 .. 3 /\ \A i \in 1 .. 3 : SolutionKeys[i] \in Keys
  BY <1>1, LenProperties
<1>3. \A i \in 1 .. 3 : Card(SolutionKeys[i], n) \in Cells
  BY <1>2 DEF Card, Cells
<1>4. WcsCards(n) = [i \in 1 .. 3 |-> Card(SolutionKeys[i], n)]
  BY <1>2 DEF WcsCards
<1>5. WcsCards(n) \in Seq(Cells) /\ Len(WcsCards(n)) = 3
      /\ \A i \in 1 .. 3 : WcsCards(n)[i] = Card(SolutionKeys[i], n)
  <2> HIDE DEF SolutionKeys
  <2> QED
    BY <1>3, <1>4
<1>6. Comment \in Cells
  BY CardIsCell DEF Comment
<1>7. /\ Solution(n) \in Seq(Cells) /\ Len(Solution(n)) = 4
      /\ \A i \in 1 .. 3 : Solution(n)[i] = WcsCards(n)[i]
      /\ Solution(n)[4] = Comment
  <2>1. /\ Append(WcsCards(n), Comment) \in Seq(Cells)
        /\ Len(Append(WcsCards(n), Comment)) = Len(WcsCards(n)) + 1
        /\ \A i \in 1 .. Len(WcsCards(n)) : Append(WcsCards(n), Comment)[i] = WcsCards(n)[i]
        /\ Append(WcsCards(n), Comment)[Len(WcsCards(n)) + 1] = Comment
    <3>1. WcsCards(n) \in Seq(Cells)
      BY <1>5
    <3> QED
      BY <1>6, <3>1, Pushed
  <2>2. Solution(n) = Append(WcsCards(n), Comment) /\ Len(WcsCards(n)) = 3
    BY <1>5 DEF Solution
  <2> QED
    BY <2>1, <2>2
<1> QED
  BY <1>2, <1>5, <1>6, <1>7

\* The keys of a solution are keys of a WCS; those that size the data are not.
LEMMA KeyFacts ==
  /\ \A i \in 1 .. 3 : /\ IsWcsKey(SolutionKeys[i])
                       /\ SolutionKeys[i] \notin Commentary
                       /\ SolutionKeys[i] # <<"END">>
  /\ \A key : SizesData(key) => ~IsWcsKey(key) /\ key # <<>> /\ key # <<"COMMENT">> /\ key # <<"END">>
  /\ ~IsWcsKey(<<"COMMENT">>) /\ <<"COMMENT">> \in Commentary
  /\ ~IsWcsKey(<<>>) /\ ~IsWcsKey(<<"SIMPLE">>) /\ <<"SIMPLE">> # <<>>
  /\ <<"SIMPLE">> # <<"COMMENT">>
<1>1. /\ IsWcsKey(<<"WCSAXES">>) /\ IsWcsKey(<<"CRVAL", 1>>) /\ IsWcsKey(<<"CD", 1, 2>>)
  BY DEF IsWcsKey, WcsStems, AxisStems, MatrixStems
<1>2. \A key \in {<<"WCSAXES">>, <<"CRVAL", 1>>, <<"CD", 1, 2>>} :
        key \notin Commentary /\ key # <<"END">>
  BY DEF Commentary
<1>3. \A i \in 1 .. 3 : SolutionKeys[i] \in {<<"WCSAXES">>, <<"CRVAL", 1>>, <<"CD", 1, 2>>}
  BY DEF SolutionKeys
<1>4. ASSUME NEW key, SizesData(key)
      PROVE  ~IsWcsKey(key) /\ key # <<>> /\ key # <<"COMMENT">> /\ key # <<"END">>
  <2>1. CASE key \in {<<"NAXIS">>, <<"PCOUNT">>}
    BY <2>1 DEF IsWcsKey, WcsStems
  <2>2. CASE Len(key) = 2 /\ key[1] = "NAXIS"
    BY <2>2 DEF IsWcsKey, AxisStems
  <2> QED
    BY <1>4, <2>1, <2>2 DEF SizesData
<1>5. ~IsWcsKey(<<"COMMENT">>) /\ <<"COMMENT">> \in Commentary
  BY DEF IsWcsKey, WcsStems, Commentary
<1>6. /\ ~IsWcsKey(<<>>) /\ ~IsWcsKey(<<"SIMPLE">>) /\ <<"SIMPLE">> # <<>>
      /\ <<"SIMPLE">> # <<"COMMENT">>
  BY DEF IsWcsKey, WcsStems
<1> QED
  BY <1>1, <1>2, <1>3, <1>4, <1>5, <1>6

\* Their keys.
LEMMA SolutionKeyOf ==
  ASSUME NEW n \in Nat
  PROVE  /\ \A i \in 1 .. 3 : Solution(n)[i].key = SolutionKeys[i]
         /\ Solution(n)[4].key = <<"COMMENT">>
<1>1. \A k, v : Card(k, v).key = k
  BY DEF Card
<1>2. \A i \in 1 .. 3 : Solution(n)[i] = Card(SolutionKeys[i], n)
  BY SolutionFacts
<1>3. Solution(n)[4] = Card(<<"COMMENT">>, NoValue)
  BY SolutionFacts DEF Comment
<1> QED
  BY <1>1, <1>2, <1>3

\* A solution replaces the WCS of a header and nothing else.
LEMMA DisplacesFacts ==
  ASSUME NEW n \in Nat, NEW key
  PROVE  Displaces(Solution(n), key) <=> IsWcsKey(key)
<1>1. /\ DOMAIN Solution(n) = 1 .. 4
      /\ \A i \in 1 .. 3 : Solution(n)[i].key = SolutionKeys[i]
      /\ Solution(n)[4].key = <<"COMMENT">>
  <2>1. DOMAIN Solution(n) = 1 .. 4
    BY SolutionFacts, LenProperties
  <2> QED
    BY <2>1, SolutionKeyOf
<1>2. ASSUME NEW i \in DOMAIN Solution(n), Solution(n)[i].key = key, key \notin Commentary
      PROVE  IsWcsKey(key)
  <2>1. i \in 1 .. 3 \/ i = 4
    BY <1>1
  <2> QED
    BY <1>1, <1>2, <2>1, KeyFacts
<1> QED
  BY <1>2 DEF Displaces

\* No card of a solution is END or tells of the data.
LEMMA SolutionCards ==
  ASSUME NEW n \in Nat
  PROVE  \A i \in 1 .. 4 : Solution(n)[i] # End /\ ~SizesData(Solution(n)[i].key)
<1>1. \A i \in 1 .. 3 : Solution(n)[i].key = SolutionKeys[i]
  BY SolutionKeyOf
<1>2. Solution(n)[4].key = <<"COMMENT">>
  BY SolutionKeyOf
<1>3. End.key = <<"END">> /\ <<"COMMENT">> # <<"END">>
  BY DEF End, Card
<1>4. ASSUME NEW i \in 1 .. 4 PROVE Solution(n)[i] # End /\ ~SizesData(Solution(n)[i].key)
  <2>1. CASE i \in 1 .. 3
    BY <1>1, <1>3, <2>1, KeyFacts
  <2>2. CASE i = 4
    BY <1>2, <1>3, <2>2, KeyFacts
  <2> QED
    BY <2>1, <2>2
<1> QED
  BY <1>4

\* What set_cards keeps of a header, and the header it writes.
KeptOf(old, n) ==
  Retain(old, {i \in DOMAIN old : old[i] # Blank /\ ~Displaces(Solution(n), old[i].key)})
NewCards(old, n) == KeptOf(old, n) \o Solution(n)

WcsCells == {c \in Cells : IsWcsKey(c.key)}
OtherCells == {c \in Cells : ~IsWcsKey(c.key) /\ c # Blank}

\* The WCS of a header, the rest of it and what set_cards keeps, as choices.
LEMMA SelectedCards ==
  ASSUME NEW cards \in Seq(Cells), NEW n \in Nat
  PROVE  /\ WcsOf(cards) = Sel(cards, WcsCells)
         /\ OthersOf(cards) = Sel(cards, OtherCells)
         /\ KeptOf(cards, n) = Sel(cards, OtherCells)
<1>1. \A i \in DOMAIN cards : cards[i] \in Cells
  BY LenProperties
<1>2. {i \in DOMAIN cards : IsWcsKey(cards[i].key)} = {i \in DOMAIN cards : cards[i] \in WcsCells}
  BY <1>1 DEF WcsCells
<1>3. {i \in DOMAIN cards : ~IsWcsKey(cards[i].key) /\ cards[i] # Blank}
        = {i \in DOMAIN cards : cards[i] \in OtherCells}
  BY <1>1 DEF OtherCells
<1>4. {i \in DOMAIN cards : cards[i] # Blank /\ ~Displaces(Solution(n), cards[i].key)}
        = {i \in DOMAIN cards : cards[i] \in OtherCells}
  BY <1>3, DisplacesFacts
<1> QED
  BY <1>2, <1>3, <1>4 DEF WcsOf, OthersOf, KeptOf, Sel

\* The WCS of the new header is the solution, and the rest of it is the rest of
\* the old one and the comment.
LEMMA NewCardsSelected ==
  ASSUME NEW old \in Seq(Cells), NEW n \in Nat
  PROVE  /\ NewCards(old, n) \in Seq(Cells)
         /\ WcsOf(NewCards(old, n)) = WcsCards(n)
         /\ OthersOf(NewCards(old, n)) = Append(OthersOf(old), Comment)
<1>1. PICK k \in Seq(Cells) : k = KeptOf(old, n) /\ k = Sel(old, OtherCells)
  BY SelectedCards, SelType
<1>2. PICK s \in Seq(Cells), w \in Seq(Cells) :
        /\ s = Solution(n) /\ w = WcsCards(n) /\ s = Append(w, Comment) /\ Len(w) = 3
        /\ Comment \in Cells
        /\ \A i \in 1 .. 3 : w[i] = Card(SolutionKeys[i], n)
  BY SolutionFacts DEF Solution
<1>3. NewCards(old, n) = k \o s /\ k \o s \in Seq(Cells)
  BY <1>1, <1>2, ConcatProperties DEF NewCards
<1>4. \A i \in 1 .. 3 : w[i] \in WcsCells /\ w[i] \notin OtherCells
  <2>1. \A i \in 1 .. 3 : w[i] \in Cells /\ IsWcsKey(w[i].key)
    <3>1. \A i \in 1 .. 3 : w[i] \in Cells
      BY <1>2, LenProperties
    <3>2. \A i \in 1 .. 3 : w[i].key = SolutionKeys[i]
      BY <1>2 DEF Card
    <3> QED
      BY <3>1, <3>2, KeyFacts
  <2> QED
    BY <2>1 DEF WcsCells, OtherCells
<1>5. Comment \notin WcsCells /\ Comment \in OtherCells
  <2>1. Comment.key = <<"COMMENT">> /\ Blank.key = <<>> /\ <<"COMMENT">> # <<>>
    BY DEF Comment, Blank, Card
  <2> QED
    BY <1>2, <2>1, KeyFacts DEF WcsCells, OtherCells
<1>6. Sel(w, WcsCells) = w /\ Sel(w, OtherCells) = <<>>
  BY <1>2, <1>4, SelAll, SelNone
<1>7. Sel(s, WcsCells) = w /\ Sel(s, OtherCells) = <<Comment>>
  <2>1. Sel(s, WcsCells) = Sel(w, WcsCells)
    BY <1>2, <1>5, SelAppend
  <2>2. Sel(s, OtherCells) = Append(Sel(w, OtherCells), Comment)
    BY SMTT(20), <1>2, <1>5, SelAppend
  <2> QED
    BY <1>6, <2>1, <2>2
<1>8. Sel(k, WcsCells) = <<>>
  <2>1. Sel(k, WcsCells) = Sel(old, OtherCells \cap WcsCells)
    BY <1>1, SelSel
  <2>2. \A i \in 1 .. Len(old) : old[i] \notin OtherCells \cap WcsCells
    BY DEF OtherCells, WcsCells
  <2> QED
    BY <2>1, <2>2, SelNone
<1>9. Sel(k, OtherCells) = k
  <2>1. Sel(k, OtherCells) = Sel(old, OtherCells \cap OtherCells)
    BY <1>1, SelSel
  <2>2. OtherCells \cap OtherCells = OtherCells
    OBVIOUS
  <2> QED
    BY <1>1, <2>1, <2>2
<1>10. WcsOf(k \o s) = Sel(k, WcsCells) \o Sel(s, WcsCells)
  <2>1. WcsOf(k \o s) = Sel(k \o s, WcsCells)
    BY <1>3, SelectedCards
  <2>2. Sel(k \o s, WcsCells) = Sel(k, WcsCells) \o Sel(s, WcsCells)
    BY SMTT(30), SelConcat
  <2> QED
    BY <2>1, <2>2
<1>11. OthersOf(k \o s) = Sel(k, OtherCells) \o Sel(s, OtherCells)
  <2>1. OthersOf(k \o s) = Sel(k \o s, OtherCells)
    BY <1>3, SelectedCards
  <2>2. Sel(k \o s, OtherCells) = Sel(k, OtherCells) \o Sel(s, OtherCells)
    BY SMTT(30), SelConcat
  <2> QED
    BY <2>1, <2>2
<1>12. <<>> \o w = w /\ k \o <<Comment>> = Append(k, Comment)
  BY <1>2, ConcatEmptySeq
<1>13. OthersOf(old) = k
  BY <1>1, SelectedCards
<1> QED
  BY <1>2, <1>3, <1>7, <1>8, <1>9, <1>10, <1>11, <1>12, <1>13

\* It tells of the same data, has no END, and starts as the old one does.
LEMMA NewCardsSame ==
  ASSUME NEW old \in Seq(Cells), NEW n \in Nat, \A i \in 1 .. Len(old) : old[i] # End
  PROVE  /\ SameData(old, NewCards(old, n))
         /\ \A i \in 1 .. Len(NewCards(old, n)) : NewCards(old, n)[i] # End
         /\ Len(old) > 0 /\ old[1] = Card(<<"SIMPLE">>, 1) =>
              Len(NewCards(old, n)) > 0 /\ NewCards(old, n)[1] = Card(<<"SIMPLE">>, 1)
<1> DEFINE places == {i \in DOMAIN old : old[i] # Blank /\ ~Displaces(Solution(n), old[i].key)}
           k == KeptOf(old, n)
           s == Solution(n)
           new == NewCards(old, n)
<1>1. k = Retain(old, places)
  BY DEF KeptOf
<1>2. /\ DOMAIN old = 1 .. Len(old) /\ Len(old) \in Nat
      /\ \A i \in 1 .. Len(old) : i \in places <=> old[i] # Blank /\ ~IsWcsKey(old[i].key)
  BY LenProperties, DisplacesFacts
<1> HIDE DEF places
<1>3. k \in Seq(Cells) /\ \E at : Picks(k, old, places, Len(old), at)
  BY <1>1, RetainFacts
<1>4. s \in Seq(Cells) /\ Len(s) = 4 /\ \A i \in 1 .. 4 : s[i] # End /\ ~SizesData(s[i].key)
  BY SolutionFacts, SolutionCards
<1>5. new = k \o s
  BY DEF NewCards
<1> HIDE DEF k, s, new
<1>6. /\ Len(k) \in Nat /\ Len(new) = Len(k) + 4
      /\ \A i \in 1 .. Len(k) + 4 : new[i] = IF i <= Len(k) THEN k[i] ELSE s[i - Len(k)]
  <2>1. k \in Seq(Cells) /\ s \in Seq(Cells)
    BY <1>3, <1>4
  <2>2. /\ Len(k \o s) = Len(k) + Len(s)
        /\ \A i \in 1 .. Len(k) + Len(s) : (k \o s)[i] = IF i <= Len(k) THEN k[i] ELSE s[i - Len(k)]
    BY <2>1, ConcatProperties
  <2>3. Len(k) \in Nat
    BY <2>1, LenProperties
  <2> QED
    BY <1>4, <1>5, <2>2, <2>3
<1>7. PICK at : Picks(k, old, places, Len(old), at)
  BY <1>3
<1>8. ASSUME NEW key, SizesData(key) PROVE Get(new, key, 0) = Get(old, key, 0)
  <2>1. \A i \in 1 .. Len(s) : s[i].key # key
    BY <1>4, <1>8
  <2>2. Get(new, key, 0) = Get(k, key, 0)
    BY <1>3, <1>4, <1>5, <2>1, GetBefore
  <2>3. ASSUME NEW i \in 1 .. Len(old), old[i].key = key PROVE i \in places
    <3>1. Blank.key = <<>>
      BY DEF Blank, Card
    <3>2. key # <<>> /\ ~IsWcsKey(key)
      BY <1>8, KeyFacts
    <3> QED
      BY <1>2, <2>3, <3>1, <3>2
  <2>4. Get(k, key, 0) = Get(old, key, 0)
    BY <1>1, <2>3, GetRetained
  <2> QED
    BY <2>2, <2>4
<1>9. ASSUME NEW i \in 1 .. Len(new) PROVE new[i] # End
  <2>1. i \in 1 .. Len(k) + 4
    BY <1>6
  <2>2. CASE i <= Len(k)
    <3>1. i \in 1 .. Len(k) /\ new[i] = k[i]
      BY <1>6, <2>1, <2>2
    <3>2. at[i] \in 1 .. Len(old) /\ k[i] = old[at[i]]
      BY <1>7, <3>1 DEF Picks
    <3> QED
      BY <3>1, <3>2
  <2>3. CASE ~(i <= Len(k))
    <3>1. i - Len(k) \in 1 .. 4 /\ new[i] = s[i - Len(k)]
      BY <1>6, <2>1, <2>3
    <3> QED
      BY <1>4, <3>1
  <2> QED
    BY <2>2, <2>3
<1>10. ASSUME Len(old) > 0, old[1] = Card(<<"SIMPLE">>, 1)
       PROVE  Len(new) > 0 /\ new[1] = Card(<<"SIMPLE">>, 1)
  <2>1. 1 \in 1 .. Len(old)
    BY <1>2, <1>10
  <2>2. 1 \in places
    <3>1. old[1].key = <<"SIMPLE">> /\ Blank.key = <<>>
      BY <1>10 DEF Card, Blank
    <3> QED
      BY <1>2, <2>1, <3>1, KeyFacts
  <2>3. PICK i \in 1 .. Len(k) : at[i] = 1
    BY <1>7, <2>1, <2>2 DEF Picks
  <2>4. 1 \in 1 .. Len(k) /\ (i = 1 \/ 1 < i)
    BY <1>6
  <2>5. i = 1
    <3>1. SUFFICES ASSUME 1 < i PROVE FALSE
      BY <2>4
    <3>2. at[1] < at[i] /\ at[1] \in 1 .. Len(old)
      BY <1>7, <2>4, <3>1 DEF Picks
    <3> QED
      BY <2>3, <3>2
  <2>6. k[1] = old[1]
    BY <1>7, <2>3, <2>5 DEF Picks
  <2>7. 1 \in 1 .. Len(k) + 4 /\ 1 <= Len(k)
    BY <1>6, <2>4
  <2> QED
    BY <1>6, <1>10, <2>6, <2>7
<1>11. SameData(old, new)
  BY <1>8 DEF SameData
<1> QED
  BY <1>9, <1>10, <1>11 DEF new

-----------------------------------------------------------------------------
(* A file that was read, and the file with another header.                  *)

\* What is known of each HDU of a file.
LEMMA ChainFacts ==
  ASSUME NEW file \in Seq(Cells), NEW hdus, Chain(file, hdus)
  PROVE  /\ hdus \in Seq(Hdu) /\ Len(hdus) \in Nat /\ DOMAIN hdus = 1 .. Len(hdus)
         /\ \A n \in 1 .. Len(hdus) :
              /\ hdus[n].cards \in Seq(Cells) /\ hdus[n].offset \in Nat
              /\ HeaderAt(file, hdus[n].offset, hdus[n].cards)
              /\ \A i \in 1 .. Len(hdus[n].cards) : hdus[n].cards[i] # End
<1>1. Linked(file, hdus)
  BY DEF Chain
<1>2. hdus \in Seq(Hdu) /\ Len(hdus) \in Nat /\ DOMAIN hdus = 1 .. Len(hdus)
  BY <1>1, LenProperties DEF Linked
<1>3. ASSUME NEW n \in 1 .. Len(hdus)
      PROVE  /\ hdus[n].cards \in Seq(Cells) /\ hdus[n].offset \in Nat
             /\ HeaderAt(file, hdus[n].offset, hdus[n].cards)
  <2>1. n - 1 \in 0 .. Len(hdus)
    BY <1>2
  <2>2. hdus[n].cards \in Seq(Cells) /\ hdus[n].offset = Start(hdus, n - 1)
    BY <1>1, LinkedOrder
  <2>3. Start(hdus, n - 1) \in Nat
    BY <1>1, <2>1, LinkedOrder
  <2>4. HeaderAt(file, Start(hdus, n - 1), hdus[n].cards)
    BY <1>1 DEF Linked
  <2> QED
    BY <2>2, <2>3, <2>4
<1> QED
  BY <1>2, <1>3 DEF HeaderAt

\* decode_image finds the image if there is one.
LEMMA FirstImageFacts ==
  ASSUME NEW hdus \in Seq(Hdu), Images(hdus) # {}
  PROVE  FirstImage(hdus) \in Images(hdus) /\ FirstImage(hdus) \in 1 .. Len(hdus)
<1>1. Images(hdus) \in SUBSET (1 .. Len(hdus))
  BY LenProperties DEF Images
<1>2. Images(hdus) \in SUBSET Nat
  BY <1>1
<1>3. \E n \in Images(hdus) : \A m \in Images(hdus) : n <= m
  BY <1>2, LeastNatural
<1>4. FirstImage(hdus) \in Images(hdus)
  BY <1>3 DEF FirstImage
<1> QED
  BY <1>1, <1>4

\* The image is where it was if every HDU has its axes.
LEMMA SameImages ==
  ASSUME NEW old \in Seq(Hdu), NEW new \in Seq(Hdu), Len(new) = Len(old),
         \A n \in 1 .. Len(old) :
           Get(new[n].cards, <<"NAXIS">>, 0) = Get(old[n].cards, <<"NAXIS">>, 0)
  PROVE  Images(new) = Images(old) /\ FirstImage(new) = FirstImage(old)
<1>1. DOMAIN new = 1 .. Len(old) /\ DOMAIN old = 1 .. Len(old)
  BY LenProperties
<1>2. Images(new) = Images(old)
  BY <1>1 DEF Images
<1> QED
  BY <1>2 DEF FirstImage

\* A header takes a block at least.
LEMMA BlockFilled ==
  ASSUME NEW n \in Nat, n > 0
  PROVE  PerBlock <= Padded(n)
<1>1. PICK p \in Nat : p = PerBlock /\ p > 0
  BY FitsAssumption DEF FitsAssumption
<1>2. PICK q \in Nat : Padded(n) = q * p /\ n <= q * p
  BY <1>1, PaddedFacts
<1>3. q # 0
  BY <1>1, <1>2
<1>4. PICK r \in Nat : q = r + 1
  <2>1. q - 1 \in Nat /\ q = (q - 1) + 1
    BY <1>3
  <2> QED
    BY <2>1
<1>5. r * p \in Nat /\ q * p = r * p + p
  BY <1>1, <1>4
<1> QED
  BY <1>1, <1>2, <1>5

Simple == Card(<<"SIMPLE">>, 1)
StartsSimple(cards) == Len(cards) > 0 /\ cards[1] = Simple

\* A file that starts with a header that starts with SIMPLE, whole HDUs behind.
LEMMA ReadAsFits ==
  ASSUME NEW file \in Seq(Cells), NEW hdus, Chain(file, hdus), Len(hdus) > 0,
         file[1] = Simple
  PROVE  Parses(file) /\ FitsStart(file) /\ Hdus(file) = hdus
<1>1. ~Walk(file)[Len(file)].failed /\ Hdus(file) = hdus
  BY ChainIsParsed
<1>2. 1 \in 1 .. Len(hdus) /\ Len(file) \in Nat
  BY ChainFacts, LenProperties
<1>3. PICK off \in Nat, cards \in Seq(Cells) : HeaderAt(file, off, cards)
  BY <1>2, ChainFacts
<1>4. off + Padded(Len(cards) + 1) <= Len(file)
  BY <1>3 DEF HeaderAt
<1>5. Len(cards) + 1 \in Nat /\ Len(cards) + 1 > 0
  BY LenProperties
<1>6. PerBlock <= Padded(Len(cards) + 1) /\ Padded(Len(cards) + 1) \in Nat
  BY <1>5, BlockFilled, PaddedFacts
<1>7. PerBlock \in Nat /\ PerBlock > 0
  BY FitsAssumption DEF FitsAssumption
<1>8. PerBlock <= Len(file) /\ Len(file) > 0
  BY <1>2, <1>4, <1>6, <1>7
<1>9. IsFits(file) /\ FitsStart(file)
  BY <1>8 DEF IsFits, FitsStart, Simple
<1> QED
  BY <1>1, <1>9 DEF Parses

\* Rebuilding one header that tells of the same data leaves everything else.
LEMMA NewHeader ==
  ASSUME NEW file \in Seq(Cells), Parses(file), NEW j \in 1 .. Len(Hdus(file)),
         NEW cards \in Seq(Cells), \A i \in 1 .. Len(cards) : cards[i] # End,
         SameData(Hdus(file)[j].cards, cards),
         StartsSimple(Hdus(file)[j].cards) => StartsSimple(cards)
  PROVE  LET hdus == Hdus(file)
             new == Rewritten(file, hdus[j], cards)
         IN /\ new \in Seq(Cells) /\ Parses(new) /\ FitsStart(new)
            /\ Len(Hdus(new)) = Len(hdus)
            /\ \A n \in 1 .. Len(hdus) :
                 /\ Hdus(new)[n].cards = IF n = j THEN cards ELSE hdus[n].cards
                 /\ Pixels(new, Hdus(new)[n]) = Pixels(file, hdus[n])
            /\ Len(new) % PerBlock = Len(file) % PerBlock
            /\ Images(Hdus(new)) = Images(hdus) /\ FirstImage(Hdus(new)) = FirstImage(hdus)
<1> DEFINE hdus == Hdus(file)
           new == Rewritten(file, hdus[j], cards)
           moved == Moved(hdus, j, cards)
           old == hdus[j].cards
<1>1. Chain(file, hdus)
  BY ParsedIsChain
<1>2. /\ DataLen(cards) = DataLen(hdus[j].cards)
      /\ Get(cards, <<"NAXIS">>, 0) = Get(hdus[j].cards, <<"NAXIS">>, 0)
  BY SameDataLen
<1>3. /\ new \in Seq(Cells) /\ Chain(new, moved) /\ Len(moved) = Len(hdus)
      /\ \A n \in 1 .. Len(hdus) : moved[n].cards = IF n = j THEN cards ELSE hdus[n].cards
      /\ \A n \in 1 .. Len(hdus) : Pixels(new, moved[n]) = Pixels(file, hdus[n])
      /\ Len(new) % PerBlock = Len(file) % PerBlock
      /\ hdus[j].offset \in Nat
      /\ \A i \in 1 .. hdus[j].offset : new[i] = file[i]
      /\ \A i \in 1 .. Len(cards) : new[hdus[j].offset + i] = cards[i]
  <2> HIDE DEF hdus
  <2>1. j \in 1 .. Len(hdus)
    BY DEF hdus
  <2> QED
    BY <1>1, <1>2, <2>1, Rewrite
<1>4. file[1] = Simple
  BY DEF Parses, IsFits, Simple
<1>5. /\ old \in Seq(Cells) /\ HeaderAt(file, hdus[j].offset, old)
      /\ hdus \in Seq(Hdu) /\ Len(hdus) \in Nat
  BY <1>1, ChainFacts
<1>6. moved \in Seq(Hdu)
  BY <1>3, ChainFacts
<1>7. StartsSimple(old) => StartsSimple(cards)
  OBVIOUS
<1>8. j \in 1 .. Len(hdus)
  OBVIOUS
<1> HIDE DEF new, moved, old, hdus
<1>9. new[1] = Simple
  <2>1. CASE hdus[j].offset = 0
    <3>1. /\ \A i \in 1 .. Len(old) : file[0 + i] = old[i]
          /\ file[0 + Len(old) + 1] = End
      BY <1>5, <2>1 DEF HeaderAt
    <3>2. Len(old) \in Nat /\ Len(cards) \in Nat
      BY <1>5, LenProperties
    <3>3. Simple # End
      <4>1. Simple.key = <<"SIMPLE">> /\ End.key = <<"END">>
        BY DEF Simple, End, Card
      <4> QED
        BY <4>1
    <3>4. Len(old) # 0
      <4>1. Len(old) = 0 => 0 + Len(old) + 1 = 1
        OBVIOUS
      <4> QED
        BY <1>4, <3>1, <3>3, <4>1
    <3>5. 1 \in 1 .. Len(old) /\ 0 + 1 = 1
      BY <3>2, <3>4
    <3>6. old[1] = Simple
      BY <1>4, <3>1, <3>5
    <3>7. Len(cards) > 0 /\ cards[1] = Simple
      BY <1>7, <3>2, <3>4, <3>6 DEF StartsSimple
    <3>8. 1 \in 1 .. Len(cards)
      BY <3>2, <3>7
    <3>9. new[hdus[j].offset + 1] = cards[1]
      BY <1>3, <3>8
    <3> QED
      BY <2>1, <3>5, <3>7, <3>9
  <2>2. CASE hdus[j].offset # 0
    <3>1. 1 \in 1 .. hdus[j].offset
      BY <1>3, <2>2
    <3> QED
      BY <1>3, <1>4, <3>1
  <2> QED
    BY <2>1, <2>2
<1>10. Len(moved) > 0
  BY <1>3, <1>5, <1>8
<1>11. Parses(new) /\ FitsStart(new) /\ Hdus(new) = moved
  BY <1>3, <1>9, <1>10, ReadAsFits
<1>12. Images(moved) = Images(hdus) /\ FirstImage(moved) = FirstImage(hdus)
  <2>1. \A n \in 1 .. Len(hdus) :
          Get(moved[n].cards, <<"NAXIS">>, 0) = Get(hdus[n].cards, <<"NAXIS">>, 0)
    BY <1>2, <1>3 DEF old, hdus
  <2> QED
    BY <1>3, <1>5, <1>6, <2>1, SameImages
<1>13. /\ \A n \in 1 .. Len(hdus) :
            /\ Hdus(new)[n].cards = IF n = j THEN cards ELSE hdus[n].cards
            /\ Pixels(new, Hdus(new)[n]) = Pixels(file, hdus[n])
       /\ Len(Hdus(new)) = Len(hdus)
       /\ Images(Hdus(new)) = Images(hdus) /\ FirstImage(Hdus(new)) = FirstImage(hdus)
  BY <1>3, <1>11, <1>12
<1> QED
  BY <1>3, <1>11, <1>13 DEF new, hdus

-----------------------------------------------------------------------------
(* What solving and editing make of a FITS file.                            *)

\* set_cards: the image gets the solution, nothing else changes.
LEMMA SolvedFitsFile ==
  ASSUME NEW file \in Seq(Cells), FitsStart(file), Decodes(file), NEW n \in Nat
  PROVE  LET new == SolvedFits(file, n)
             hdus == Hdus(file)
         IN /\ new \in Seq(Cells) /\ FitsStart(new) /\ Decodes(new)
            /\ WcsOf(Image(new).cards) = WcsCards(n)
            /\ OthersOf(Image(new).cards) = Append(OthersOf(Image(file).cards), Comment)
            /\ Pixels(new, Image(new)) = Pixels(file, Image(file))
            /\ Len(new) % PerBlock = Len(file) % PerBlock
            /\ Len(Hdus(new)) = Len(hdus)
            /\ \A m \in DOMAIN hdus \ {FirstImage(hdus)} :
                 /\ Hdus(new)[m].cards = hdus[m].cards
                 /\ Pixels(new, Hdus(new)[m]) = Pixels(file, hdus[m])
<1> DEFINE hdus == Hdus(file)
           j == FirstImage(hdus)
           old == hdus[j].cards
           cards == NewCards(old, n)
           new == SolvedFits(file, n)
<1>1. Parses(file) /\ Images(hdus) # {}
  BY DEF Decodes
<1>2. Chain(file, hdus)
  BY <1>1, ParsedIsChain
<1>3. hdus \in Seq(Hdu) /\ DOMAIN hdus = 1 .. Len(hdus)
  BY <1>2, ChainFacts
<1>4. j \in 1 .. Len(hdus)
  BY <1>1, <1>3, FirstImageFacts
<1>5. old \in Seq(Cells) /\ \A i \in 1 .. Len(old) : old[i] # End
  BY <1>2, <1>4, ChainFacts
<1>6. /\ cards \in Seq(Cells) /\ WcsOf(cards) = WcsCards(n)
      /\ OthersOf(cards) = Append(OthersOf(old), Comment)
  BY <1>5, NewCardsSelected
<1>7. /\ SameData(old, cards) /\ \A i \in 1 .. Len(cards) : cards[i] # End
      /\ StartsSimple(old) => StartsSimple(cards)
  <2>1. /\ SameData(old, cards) /\ \A i \in 1 .. Len(cards) : cards[i] # End
        /\ Len(old) > 0 /\ old[1] = Card(<<"SIMPLE">>, 1) =>
             Len(cards) > 0 /\ cards[1] = Card(<<"SIMPLE">>, 1)
    BY SMTT(30), <1>5, NewCardsSame
  <2> HIDE DEF cards, old
  <2> QED
    BY <2>1 DEF StartsSimple, Simple
<1>8. new = Rewritten(file, hdus[j], cards)
  <2>1. new = SetCards(file, Solution(n))
    BY DEF SolvedFits, Solution, Comment
  <2> QED
    BY <1>1, <2>1 DEF SetCards, Rewritten, Spliced, NewCards, KeptOf
<1> HIDE DEF cards, new, old
<1>9. old = hdus[j].cards
  BY DEF old
<1> HIDE DEF j
<1>10. j = FirstImage(hdus)
  BY DEF j
<1> HIDE DEF hdus
<1>11. /\ new \in Seq(Cells) /\ Parses(new) /\ FitsStart(new)
       /\ Len(Hdus(new)) = Len(hdus)
       /\ \A m \in 1 .. Len(hdus) :
            /\ Hdus(new)[m].cards = IF m = j THEN cards ELSE hdus[m].cards
            /\ Pixels(new, Hdus(new)[m]) = Pixels(file, hdus[m])
       /\ Len(new) % PerBlock = Len(file) % PerBlock
       /\ Images(Hdus(new)) = Images(hdus) /\ FirstImage(Hdus(new)) = FirstImage(hdus)
  <2>1. j \in 1 .. Len(Hdus(file)) /\ SameData(Hdus(file)[j].cards, cards)
        /\ (StartsSimple(Hdus(file)[j].cards) => StartsSimple(cards))
        /\ new = Rewritten(file, Hdus(file)[j], cards)
    BY <1>4, <1>7, <1>8, <1>9 DEF hdus
  <2> QED
    BY <1>1, <1>6, <1>7, <2>1, NewHeader DEF hdus
<1>12. Decodes(new)
  BY <1>1, <1>11 DEF Decodes
<1>13. Image(new) = Hdus(new)[j] /\ Image(file) = hdus[j]
  BY <1>10, <1>11 DEF Image, hdus
<1>14. Image(new).cards = cards /\ Pixels(new, Image(new)) = Pixels(file, Image(file))
  BY <1>4, <1>11, <1>13
<1>15. \A m \in DOMAIN hdus \ {j} :
         /\ Hdus(new)[m].cards = hdus[m].cards
         /\ Pixels(new, Hdus(new)[m]) = Pixels(file, hdus[m])
  BY <1>3, <1>11
<1>16. WcsOf(Image(new).cards) = WcsCards(n)
       /\ OthersOf(Image(new).cards) = Append(OthersOf(Image(file).cards), Comment)
  BY <1>6, <1>9, <1>13, <1>14
<1> QED
  BY <1>10, <1>11, <1>12, <1>14, <1>15, <1>16 DEF new, hdus

\* A card more in one of the headers: the file still decodes.
LEMMA EditedFile ==
  ASSUME NEW file \in Seq(Cells), FitsStart(file), Decodes(file),
         NEW card \in Edits, NEW n \in DOMAIN Hdus(file)
  PROVE  LET hdu == Hdus(file)[n]
             new == SubSeq(file, 1, hdu.offset) \o HeaderBlock(Append(hdu.cards, card))
                      \o SubSeq(file, hdu.data_offset + 1, Len(file))
         IN new \in Seq(Cells) /\ FitsStart(new) /\ Decodes(new)
<1> DEFINE hdus == Hdus(file)
           old == hdus[n].cards
           cards == Append(old, card)
           new == Rewritten(file, hdus[n], cards)
<1>1. Parses(file) /\ Images(hdus) # {}
  BY DEF Decodes
<1>2. Chain(file, hdus)
  BY <1>1, ParsedIsChain
<1>3. n \in 1 .. Len(hdus)
  BY <1>2, ChainFacts
<1>4. old \in Seq(Cells) /\ \A i \in 1 .. Len(old) : old[i] # End
  BY <1>2, <1>3, ChainFacts
<1>5. card \in Cells /\ card # End /\ ~SizesData(card.key)
  BY SolvedAssumption DEF SolvedAssumption
<1>6. old = Hdus(file)[n].cards
  OBVIOUS
<1> HIDE DEF old
<1>7. /\ cards \in Seq(Cells) /\ Len(old) \in Nat /\ Len(cards) = Len(old) + 1
      /\ \A i \in 1 .. Len(old) : cards[i] = old[i]
      /\ cards[Len(old) + 1] = card
  BY <1>4, <1>5, Pushed
<1>8. cards = old \o <<card>> /\ <<card>> \in Seq(Cells) /\ Len(<<card>>) = 1 /\ <<card>>[1] = card
  BY <1>4, <1>5
<1> HIDE DEF cards
<1>9. SameData(old, cards)
  <2>1. ASSUME NEW key, SizesData(key) PROVE Get(cards, key, 0) = Get(old, key, 0)
    <3>1. \A i \in 1 .. Len(<<card>>) : <<card>>[i].key # key
      BY <1>5, <1>8, <2>1
    <3> QED
      BY <1>4, <1>8, <3>1, GetBefore
  <2> QED
    BY <2>1 DEF SameData
<1>10. \A i \in 1 .. Len(cards) : cards[i] # End
  <2>1. \A i \in 1 .. Len(cards) : i \in 1 .. Len(old) \/ i = Len(old) + 1
    BY <1>7
  <2> QED
    BY <1>4, <1>5, <1>7, <2>1
<1>11. StartsSimple(old) => StartsSimple(cards)
  <2>1. Len(old) > 0 => 1 \in 1 .. Len(old) /\ Len(cards) > 0
    BY <1>7
  <2> QED
    BY <1>7, <2>1 DEF StartsSimple
<1>12. /\ new \in Seq(Cells) /\ Parses(new) /\ FitsStart(new)
       /\ Images(Hdus(new)) = Images(hdus)
  BY <1>1, <1>3, <1>6, <1>7, <1>9, <1>10, <1>11, NewHeader
<1>13. Decodes(new)
  BY <1>1, <1>12 DEF Decodes
<1>14. new = SubSeq(file, 1, Hdus(file)[n].offset)
               \o HeaderBlock(Append(Hdus(file)[n].cards, card))
               \o SubSeq(file, Hdus(file)[n].data_offset + 1, Len(file))
  BY <1>6 DEF Rewritten, Spliced, cards
<1> QED
  BY <1>12, <1>13, <1>14

-----------------------------------------------------------------------------
(* New files: the .wcs answer, and the FITS file of another image.          *)

\* A header, its data and the padding behind both: a file of one HDU.
LEMMA OneHdu ==
  ASSUME NEW file \in Seq(Cells), NEW cards, HeaderAt(file, 0, cards), StartsSimple(cards),
         Len(file) = Padded(Len(cards) + 1) + Padded(DataLen(cards))
  PROVE  /\ Parses(file) /\ FitsStart(file)
         /\ Hdus(file) = <<HduOf(0, cards)>> /\ HduOf(0, cards).cards = cards
<1> DEFINE hdu == HduOf(0, cards)
           none == <<>>
<1>1. cards \in Seq(Cells) /\ 0 \in Nat
  BY DEF HeaderAt
<1>2. /\ hdu \in Hdu /\ hdu.cards = cards
      /\ hdu.data_offset = 0 + Padded(Len(cards) + 1) /\ hdu.data_len = DataLen(cards)
      /\ After(hdu) = 0 + Padded(Len(cards) + 1) + Padded(DataLen(cards))
      /\ DataLen(cards) \in Nat /\ Padded(Len(cards) + 1) \in Nat
  BY <1>1, HduOfFacts
<1>3. DataLen(cards) <= Padded(DataLen(cards)) /\ Padded(DataLen(cards)) \in Nat
  BY <1>2, PaddedFacts
<1>4. Complete(file, hdu) /\ Len(file) = After(hdu)
  <2>1. Len(file) = After(hdu)
    BY <1>2, <1>3
  <2>2. hdu.data_offset + hdu.data_len <= Len(file)
    <3>1. PICK a \in Nat, b \in Nat, c \in Nat :
            a = Padded(Len(cards) + 1) /\ b = DataLen(cards) /\ c = Padded(DataLen(cards))
      BY <1>2, <1>3
    <3>2. hdu.data_offset = a /\ hdu.data_len = b /\ Len(file) = a + c /\ b <= c
      BY <1>2, <1>3, <3>1
    <3> HIDE DEF hdu
    <3> QED
      BY <3>1, <3>2
  <2> QED
    BY <2>1, <2>2 DEF Complete
<1>5. none \in Seq(Hdu) /\ Len(none) = 0
  BY EmptySeq
<1>6. Linked(file, none)
  BY <1>5 DEF Linked
<1>7. Start(none, Len(none)) = 0
  BY <1>5 DEF Start
<1>8. Linked(file, Append(none, hdu)) /\ Start(Append(none, hdu), Len(Append(none, hdu))) = After(hdu)
  <2> HIDE DEF none
  <2>1. Start(none, Len(none)) \in Nat /\ HeaderAt(file, Start(none, Len(none)), cards)
        /\ Complete(file, HduOf(Start(none, Len(none)), cards))
    BY <1>1, <1>4, <1>7
  <2> QED
    BY <1>6, <1>7, <2>1, LinkOneMore
<1>9. Append(none, hdu) = <<hdu>> /\ Len(<<hdu>>) = 1
  OBVIOUS
<1>10. Len(file) <= After(hdu)
  <2>1. Len(file) \in Nat
    BY LenProperties
  <2> QED
    BY <1>4, <2>1
<1>11. Chain(file, <<hdu>>)
  BY <1>8, <1>9, <1>10 DEF Chain
<1>12. file[1] = Simple
  <2>1. Len(cards) \in Nat /\ Len(cards) > 0 /\ cards[1] = Simple
    BY <1>1, LenProperties DEF StartsSimple
  <2>2. 1 \in 1 .. Len(cards) /\ 0 + 1 = 1
    BY <2>1
  <2>3. file[0 + 1] = cards[1]
    BY <2>2 DEF HeaderAt
  <2> QED
    BY <2>1, <2>2, <2>3
<1> HIDE DEF hdu
<1>13. Parses(file) /\ FitsStart(file) /\ Hdus(file) = <<hdu>>
  BY <1>9, <1>11, <1>12, ReadAsFits
<1> QED
  BY <1>2, <1>13 DEF hdu

\* A header whose first card is SIMPLE is read back where it was written.
LEMMA HeaderFirst ==
  ASSUME NEW cards \in Seq(Cells), \A i \in 1 .. Len(cards) : cards[i] # End,
         NEW rest \in Seq(Cells)
  PROVE  LET file == HeaderBlock(cards) \o rest
         IN /\ file \in Seq(Cells) /\ HeaderAt(file, 0, cards)
            /\ Len(file) = Padded(Len(cards) + 1) + Len(rest)
            /\ \A i \in 1 .. Len(rest) : file[Padded(Len(cards) + 1) + i] = rest[i]
<1> DEFINE block == HeaderBlock(cards)
           file == block \o rest
<1>1. block \in Seq(Cells) /\ Len(block) = Padded(Len(cards) + 1)
  BY HeaderBlockFacts
<1> HIDE DEF block
<1>2. /\ file \in Seq(Cells) /\ Len(file) = Len(block) + Len(rest)
      /\ \A i \in 1 .. Len(block) + Len(rest) :
           file[i] = IF i <= Len(block) THEN block[i] ELSE rest[i - Len(block)]
  <2>1. block \in Seq(Cells)
    BY <1>1
  <2> QED
    BY <2>1, ConcatProperties
<1>3. Len(block) \in Nat /\ Len(rest) \in Nat
  BY <1>1, LenProperties
<1> HIDE DEF file
<1>4. \A i \in 1 .. Len(block) : file[0 + i] = block[i]
  BY <1>2, <1>3
<1>5. \A i \in 1 .. Len(rest) : file[Len(block) + i] = rest[i]
  BY <1>2, <1>3
<1>6. 0 + Len(block) <= Len(file)
  BY <1>2, <1>3
<1>7. HeaderAt(file, 0, cards)
  BY <1>2, <1>4, <1>6, WrittenHeader DEF block
<1> QED
  BY <1>1, <1>2, <1>5, <1>7 DEF file, block

\* A card has its key and its value.
LEMMA CardFields == \A k, v : Card(k, v).key = k /\ Card(k, v).val = v
  BY DEF Card

\* The card of a header with the key is the one at i, if none before it has it.
LEMMA GetAt ==
  ASSUME NEW cards \in Seq(Cells), NEW key, NEW i \in 1 .. Len(cards), NEW v \in Int,
         cards[i] = Card(key, v),
         \A j \in 1 .. Len(cards) : cards[j].key = key => i <= j
  PROVE  Get(cards, key, 0) = v
<1>1. cards[i].key = key /\ cards[i].val = v /\ v # NoValue
  BY CardFields, FitsAssumption DEF FitsAssumption
<1>2. DOMAIN cards = 1 .. Len(cards)
  BY LenProperties
<1>3. i \in Valued(cards, key) /\ \A j \in Valued(cards, key) : i <= j
  BY <1>1, <1>2 DEF Valued
<1> QED
  BY <1>1, <1>3, GetFirst

\* No card has the key.
LEMMA GetNowhere ==
  ASSUME NEW cards \in Seq(Cells), NEW key, \A i \in 1 .. Len(cards) : cards[i].key # key
  PROVE  Get(cards, key, 0) = 0
<1>1. Valued(cards, key) = {}
  BY LenProperties DEF Valued
<1> QED
  BY <1>1, GetNone

\* The keys of a new file are different ones.
LEMMA KeysApart ==
  /\ <<"SIMPLE">> # <<"NAXIS">> /\ <<"SIMPLE">> # <<"PCOUNT">> /\ <<"NAXIS">> # <<"PCOUNT">>
  /\ \A i \in Nat : /\ <<"NAXIS", i>> # <<"NAXIS">> /\ <<"NAXIS", i>> # <<"SIMPLE">>
                    /\ <<"NAXIS", i>> # <<"PCOUNT">>
  /\ <<"NAXIS", 1>> # <<"NAXIS", 2>>
  /\ \A i \in 1 .. 3 : SolutionKeys[i] # <<"SIMPLE">> /\ ~SizesData(SolutionKeys[i])
  /\ \A i \in 1 .. 3, j \in 1 .. 3 : i # j => SolutionKeys[i] # SolutionKeys[j]
  /\ SizesData(<<"NAXIS">>) /\ SizesData(<<"PCOUNT">>)
  /\ \A i \in Nat : SizesData(<<"NAXIS", i>>)
<1>1. <<"SIMPLE">> # <<"NAXIS">> /\ <<"SIMPLE">> # <<"PCOUNT">> /\ <<"NAXIS">> # <<"PCOUNT">>
  OBVIOUS
<1>2. \A i \in Nat : /\ <<"NAXIS", i>> # <<"NAXIS">> /\ <<"NAXIS", i>> # <<"SIMPLE">>
                     /\ <<"NAXIS", i>> # <<"PCOUNT">>
  OBVIOUS
<1>3. <<"NAXIS", 1>> # <<"NAXIS", 2>>
  OBVIOUS
<1>4. \A i \in 1 .. 3 : SolutionKeys[i] # <<"SIMPLE">> /\ ~SizesData(SolutionKeys[i])
  BY KeyFacts
<1>5. <<"WCSAXES">> # <<"CRVAL", 1>> /\ <<"WCSAXES">> # <<"CD", 1, 2>>
      /\ <<"CRVAL", 1>> # <<"CD", 1, 2>>
  OBVIOUS
<1>6. /\ SolutionKeys[1] = <<"WCSAXES">> /\ SolutionKeys[2] = <<"CRVAL", 1>>
      /\ SolutionKeys[3] = <<"CD", 1, 2>>
  BY DEF SolutionKeys
<1>7. ASSUME NEW i \in 1 .. 3, NEW j \in 1 .. 3, i # j PROVE SolutionKeys[i] # SolutionKeys[j]
  <2>1. (i = 1 \/ i = 2 \/ i = 3) /\ (j = 1 \/ j = 2 \/ j = 3)
    OBVIOUS
  <2> QED
    BY <1>5, <1>6, <1>7, <2>1
<1>8. SizesData(<<"NAXIS">>) /\ SizesData(<<"PCOUNT">>)
  BY DEF SizesData
<1>9. \A i \in Nat : SizesData(<<"NAXIS", i>>)
  BY DEF SizesData
<1> QED
  BY <1>1, <1>2, <1>3, <1>4, <1>7, <1>8, <1>9

\* The .wcs answer reads as the solution.
LEMMA WcsAnswer ==
  ASSUME NEW n \in Nat
  PROVE  LET file == HeaderOnly(WcsCards(n))
         IN /\ Parses(file)
            /\ \A i \in DOMAIN SolutionKeys : Get(Hdus(file)[1].cards, SolutionKeys[i], 0) = n
<1> DEFINE head == <<Card(<<"SIMPLE">>, 1), Card(<<"NAXIS">>, 0)>>
           header == head \o WcsCards(n)
           file == HeaderBlock(header)
<1>1. /\ head \in Seq(Cells) /\ Len(head) = 2
      /\ head[1] = Simple /\ head[2] = Card(<<"NAXIS">>, 0)
  BY CardIsCell DEF Simple
<1>2. /\ WcsCards(n) \in Seq(Cells) /\ Len(WcsCards(n)) = 3 /\ DOMAIN SolutionKeys = 1 .. 3
      /\ \A i \in 1 .. 3 : WcsCards(n)[i] = Card(SolutionKeys[i], n)
  BY SolutionFacts
<1> HIDE DEF head
<1>3. /\ header \in Seq(Cells) /\ Len(header) = 5
      /\ header[1] = Simple /\ header[2] = Card(<<"NAXIS">>, 0)
      /\ \A i \in 1 .. 3 : header[2 + i] = Card(SolutionKeys[i], n)
  <2>1. head \in Seq(Cells) /\ WcsCards(n) \in Seq(Cells)
    BY <1>1, <1>2
  <2>2. /\ header \in Seq(Cells) /\ Len(header) = Len(head) + Len(WcsCards(n))
        /\ \A i \in 1 .. Len(head) + Len(WcsCards(n)) :
             header[i] = IF i <= Len(head) THEN head[i] ELSE WcsCards(n)[i - Len(head)]
    BY <2>1, ConcatProperties
  <2> HIDE DEF header
  <2>3. \A i \in 1 .. 5 : header[i] = IF i <= 2 THEN head[i] ELSE WcsCards(n)[i - 2]
    BY <1>1, <1>2, <2>2
  <2>4. header[1] = head[1] /\ header[2] = head[2]
    BY <2>3
  <2>5. \A i \in 1 .. 3 : header[2 + i] = WcsCards(n)[i]
    <3>1. \A i \in 1 .. 3 : 2 + i \in 1 .. 5 /\ ~(2 + i <= 2) /\ (2 + i) - 2 = i
      OBVIOUS
    <3> QED
      BY <2>3, <3>1
  <2> QED
    BY <1>1, <1>2, <2>2, <2>4, <2>5
<1> HIDE DEF header
<1>4. /\ header[1].key = <<"SIMPLE">> /\ header[2].key = <<"NAXIS">>
      /\ \A i \in 1 .. 3 : header[2 + i].key = SolutionKeys[i]
  BY <1>3, CardFields DEF Simple
<1>5. \A i \in 1 .. Len(header) : i = 1 \/ i = 2 \/ \E j \in 1 .. 3 : i = 2 + j
  <2>1. \A i \in 1 .. 5 : i = 1 \/ i = 2 \/ (i - 2 \in 1 .. 3 /\ i = 2 + (i - 2))
    OBVIOUS
  <2> QED
    BY <1>3, <2>1
<1>6. \A i \in 1 .. Len(header) : header[i] # End
  <2>1. End.key = <<"END">> /\ <<"SIMPLE">> # <<"END">> /\ <<"NAXIS">> # <<"END">>
    BY DEF End, Card
  <2> QED
    BY <1>4, <1>5, <2>1, KeyFacts
<1>7. Get(header, <<"NAXIS">>, 0) = 0
  <2>1. 2 \in 1 .. Len(header) /\ \A j \in 1 .. Len(header) : j # 1 => 2 <= j
    BY <1>3
  <2>2. \A j \in 1 .. Len(header) : header[j].key = <<"NAXIS">> => 2 <= j
    BY <1>4, <2>1, KeysApart
  <2> QED
    BY <1>3, <2>1, <2>2, GetAt
<1>8. Get(header, <<"PCOUNT">>, 0) = 0
  <2>1. \A i \in 1 .. Len(header) : header[i].key # <<"PCOUNT">>
    BY <1>4, <1>5, KeysApart
  <2> QED
    BY <1>3, <2>1, GetNowhere
<1>9. DataLen(header) = 0
  BY <1>7, <1>8 DEF DataLen, NotNegative
<1>10. \A i \in 1 .. 3 : Get(header, SolutionKeys[i], 0) = n
  <2>1. ASSUME NEW i \in 1 .. 3 PROVE Get(header, SolutionKeys[i], 0) = n
    <3>1. 2 + i \in 1 .. Len(header)
      BY <1>3
    <3>2. \A j \in 1 .. Len(header) : header[j].key = SolutionKeys[i] => 2 + i <= j
      <4>1. ASSUME NEW j \in 1 .. Len(header), header[j].key = SolutionKeys[i] PROVE j = 2 + i
        <5>1. j # 1 /\ j # 2
          BY <1>4, <4>1, KeysApart
        <5>2. PICK l \in 1 .. 3 : j = 2 + l
          BY <1>5, <5>1
        <5>3. SolutionKeys[l] = SolutionKeys[i]
          BY <1>4, <4>1, <5>2
        <5> QED
          BY <5>2, <5>3, KeysApart
      <4> QED
        BY <4>1
    <3>3. header[2 + i] = Card(SolutionKeys[i], n) /\ n \in Int
      BY <1>3
    <3>4. header \in Seq(Cells)
      BY <1>3
    <3> QED
      BY <3>1, <3>2, <3>3, <3>4, GetAt
  <2> QED
    BY <2>1
<1>11. file = HeaderBlock(header) \o <<>> /\ <<>> \in Seq(Cells) /\ Len(<<>>) = 0
  <2>1. file \in Seq(Cells)
    BY <1>3, HeaderBlockFacts
  <2> HIDE DEF file
  <2>2. file = file \o <<>>
    BY <2>1, ConcatEmptySeq
  <2> QED
    BY <2>2, EmptySeq DEF file
<1>12. /\ file \in Seq(Cells) /\ HeaderAt(file, 0, header)
       /\ Len(file) = Padded(Len(header) + 1) + 0
  <2>1. PICK none \in Seq(Cells) : none = <<>> /\ Len(none) = 0
    BY <1>11
  <2>2. LET full == HeaderBlock(header) \o none
        IN /\ full \in Seq(Cells) /\ HeaderAt(full, 0, header)
           /\ Len(full) = Padded(Len(header) + 1) + Len(none)
    BY <1>3, <1>6, HeaderFirst
  <2>3. file = HeaderBlock(header) \o none
    BY <1>11, <2>1
  <2> HIDE DEF file
  <2> QED
    BY <2>1, <2>2, <2>3
<1>13. Padded(0) = 0 /\ Padded(Len(header) + 1) \in Nat
  <2>1. PICK p \in Nat : p = PerBlock /\ p > 0
    BY FitsAssumption DEF FitsAssumption
  <2>2. Padded(0) \in Nat /\ Padded(0) < p /\ \E q \in Nat : Padded(0) = q * PerBlock
    <3>1. Padded(0) \in Nat /\ Padded(0) < 0 + PerBlock /\ \E q \in Nat : Padded(0) = q * PerBlock
      BY PaddedFacts
    <3> QED
      BY <2>1, <3>1
  <2>3. PICK q \in Nat : Padded(0) = q * PerBlock
    BY <2>2
  <2>4. q \in Int /\ -PerBlock < q * PerBlock /\ q * PerBlock < PerBlock
    BY <2>1, <2>2, <2>3
  <2>5. q = 0
    BY <2>4, SmallMultiple
  <2>6. Padded(0) = 0
    BY <2>1, <2>3, <2>5
  <2>7. Len(header) + 1 \in Nat
    BY <1>3
  <2> QED
    BY <2>6, <2>7, PaddedFacts
<1>14. Len(file) = Padded(Len(header) + 1) + Padded(DataLen(header))
  BY <1>9, <1>12, <1>13
<1>15. StartsSimple(header)
  BY <1>3 DEF StartsSimple
<1>16. Parses(file) /\ Hdus(file) = <<HduOf(0, header)>> /\ HduOf(0, header).cards = header
  BY <1>12, <1>14, <1>15, OneHdu
<1>17. Hdus(file)[1].cards = header
  BY <1>16
<1>18. file = HeaderOnly(WcsCards(n))
  BY DEF HeaderOnly, file, header, head
<1> HIDE DEF file
<1> QED
  BY <1>2, <1>10, <1>16, <1>17, <1>18

\* The FITS file made of another image shows that image under the solution.
LEMMA NewFitsFile ==
  ASSUME NEW file \in Seq(Cells), Len(file) > 0, ~FitsStart(file), NEW n \in Nat
  PROVE  LET new == SolvedFits(file, n)
         IN /\ new \in Seq(Cells) /\ FitsStart(new) /\ Decodes(new)
            /\ WcsOf(Image(new).cards) = WcsCards(n)
            /\ Pixels(new, Image(new)) = file
            /\ Len(new) % PerBlock = 0
<1> DEFINE head == <<Card(<<"SIMPLE">>, 1), Card(<<"NAXIS">>, 2), Card(<<"NAXIS", 1>>, Len(file)),
                     Card(<<"NAXIS", 2>>, 1)>>
           header == NewCards(head, n)
           filler == [i \in 1 .. Padded(Len(file)) - Len(file) |-> Card(Data, 0)]
           rest == file \o filler
           new == HeaderBlock(header) \o rest
<1>1. PICK width \in Nat : width = Len(file) /\ width > 0 /\ width * 1 = width
  BY LenProperties
<1>2. /\ head \in Seq(Cells) /\ Len(head) = 4
      /\ head[1] = Simple /\ head[2] = Card(<<"NAXIS">>, 2)
      /\ head[3] = Card(<<"NAXIS", 1>>, width) /\ head[4] = Card(<<"NAXIS", 2>>, 1)
  <2>1. /\ Card(<<"SIMPLE">>, 1) \in Cells /\ Card(<<"NAXIS">>, 2) \in Cells
        /\ Card(<<"NAXIS", 1>>, width) \in Cells /\ Card(<<"NAXIS", 2>>, 1) \in Cells
    BY CardIsCell
  <2> QED
    BY <1>1, <2>1 DEF Simple
<1>3. /\ SolvedFits(file, n) = HeaderBlock(head \o Solution(n)) \o file \o filler
  <2>1. width * 1 = Len(file)
    BY <1>1
  <2> QED
    BY <1>1, <2>1 DEF SolvedFits, ImageFile, Solution, Comment
<1> HIDE DEF head
<1>4. /\ head[1].key = <<"SIMPLE">> /\ head[2].key = <<"NAXIS">>
      /\ head[3].key = <<"NAXIS", 1>> /\ head[4].key = <<"NAXIS", 2>>
  BY <1>2, CardFields DEF Simple
<1>5. \A i \in 1 .. Len(head) : i = 1 \/ i = 2 \/ i = 3 \/ i = 4
  BY <1>2
<1>6. \A i \in 1 .. Len(head) : head[i] \in OtherCells /\ head[i] # End
  <2>1. Blank.key = <<>> /\ End.key = <<"END">> /\ <<"SIMPLE">> # <<"END">>
    BY DEF Blank, End, Card
  <2>2. \A i \in 1 .. Len(head) : head[i] \in Cells
    BY <1>2, LenProperties
  <2>3. \A i \in 1 .. Len(head) :
          /\ ~IsWcsKey(head[i].key) /\ head[i].key # <<>> /\ head[i].key # <<"END">>
    BY <1>4, <1>5, <2>1, KeyFacts, KeysApart
  <2> QED
    BY <2>1, <2>2, <2>3 DEF OtherCells
\* Nothing of the new header's own cards makes way for the solution.
<1>7. header = head \o Solution(n)
  <2>1. KeptOf(head, n) = Sel(head, OtherCells)
    BY <1>2, SelectedCards
  <2>2. Sel(head, OtherCells) = head
    BY <1>2, <1>6, SelAll
  <2> QED
    BY <2>1, <2>2 DEF NewCards
<1>8. /\ header \in Seq(Cells) /\ WcsOf(header) = WcsCards(n)
      /\ \A i \in 1 .. Len(header) : header[i] # End
      /\ StartsSimple(header)
  <2>1. Len(head) > 0 /\ head[1] = Card(<<"SIMPLE">>, 1)
    BY <1>2 DEF Simple
  <2> QED
    BY <1>2, <1>6, <2>1, NewCardsSelected, NewCardsSame DEF StartsSimple, Simple
<1>9. /\ Solution(n) \in Seq(Cells) /\ Len(Solution(n)) = 4
      /\ \A i \in 1 .. 4 : ~SizesData(Solution(n)[i].key)
  BY SolutionFacts, SolutionCards
<1> HIDE DEF header
<1>10. Len(header) = 8 /\ \A i \in 1 .. 4 : header[i] = head[i]
  <2>1. head \in Seq(Cells) /\ Solution(n) \in Seq(Cells)
    BY <1>2, <1>9
  <2>2. /\ Len(header) = Len(head) + Len(Solution(n))
        /\ \A i \in 1 .. Len(head) + Len(Solution(n)) :
             header[i] = IF i <= Len(head) THEN head[i] ELSE Solution(n)[i - Len(head)]
    BY <1>7, <2>1, ConcatProperties
  <2> QED
    BY <1>2, <1>9, <2>2
<1>11. \A key : SizesData(key) => Get(header, key, 0) = Get(head, key, 0)
  <2>1. ASSUME NEW key, SizesData(key) PROVE Get(header, key, 0) = Get(head, key, 0)
    <3>1. \A i \in 1 .. Len(Solution(n)) : Solution(n)[i].key # key
      BY <1>9, <2>1
    <3> QED
      BY <1>2, <1>7, <1>9, <3>1, GetBefore
  <2> QED
    BY <2>1
<1>12. /\ Get(header, <<"NAXIS">>, 0) = 2 /\ Get(header, <<"NAXIS", 1>>, 0) = width
       /\ Get(header, <<"NAXIS", 2>>, 0) = 1 /\ Get(header, <<"PCOUNT">>, 0) = 0
  <2>1. Get(head, <<"NAXIS">>, 0) = 2
    <3>1. 2 \in 1 .. Len(head) /\ \A j \in 1 .. Len(head) : head[j].key = <<"NAXIS">> => 2 <= j
      BY <1>2, <1>4, <1>5, KeysApart
    <3> QED
      BY <1>2, <3>1, GetAt
  <2>2. Get(head, <<"NAXIS", 1>>, 0) = width
    <3>1. <<"NAXIS", 1>> # <<"SIMPLE">> /\ <<"NAXIS", 1>> # <<"NAXIS">>
      BY KeysApart
    <3>2. PICK key : key = <<"NAXIS", 1>>
      OBVIOUS
    <3>3. head[1].key # key /\ head[2].key # key /\ head[3] = Card(key, width)
      BY <1>2, <1>4, <3>1, <3>2
    <3>4. 3 \in 1 .. Len(head) /\ \A j \in 1 .. Len(head) : head[j].key = key => 3 <= j
      <4>1. 3 \in 1 .. 4 /\ \A j \in 1 .. 4 : j # 1 /\ j # 2 => 3 <= j
        OBVIOUS
      <4>2. Len(head) = 4
        BY <1>2
      <4> QED
        BY <3>3, <4>1, <4>2
    <3>5. Get(head, key, 0) = width
      <4>1. head \in Seq(Cells) /\ width \in Int /\ head[3] = Card(key, width)
        BY <1>2, <3>3
      <4> QED
        BY <3>4, <4>1, GetAt
    <3> QED
      BY <3>2, <3>5
  <2>3. Get(head, <<"NAXIS", 2>>, 0) = 1
    <3>1. <<"NAXIS", 2>> # <<"SIMPLE">> /\ <<"NAXIS", 2>> # <<"NAXIS">> /\ <<"NAXIS", 2>> # <<"NAXIS", 1>>
      BY KeysApart
    <3>2. PICK key : key = <<"NAXIS", 2>>
      OBVIOUS
    <3>3. head[1].key # key /\ head[2].key # key /\ head[3].key # key /\ head[4] = Card(key, 1)
      BY <1>2, <1>4, <3>1, <3>2
    <3>4. 4 \in 1 .. Len(head) /\ \A j \in 1 .. Len(head) : head[j].key = key => 4 <= j
      <4>1. 4 \in 1 .. 4 /\ \A j \in 1 .. 4 : j # 1 /\ j # 2 /\ j # 3 => 4 <= j
        OBVIOUS
      <4>2. Len(head) = 4
        BY <1>2
      <4> QED
        BY <3>3, <4>1, <4>2
    <3>5. Get(head, key, 0) = 1
      <4>1. head \in Seq(Cells) /\ 1 \in Int /\ head[4] = Card(key, 1)
        BY <1>2, <3>3
      <4> QED
        BY <3>4, <4>1, GetAt
    <3> QED
      BY <3>2, <3>5
  <2>4. Get(head, <<"PCOUNT">>, 0) = 0
    <3>1. \A i \in 1 .. Len(head) : head[i].key # <<"PCOUNT">>
      BY <1>4, <1>5, KeysApart
    <3> QED
      BY <1>2, <3>1, GetNowhere
  <2>5. SizesData(<<"NAXIS">>) /\ SizesData(<<"PCOUNT">>)
        /\ SizesData(<<"NAXIS", 1>>) /\ SizesData(<<"NAXIS", 2>>)
    BY KeysApart
  <2> QED
    BY <1>11, <2>1, <2>2, <2>3, <2>4, <2>5
<1>13. DataLen(header) = width
  <2> DEFINE axes == [i \in 1 .. 2 |-> NotNegative(Get(header, <<"NAXIS", i>>, 0))]
             elements == Elements(axes, 2)
  <2>1. axes[1] = width /\ axes[2] = 1
    BY <1>12 DEF NotNegative
  <2>2. \A i \in 1 .. 2 : i = 1 \/ i = 2
    OBVIOUS
  <2>3. axes \in [1 .. 2 -> Nat]
    BY <2>1, <2>2
  <2>4. NotNegative(Get(header, <<"NAXIS">>, 0)) = 2 /\ NotNegative(Get(header, <<"PCOUNT">>, 0)) = 0
    BY <1>12 DEF NotNegative
  <2>5. DataLen(header) = elements[2] + 0
    <3> DEFINE Axes(m) == [i \in 1 .. m |-> NotNegative(Get(header, <<"NAXIS", i>>, 0))]
               naxis == NotNegative(Get(header, <<"NAXIS">>, 0))
               nelem == IF naxis = 0 THEN 0 ELSE Elements(Axes(naxis), naxis)[naxis]
    <3>1. DataLen(header) = nelem + NotNegative(Get(header, <<"PCOUNT">>, 0))
      BY Zenon DEF DataLen
    <3>2. Axes(2) = axes
      OBVIOUS
    <3> HIDE DEF Axes
    <3>3. naxis = 2
      BY <2>4
    <3> HIDE DEF naxis
    <3>4. nelem = Elements(Axes(2), 2)[2]
      BY <3>3
    <3> QED
      BY <2>4, <3>1, <3>2, <3>4
  <2> HIDE DEF axes
  <2>6. elements[0] = 1 /\ \A i \in 1 .. 2 : elements[i] = elements[i - 1] * axes[i]
    BY <2>3, ElementsFacts
  <2> HIDE DEF elements
  <2>7. elements[1] = 1 * width /\ elements[2] = elements[1] * 1
    <3>1. 1 \in 1 .. 2 /\ 2 \in 1 .. 2 /\ 1 - 1 = 0 /\ 2 - 1 = 1
      OBVIOUS
    <3> QED
      BY <2>1, <2>6, <3>1
  <2> QED
    BY <1>1, <2>5, <2>7
<1>14. PICK p \in Nat : p = Padded(width) /\ width <= p /\ \E q \in Nat : p = q * PerBlock
  BY PaddedFacts
<1>15. filler \in Seq(Cells) /\ Len(filler) = p - width
  <2>1. PICK f \in Nat : f = Padded(Len(file)) - Len(file) /\ f = p - width
    BY <1>1, <1>14
  <2>2. Card(Data, 0) \in Cells
    BY CardIsCell
  <2>3. filler = [i \in 1 .. f |-> Card(Data, 0)]
    BY <2>1
  <2> QED
    BY <2>1, <2>2, <2>3
<1> HIDE DEF filler
<1>16. rest \in Seq(Cells) /\ Len(rest) = p /\ \A i \in 1 .. width : rest[i] = file[i]
  <2>1. /\ rest \in Seq(Cells) /\ Len(rest) = Len(file) + Len(filler)
        /\ \A i \in 1 .. Len(file) + Len(filler) :
             rest[i] = IF i <= Len(file) THEN file[i] ELSE filler[i - Len(file)]
    <3>1. filler \in Seq(Cells)
      BY <1>15
    <3> QED
      BY <3>1, ConcatProperties
  <2> HIDE DEF rest
  <2> QED
    BY <1>1, <1>14, <1>15, <2>1
<1> HIDE DEF rest
<1>17. PICK h \in Nat, q \in Nat : h = Padded(Len(header) + 1) /\ h = q * PerBlock
  <2>1. Len(header) + 1 \in Nat
    BY <1>10
  <2> QED
    BY <2>1, PaddedFacts
<1>18. /\ new \in Seq(Cells) /\ HeaderAt(new, 0, header) /\ Len(new) = h + p
       /\ \A i \in 1 .. width : new[h + i] = file[i]
  <2>1. rest \in Seq(Cells)
    BY <1>16
  <2>2. /\ new \in Seq(Cells) /\ HeaderAt(new, 0, header)
        /\ Len(new) = Padded(Len(header) + 1) + Len(rest)
        /\ \A i \in 1 .. Len(rest) : new[Padded(Len(header) + 1) + i] = rest[i]
    BY <1>8, <2>1, HeaderFirst
  <2> HIDE DEF new
  <2>3. \A i \in 1 .. width : i \in 1 .. Len(rest)
    BY <1>14, <1>16
  <2> QED
    BY <1>16, <1>17, <2>2, <2>3
<1>19. new = SolvedFits(file, n)
  <2>1. PICK b \in Seq(Cells) : b = HeaderBlock(header)
    BY <1>8, HeaderBlockFacts
  <2>2. filler \in Seq(Cells)
    BY <1>15
  <2>3. b \o file \o filler = b \o (file \o filler)
    BY <2>2
  <2> QED
    BY <1>3, <1>7, <2>1, <2>3 DEF rest
<1> HIDE DEF new
<1>20. /\ Parses(new) /\ FitsStart(new) /\ Hdus(new) = <<HduOf(0, header)>>
       /\ HduOf(0, header).cards = header
  <2>1. Len(new) = Padded(Len(header) + 1) + Padded(DataLen(header))
    BY <1>13, <1>14, <1>17, <1>18
  <2> QED
    BY <1>8, <1>18, <2>1, OneHdu
<1>21. /\ HduOf(0, header).data_offset = h /\ HduOf(0, header).data_len = width
       /\ HduOf(0, header) \in Hdu
  <2>1. /\ HduOf(0, header).data_offset = 0 + Padded(Len(header) + 1)
        /\ HduOf(0, header).data_len = DataLen(header) /\ HduOf(0, header) \in Hdu
    BY <1>8, HduOfFacts
  <2> QED
    BY <1>13, <1>17, <2>1
<1>22. Image(new) = HduOf(0, header) /\ Images(Hdus(new)) # {}
  <2>1. PICK hdu \in Hdu : hdu = HduOf(0, header) /\ hdu.cards = header
    BY <1>20, <1>21
  <2>2. PICK hdus \in Seq(Hdu) : hdus = Hdus(new) /\ Len(hdus) = 1 /\ hdus[1] = hdu
    <3>1. <<hdu>> \in Seq(Hdu) /\ Len(<<hdu>>) = 1 /\ <<hdu>>[1] = hdu
      BY <2>1
    <3>2. Hdus(new) = <<hdu>>
      BY <1>20, <2>1
    <3> QED
      BY <3>1, <3>2
  <2>3. DOMAIN hdus = 1 .. 1
    BY <2>2, LenProperties
  <2>4. 1 \in Images(hdus)
    BY <1>12, <2>1, <2>2, <2>3 DEF Images
  <2>5. FirstImage(hdus) \in 1 .. Len(hdus)
    BY <2>4, FirstImageFacts
  <2>6. FirstImage(hdus) = 1
    BY <2>2, <2>5
  <2> QED
    BY <2>1, <2>2, <2>4, <2>6 DEF Image
<1>23. Decodes(new)
  BY <1>20, <1>22 DEF Decodes
<1>24. Pixels(new, Image(new)) = file
  <2>1. Pixels(new, Image(new)) = Slice(new, h, width)
    BY <1>21, <1>22 DEF Pixels, Slice
  <2>2. SameCells(new, h, file, 0, width) /\ 0 + width <= Len(file) /\ 0 \in Nat
    <3>1. \A i \in 1 .. width : 0 + i = i
      OBVIOUS
    <3> QED
      BY <1>1, <1>18, <3>1 DEF SameCells
  <2>3. Slice(new, h, width) = Slice(file, 0, width)
    BY <2>2, MovedCells
  <2>4. Slice(file, 0, width) = SubSeq(file, 1, Len(file))
    BY <1>1 DEF Slice
  <2>5. SubSeq(file, 1, Len(file)) = file
    BY SubSeqFull
  <2> QED
    BY <2>1, <2>3, <2>4, <2>5
<1>25. Len(new) % PerBlock = 0
  <2>1. PICK r \in Nat : p = r * PerBlock
    BY <1>14
  <2>2. PerBlock \in Nat
    BY FitsAssumption DEF FitsAssumption
  <2>3. 0 * PerBlock = 0
    BY <2>2
  <2>4. h + p \in Nat /\ 0 \in Nat /\ (h + p) + 0 * PerBlock = h + r * PerBlock
    BY <2>1, <2>3
  <2>5. (h + p) % PerBlock = h % PerBlock
    BY <2>4, SameRemainder
  <2>6. h % PerBlock = 0
    BY <1>17, PaddedWhole
  <2> QED
    BY <1>18, <2>5, <2>6
<1>26. WcsOf(Image(new).cards) = WcsCards(n)
  BY <1>8, <1>20, <1>22
<1> QED
  BY <1>18, <1>19, <1>20, <1>23, <1>24, <1>25, <1>26

\* A solve, whatever was uploaded.
LEMMA SolvedFile ==
  ASSUME NEW file \in Seq(Cells), Decodes(file), NEW n \in Nat
  PROVE  LET new == SolvedFits(file, n)
         IN /\ new \in Seq(Cells) /\ FitsStart(new) /\ Decodes(new)
            /\ WcsOf(Image(new).cards) = WcsCards(n)
            /\ OnlyTheWcs(file, new)
<1> DEFINE new == SolvedFits(file, n)
<1>1. CASE FitsStart(file)
  <2>1. /\ new \in Seq(Cells) /\ FitsStart(new) /\ Decodes(new)
        /\ WcsOf(Image(new).cards) = WcsCards(n)
        /\ OthersOf(Image(new).cards) = Append(OthersOf(Image(file).cards), Comment)
        /\ Pixels(new, Image(new)) = Pixels(file, Image(file))
        /\ Len(new) % PerBlock = Len(file) % PerBlock
        /\ Len(Hdus(new)) = Len(Hdus(file))
        /\ \A m \in DOMAIN Hdus(file) \ {FirstImage(Hdus(file))} :
             /\ Hdus(new)[m].cards = Hdus(file)[m].cards
             /\ Pixels(new, Hdus(new)[m]) = Pixels(file, Hdus(file)[m])
    BY <1>1, SolvedFitsFile
  <2> HIDE DEF new
  <2>2. OnlyTheWcs(file, new)
    BY <1>1, <2>1 DEF OnlyTheWcs, Comment
  <2> QED
    BY <2>1, <2>2 DEF new
<1>2. CASE ~FitsStart(file)
  <2>1. Len(file) > 0
    <3>1. file # <<>>
      BY <1>2 DEF Decodes
    <3> QED
      BY <3>1, LenProperties, EmptySeq
  <2>2. /\ new \in Seq(Cells) /\ FitsStart(new) /\ Decodes(new)
        /\ WcsOf(Image(new).cards) = WcsCards(n)
        /\ Pixels(new, Image(new)) = file /\ Len(new) % PerBlock = 0
    BY <1>2, <2>1, NewFitsFile
  <2> HIDE DEF new
  <2>3. OnlyTheWcs(file, new)
    BY <1>2, <2>2 DEF OnlyTheWcs
  <2> QED
    BY <2>2, <2>3 DEF new
<1> QED
  BY <1>1, <1>2

-----------------------------------------------------------------------------
(* The invariant: once solved, the file is a FITS file with an image.       *)

FitsInv ==
  /\ buf \in Seq(Cells)
  /\ rounds \in Nat
  /\ rounds > 0 => FitsStart(buf) /\ Decodes(buf)
  /\ solution > 0 => rounds > 0
  /\ WcsIsOurs

LEMMA FitsInvHolds == FitsSpec => []FitsInv
<1>1. FitsInit => FitsInv
  <2>1. SUFFICES ASSUME FitsInit PROVE FitsInv
    OBVIOUS
  <2>2. buf \in Seq(Cells) /\ rounds = 0 /\ solution = 0
    BY <2>1, SolvedAssumption DEF FitsInit, SolvedAssumption
  <2> QED
    BY <2>2 DEF FitsInv, WcsIsOurs
<1>2. FitsInv /\ [FitsNext]_fitsVars => FitsInv'
  <2>1. SUFFICES ASSUME FitsInv, [FitsNext]_fitsVars PROVE FitsInv'
    OBVIOUS
  <2>2. CASE Solve
    <3>1. buf \in Seq(Cells) /\ rounds \in Nat /\ Decodes(buf)
      BY <2>1, <2>2 DEF FitsInv, Solve
    <3>2. PICK n \in Nat : n = rounds + 1 /\ n > 0
      BY <3>1
    <3>3. /\ rounds' = n /\ solution' = n /\ buf' = SolvedFits(buf, n)
          /\ wcs' = HeaderOnly(WcsCards(n))
      BY <2>2, <3>2 DEF Solve
    <3>4. /\ buf' \in Seq(Cells) /\ FitsStart(buf') /\ Decodes(buf')
          /\ WcsOf(Image(buf').cards) = WcsCards(n)
      BY <3>1, <3>3, SolvedFile
    <3>5. /\ Parses(wcs')
          /\ \A i \in DOMAIN SolutionKeys : Get(Hdus(wcs')[1].cards, SolutionKeys[i], 0) = n
      BY <3>3, WcsAnswer
    <3>6. WcsIsOurs'
      BY <3>3, <3>4, <3>5 DEF WcsIsOurs
    <3> QED
      BY <3>2, <3>3, <3>4, <3>6 DEF FitsInv
  <2>3. CASE Edit
    <3>1. /\ buf \in Seq(Cells) /\ rounds \in Nat /\ rounds > 0
          /\ FitsStart(buf) /\ Decodes(buf)
      BY <2>1, <2>3 DEF FitsInv, Edit
    <3>2. PICK card \in Edits, n \in DOMAIN Hdus(buf) :
            buf' = SubSeq(buf, 1, Hdus(buf)[n].offset) \o HeaderBlock(Append(Hdus(buf)[n].cards, card))
                     \o SubSeq(buf, Hdus(buf)[n].data_offset + 1, Len(buf))
      BY <2>3 DEF Edit
    <3>3. buf' \in Seq(Cells) /\ FitsStart(buf') /\ Decodes(buf')
      BY <3>1, <3>2, EditedFile
    <3>4. solution' = 0 /\ rounds' = rounds
      BY <2>3 DEF Edit
    <3> QED
      BY <3>1, <3>3, <3>4 DEF FitsInv, WcsIsOurs
  <2>4. CASE UNCHANGED fitsVars
    <3>1. buf' = buf /\ solution' = solution /\ rounds' = rounds /\ wcs' = wcs
      BY <2>4 DEF fitsVars
    <3> QED
      BY <2>1, <3>1 DEF FitsInv, WcsIsOurs
  <2> QED
    BY <2>1, <2>2, <2>3, <2>4 DEF FitsNext
<1> QED
  BY <1>1, <1>2, PTL DEF FitsSpec

\* What a reader takes for the WCS of the image in the answer is the solution of
\* this upload and nothing else, whatever the upload's header holds and however
\* often the file was solved and edited before; the .wcs answer says the same
\* (set_cards, write.rs:148; header_only).
THEOREM AnswerWcs == FitsSpec => []WcsIsOurs
<1>1. FitsInv => WcsIsOurs
  BY DEF FitsInv
<1> QED
  BY <1>1, FitsInvHolds, PTL

\* The answer can be read, solved and edited again: every HDU of it is found
\* where its predecessor ends, and the image among them (Fits::parse, hdu.rs:46;
\* set_cards, write.rs:148).
THEOREM AnswerReadable == FitsSpec => []StillReadable
<1>1. FitsInv => StillReadable
  BY DEF FitsInv, StillReadable
<1> QED
  BY <1>1, FitsInvHolds, PTL

\* Solving leaves the pixels, every card that is not of a WCS and every other
\* HDU as they were uploaded, and a file in whole blocks stays one; the file made
\* of another image shows that image (set_cards and image_f32, write.rs).
THEOREM AnswerKeeps == FitsSpec => NothingElseTouched
<1>1. FitsInv /\ [FitsNext]_fitsVars
        => [Solved => OnlyTheWcs(buf, buf')]_fitsVars
  <2>1. SUFFICES ASSUME FitsInv, FitsNext, Solved PROVE OnlyTheWcs(buf, buf')
    OBVIOUS
  <2>2. buf \in Seq(Cells) /\ rounds \in Nat /\ Solve
    <3>1. ~Edit
      BY <2>1 DEF Edit, Solved
    <3> QED
      BY <2>1, <3>1 DEF FitsInv, FitsNext
  <2>3. PICK n \in Nat : n = rounds + 1
    BY <2>2
  <2>4. Decodes(buf) /\ buf' = SolvedFits(buf, n)
    BY <2>2, <2>3 DEF Solve
  <2> QED
    BY <2>2, <2>4, SolvedFile
<1> QED
  BY <1>1, FitsInvHolds, PTL DEF FitsSpec, NothingElseTouched
=============================================================================
