---------------------------- MODULE VerifyProofs ----------------------------
(***************************************************************************)
(* What a solution rests on, for every sky, every image, any scoring and   *)
(* whatever the fits return: as many stars of the sky as it has matches,   *)
(* each within reach of a star of the image that no other match uses.  And *)
(* the true WCS is not lost, however many stars and strays there are.      *)
(***************************************************************************)
EXTENDS Verify, FiniteSetTheorems, SequenceTheorems, TLAPS

-----------------------------------------------------------------------------
(* Numbers and sets.                                                        *)

\* A set of natural numbers below a bound has a greatest one.
LEMMA GreatestNatural ==
  ASSUME NEW S \in SUBSET Nat, S # {}, NEW n \in Nat, \A x \in S : x <= n
  PROVE  Max(S) \in S /\ \A x \in S : x <= Max(S)
<1> DEFINE R == OpToRel(<, Nat)
           T == {n - x : x \in S}
<1>1. T \subseteq Nat
  <2>1. \A x \in S : x \in Nat /\ x <= n
    OBVIOUS
  <2>2. \A x \in Nat : x <= n => n - x \in Nat
    OBVIOUS
  <2> QED
    BY <2>1, <2>2
<1>2. T # {}
  OBVIOUS
<1>3. IsWellFoundedOn(R, Nat)
  BY NatLessThanWellFounded
<1>4. \A x, y \in Nat : <<x, y>> \in R <=> x < y
  BY DEF OpToRel
<1>5. PICK y \in T : \A z \in T : ~(<<z, y>> \in R)
  <2> HIDE DEF R, T
  <2> QED
    BY <1>1, <1>2, <1>3, WFMin
<1> HIDE DEF R
<1>6. \A z \in T : ~(z < y)
  BY <1>1, <1>4, <1>5
<1>7. PICK x \in S : y = n - x
  BY <1>5
<1>8. ASSUME NEW z \in S PROVE x >= z
  <2>1. n - z \in T
    OBVIOUS
  <2>2. ~(n - z < n - x)
    BY <1>6, <1>7, <2>1
  <2>3. x \in Nat /\ z \in Nat
    BY <1>7
  <2> HIDE DEF T
  <2> QED
    BY <2>2, <2>3
<1> QED
  BY <1>8 DEF Max

-----------------------------------------------------------------------------
(* The invariant.                                                           *)

\* Matches pair stars of the sky with stars of the image already looked at,
\* and no star occurs in two of them.
PairsInv ==
  /\ sky \in Seq(Int) /\ field \in Seq(Int)
  /\ next \in Nat /\ next >= 1
  /\ pairs \in Seq(Nat \X Nat)
  /\ \A i \in DOMAIN pairs :
       /\ pairs[i][1] \in DOMAIN sky
       /\ pairs[i][2] \in Considered /\ pairs[i][2] < next
  /\ \A i, j \in DOMAIN pairs :
       i # j => pairs[i][1] # pairs[j][1] /\ pairs[i][2] # pairs[j][2]

\* In a strict verification, and in what came of it, every match is supported
\* by the WCS that is verified.
SupportInv ==
  stage \in {"strict", "again"} \/ result = "solved" =>
    \A i \in DOMAIN pairs : Supports(wcs, pairs[i][2], pairs[i][1])

\* Only accepted matches make a solution.
ResultInv ==
  /\ stage \in {"guess", "loose", "strict", "again", "done"}
  /\ result \in {"nothing", "rejected", "solved"}
  /\ result # "nothing" => stage = "done"
  /\ result = "solved" => Len(pairs) >= MinMatches

IInv == PairsInv /\ SupportInv /\ ResultInv

-----------------------------------------------------------------------------
(* The steps.                                                               *)

LEMMA InitInv == Init => IInv
<1> SUFFICES ASSUME Init PROVE IInv
  OBVIOUS
<1>1. sky \in Seq(Int) /\ field \in Seq(Int)
  BY VerifyAssumption DEF Init, VerifyAssumption
<1> QED
  BY <1>1 DEF Init, IInv, PairsInv, SupportInv, ResultInv

\* A star of the image that adds to the odds matches a star of the sky in
\* reach which is still free.
LEMMA GainMatches ==
  ASSUME NEW f, Gain(f) > 0
  PROVE  LET s == CHOOSE s \in Closest(f) : TRUE
         IN /\ s \in InView(wcs, Kind) /\ s \notin Used
            /\ Off(wcs, s, f) < Reach[Kind] * wcs.scale
<1>1. Closest(f) # {}
  <2>1. CASE Closest(f) = {}
    <3>1. Gain(f) = -Miss /\ Miss \in Nat \ {0}
      BY <2>1, VerifyAssumption DEF Gain, VerifyAssumption
    <3> QED
      BY <3>1
  <2> QED
    BY <2>1
<1>2. (CHOOSE s \in Closest(f) : TRUE) \in Closest(f)
  BY <1>1
<1> QED
  BY <1>2 DEF Closest, Within

\* Appending one element.
LEMMA AppendFacts ==
  ASSUME NEW S, NEW s \in Seq(S), NEW e \in S
  PROVE  /\ Append(s, e) \in Seq(S)
         /\ DOMAIN Append(s, e) = DOMAIN s \cup {Len(s) + 1}
         /\ Len(s) + 1 \notin DOMAIN s
         /\ Append(s, e)[Len(s) + 1] = e
         /\ \A i \in DOMAIN s : Append(s, e)[i] = s[i]
<1>1. Len(s) \in Nat /\ DOMAIN s = 1 .. Len(s)
  OBVIOUS
<1>2. /\ Append(s, e) \in Seq(S) /\ Len(Append(s, e)) = Len(s) + 1
      /\ DOMAIN Append(s, e) = 1 .. Len(s) + 1
  BY AppendProperties
<1>3. \A i \in 1 .. Len(s) : Append(s, e)[i] = s[i]
  BY AppendProperties
<1>4. Append(s, e)[Len(s) + 1] = e
  BY AppendProperties
<1> QED
  BY <1>1, <1>2, <1>3, <1>4

\* Matching the next star.
LEMMA MatchStep ==
  ASSUME IInv, Match
  PROVE  IInv'
<1> DEFINE s == CHOOSE s \in Closest(next) : TRUE
           e == <<s, next>>
<1>1. /\ stage \in {"loose", "strict", "again"} /\ ~Scored
      /\ pairs' = IF Gain(next) > 0 THEN Append(pairs, e) ELSE pairs
      /\ next' = next + 1
      /\ UNCHANGED <<sky, field, stage, wcs, result, solution>>
  BY DEF Match
<1>2. next \in Considered /\ next \in Nat
  <2>1. next \in Nat /\ next >= 1 /\ ~(next > Lower(Len(field), MaxField)) /\ field \in Seq(Int)
    BY <1>1 DEF Scored, IInv, PairsInv
  <2>2. Lower(Len(field), MaxField) \in Nat
    BY <2>1, VerifyAssumption DEF Lower, VerifyAssumption
  <2> QED
    BY <2>1, <2>2 DEF Considered
<1>3. Considered' = Considered
  BY <1>1 DEF Considered
<1>7. /\ sky \in Seq(Int) /\ field \in Seq(Int) /\ pairs \in Seq(Nat \X Nat)
      /\ \A i \in DOMAIN pairs :
           /\ pairs[i][1] \in DOMAIN sky
           /\ pairs[i][2] \in Considered /\ pairs[i][2] < next
  BY DEF IInv, PairsInv
<1>8. \A i, j \in DOMAIN pairs :
        i # j => pairs[i][1] # pairs[j][1] /\ pairs[i][2] # pairs[j][2]
  BY DEF IInv, PairsInv
<1>4. ResultInv'
  BY <1>1 DEF IInv, ResultInv
<1>5. CASE ~(Gain(next) > 0)
  <2>1. pairs' = pairs
    BY <1>1, <1>5
  <2>2. PairsInv'
    <3>1. \A i \in DOMAIN pairs : pairs[i][2] \in Nat /\ pairs[i][2] < next + 1
      BY <1>2, <1>7 DEF Considered
    <3>2. next + 1 \in Nat /\ next + 1 >= 1
      BY <1>2
    <3>3. /\ sky' = sky /\ field' = field /\ pairs' = pairs /\ next' = next + 1
      BY <1>1, <2>1
    <3> QED
      BY <1>3, <1>7, <1>8, <3>1, <3>2, <3>3 DEF PairsInv
  <2>3. SupportInv'
    BY <1>1, <2>1 DEF IInv, SupportInv, Supports, InView, Off
  <2> QED
    BY <1>4, <2>2, <2>3 DEF IInv
<1>6. CASE Gain(next) > 0
  <2>1. /\ s \in InView(wcs, Kind) /\ s \notin Used
        /\ Off(wcs, s, next) < Reach[Kind] * wcs.scale
    BY <1>6, GainMatches
  <2>2. s \in DOMAIN sky /\ s \in Nat
    BY <2>1 DEF InView, IInv, PairsInv
  <2>3. pairs' = Append(pairs, e) /\ e \in Nat \X Nat /\ pairs \in Seq(Nat \X Nat)
    <3>1. pairs' = Append(pairs, e)
      BY <1>1, <1>6
    <3> HIDE DEF s
    <3>2. e \in Nat \X Nat
      BY <1>2, <2>2
    <3> QED
      BY <1>7, <3>1, <3>2
  <2> HIDE DEF s
  <2>4. /\ pairs' \in Seq(Nat \X Nat)
        /\ DOMAIN pairs' = DOMAIN pairs \cup {Len(pairs) + 1}
        /\ Len(pairs) + 1 \notin DOMAIN pairs
        /\ pairs'[Len(pairs) + 1] = <<s, next>>
        /\ \A i \in DOMAIN pairs : pairs'[i] = pairs[i]
    BY <2>3, AppendFacts
  <2>5. \A i \in DOMAIN pairs : pairs[i][1] # s /\ pairs[i][2] # next
    <3>1. \A i \in DOMAIN pairs : pairs[i][1] # s
      BY <2>1 DEF Used
    <3>2. \A i \in DOMAIN pairs : pairs[i][2] \in Nat /\ pairs[i][2] < next
      BY DEF IInv, PairsInv
    <3> QED
      BY <1>2, <3>1, <3>2
  <2>6. PairsInv'
    <3>1. ASSUME NEW i \in DOMAIN pairs'
          PROVE  /\ pairs'[i][1] \in DOMAIN sky
                 /\ pairs'[i][2] \in Considered /\ pairs'[i][2] < next + 1
      <4>1. CASE i = Len(pairs) + 1
        BY <1>2, <2>2, <2>4, <4>1
      <4>2. CASE i \in DOMAIN pairs
        <5>1. /\ pairs[i][1] \in DOMAIN sky /\ pairs[i][2] \in Considered
              /\ pairs[i][2] < next /\ pairs[i][2] \in Nat
          BY <1>7, <4>2 DEF Considered
        <5> QED
          BY <1>2, <2>4, <4>2, <5>1
      <4> QED
        BY <2>4, <4>1, <4>2
    <3>2. ASSUME NEW i \in DOMAIN pairs', NEW j \in DOMAIN pairs', i # j
          PROVE  pairs'[i][1] # pairs'[j][1] /\ pairs'[i][2] # pairs'[j][2]
      <4>1. CASE i \in DOMAIN pairs /\ j \in DOMAIN pairs
        <5>1. pairs[i][1] # pairs[j][1] /\ pairs[i][2] # pairs[j][2]
          BY <1>8, <3>2, <4>1
        <5> QED
          BY <2>4, <4>1, <5>1
      <4>2. CASE i = Len(pairs) + 1 /\ j \in DOMAIN pairs
        BY <2>4, <2>5, <4>2
      <4>3. CASE j = Len(pairs) + 1 /\ i \in DOMAIN pairs
        BY <2>4, <2>5, <4>3
      <4> QED
        BY <2>4, <3>2, <4>1, <4>2, <4>3
    <3>3. next' \in Nat /\ next' >= 1
      BY <1>1, <1>2
    <3>4. sky' \in Seq(Int) /\ field' \in Seq(Int)
      BY <1>1, <1>7
    <3>5. \A i \in DOMAIN pairs' :
            /\ pairs'[i][1] \in DOMAIN (sky')
            /\ pairs'[i][2] \in Considered' /\ pairs'[i][2] < next'
      BY <1>1, <1>3, <3>1
    <3> QED
      BY <2>4, <3>2, <3>3, <3>4, <3>5 DEF PairsInv
  <2>7. SupportInv'
    <3>1. \A w, f, t : Supports(w, f, t)' <=> Supports(w, f, t)
      BY <1>1 DEF Supports, InView, Off
    <3>2. result # "solved"
      BY <1>1 DEF IInv, ResultInv
    <3>3. SUFFICES ASSUME stage \in {"strict", "again"}, NEW i \in DOMAIN pairs'
                   PROVE  Supports(wcs, pairs'[i][2], pairs'[i][1])
      BY <1>1, <3>1, <3>2 DEF SupportInv
    <3>4. CASE i = Len(pairs) + 1
      <4>1. Kind = "strict"
        BY <3>3 DEF Kind
      <4> QED
        BY <2>1, <2>4, <3>4, <4>1 DEF Supports
    <3>5. CASE i \in DOMAIN pairs
      BY <2>4, <3>3, <3>5 DEF IInv, SupportInv
    <3> QED
      BY <2>4, <3>4, <3>5
  <2> QED
    BY <1>4, <2>6, <2>7 DEF IInv
<1> QED
  BY <1>5, <1>6

\* A verification starts without matches.
LEMMA VerificationStep ==
  ASSUME IInv, NEW kind \in {"loose", "strict", "again"}, NEW w, Verification(kind, w),
         stage # "done"
  PROVE  IInv'
<1>1. /\ stage' = kind /\ next' = 1 /\ pairs' = <<>>
      /\ UNCHANGED <<sky, field, result>>
  BY DEF Verification
<1>2. PairsInv'
  BY <1>1 DEF IInv, PairsInv
<1>3. SupportInv' /\ ResultInv'
  BY <1>1 DEF IInv, SupportInv, ResultInv
<1> QED
  BY <1>2, <1>3 DEF IInv

LEMMA StepInv == IInv /\ [Next]_vars => IInv'
<1> SUFFICES ASSUME IInv, [Next]_vars PROVE IInv'
  OBVIOUS
<1>1. CASE ResolveHit \/ TryWarm \/ Refit
  <2>1. /\ stage # "done"
        /\ \E kind \in {"loose", "strict", "again"} : \E w : Verification(kind, w)
    BY <1>1 DEF ResolveHit, TryWarm, Refit
  <2> QED
    BY <2>1, VerificationStep
<1>2. CASE Match
  BY <1>2, MatchStep
<1>3. CASE Solve
  <2>1. /\ stage = "again" /\ Accepted /\ stage' = "done" /\ result' = "solved"
        /\ UNCHANGED <<sky, field, wcs, next, pairs>>
    BY <1>3 DEF Solve
  <2>2. PairsInv'
    BY <2>1 DEF IInv, PairsInv, Considered
  <2>3. SupportInv'
    BY <2>1 DEF IInv, SupportInv, Supports, InView, Off
  <2>4. ResultInv'
    BY <2>1 DEF IInv, ResultInv, Accepted
  <2> QED
    BY <2>2, <2>3, <2>4 DEF IInv
<1>4. CASE Fail
  <2>1. stage' = "done" /\ result' = "rejected" /\ UNCHANGED <<sky, field, next, pairs>>
    BY <1>4 DEF Fail, Reject
  <2>2. PairsInv'
    BY <2>1 DEF IInv, PairsInv, Considered
  <2>3. SupportInv' /\ ResultInv'
    BY <2>1 DEF IInv, SupportInv, ResultInv
  <2> QED
    BY <2>2, <2>3 DEF IInv
<1>5. CASE UNCHANGED vars
  <2>1. PairsInv' /\ ResultInv'
    BY <1>5 DEF vars, IInv, PairsInv, ResultInv, Considered
  <2>2. SupportInv'
    BY <1>5 DEF vars, IInv, SupportInv, Supports, InView, Off
  <2> QED
    BY <2>1, <2>2 DEF IInv
<1> QED
  BY <1>1, <1>2, <1>3, <1>4, <1>5 DEF Next

-----------------------------------------------------------------------------
(* From the matches to what the WCS supports.                               *)

\* The stars that are matched, each with the star it is matched with, are a
\* choice that Supported counts.
LEMMA MatchesAreSupport ==
  ASSUME IInv, result = "solved"
  PROVE  Len(pairs) <= Supported(wcs)
<1> DEFINE F == {pairs[i][2] : i \in DOMAIN pairs}
           Of(f) == CHOOSE i \in DOMAIN pairs : pairs[i][2] = f
           Candidates == {G \in SUBSET Considered :
                         \E m \in [G -> DOMAIN sky] :
                           /\ \A f \in G : Supports(wcs, f, m[f])
                           /\ \A f, g \in G : f # g => m[f] # m[g]}
           Sizes == {Cardinality(G) : G \in Candidates}
<1>1. /\ Len(pairs) \in Nat /\ DOMAIN pairs = 1 .. Len(pairs)
      /\ Lower(Len(field), MaxField) \in Nat
  BY VerifyAssumption DEF IInv, PairsInv, Lower, VerifyAssumption
<1>2. F \subseteq Considered
  BY DEF IInv, PairsInv
<1>3. IsFiniteSet(Considered) /\ Cardinality(Considered) \in Nat
  BY <1>1, FS_Interval, FS_CardinalityType DEF Considered
<1>4. F \in Candidates
  <2>1. \A f \in F : Of(f) \in DOMAIN pairs /\ pairs[Of(f)][2] = f
    OBVIOUS
  <2> DEFINE m == [f \in F |-> pairs[Of(f)][1]]
  <2>2. m \in [F -> DOMAIN sky]
    BY <2>1 DEF IInv, PairsInv
  <2>3. \A f \in F : Supports(wcs, f, m[f])
    BY <2>1 DEF IInv, SupportInv
  <2>4. ASSUME NEW f \in F, NEW g \in F, f # g PROVE m[f] # m[g]
    <3>1. Of(f) # Of(g)
      BY <2>1, <2>4
    <3> QED
      BY <2>1, <3>1 DEF IInv, PairsInv
  <2> HIDE DEF m, F
  <2> QED
    BY <1>2, <2>2, <2>3, <2>4
<1>5. Len(pairs) <= Cardinality(F)
  <2> DEFINE h == [i \in 1 .. Len(pairs) |-> pairs[i][2]]
  <2>1. h \in [1 .. Len(pairs) -> F]
    BY <1>1
  <2>2. \A i, j \in 1 .. Len(pairs) : h[i] = h[j] => i = j
    BY <1>1 DEF IInv, PairsInv
  <2>3. h \in Injection(1 .. Len(pairs), F)
    BY <2>1, <2>2 DEF Injection, IsInjective
  <2>4. IsFiniteSet(F)
    BY <1>2, <1>3, FS_Subset
  <2>5. Cardinality(1 .. Len(pairs)) = Len(pairs)
    <3>1. PICK n \in Nat : n = Len(pairs)
      BY <1>1
    <3>2. Cardinality(1 .. n) = IF 1 > n THEN 0 ELSE n - 1 + 1
      BY FS_Interval
    <3> QED
      BY <3>1, <3>2
  <2> HIDE DEF h, F
  <2> QED
    BY <2>3, <2>4, <2>5, FS_Injection
<1>6. \A G \in Candidates : Cardinality(G) \in Nat /\ Cardinality(G) <= Cardinality(Considered)
  BY <1>3, FS_Subset, FS_CardinalityType
<1> HIDE DEF F, Candidates
<1>7. /\ Sizes \in SUBSET Nat /\ Cardinality(F) \in Sizes
      /\ \A x \in Sizes : x <= Cardinality(Considered)
  BY <1>4, <1>6
<1>8. Max(Sizes) \in Nat /\ Cardinality(F) <= Max(Sizes)
  <2> HIDE DEF Sizes
  <2>1. Max(Sizes) \in Sizes /\ \A x \in Sizes : x <= Max(Sizes)
    BY <1>3, <1>7, GreatestNatural
  <2> QED
    BY <1>7, <2>1
<1>9. Supported(wcs) = Max(Sizes)
  BY DEF Supported, Sizes, Candidates
<1> HIDE DEF Sizes
<1> QED
  BY <1>1, <1>4, <1>5, <1>6, <1>8, <1>9

-----------------------------------------------------------------------------
\* The inductive invariant of a verification.
THEOREM Invariance == Spec => []IInv
  BY InitInv, StepInv, PTL DEF Spec

\* A solution is never credited with more stars than its WCS puts on different
\* stars of the sky, in any image and for any index (verify.rs, verify_wcs).
THEOREM SupportIsReal == Spec => []SolutionIsSupported
<1>1. IInv => SolutionIsSupported
  <2> SUFFICES ASSUME IInv, result = "solved"
               PROVE  /\ Len(pairs) >= MinMatches
                      /\ Len(pairs) <= Supported(wcs)
                      /\ \A i, j \in DOMAIN pairs : i # j => pairs[i][1] # pairs[j][1]
    BY DEF SolutionIsSupported
  <2>1. Len(pairs) <= Supported(wcs)
    BY MatchesAreSupport
  <2> QED
    BY <2>1 DEF IInv, ResultInv, PairsInv
<1> QED
  BY <1>1, Invariance, PTL

-----------------------------------------------------------------------------
(* Verifying the true WCS.                                                  *)

\* What a match adds that is exactly in its place.
Worth(w, kind) == Lower(Cap, Odds(kind, 0, Cardinality(InView(w, kind))))

HitsSoFar == {f \in Hits(wcs) : f < next}
StraysSoFar == {f \in Considered \ Hits(wcs) : f < next}

\* Every star that is on a star of the index has been matched with it, and
\* nothing else has.
Matched ==
  /\ next <= Lower(Len(field), MaxField) + 1
  /\ \A i \in DOMAIN pairs :
       pairs[i][2] \in Hits(wcs) /\ Off(wcs, pairs[i][1], pairs[i][2]) = 0
  /\ Len(pairs) = Cardinality(HitsSoFar)
  /\ logodds = Len(pairs) * Worth(wcs, Kind) - Cardinality(StraysSoFar) * Miss

\* A verification that is done has given back the WCS it ended with, if true.
Delivered ==
  stage = "done" /\ IsTrue(wcs) => result = "solved" /\ solution = <<wcs>>

\* The true WCS is matched with all that is on it, and delivered in the end.
KeepInv ==
  /\ sky \in Skies /\ field \in Fields /\ wcs \in Wcs
  /\ stage \in {"loose", "strict", "again"} /\ IsTrue(wcs) => Matched
  /\ Delivered

\* What the stars and the WCS are made of.
LEMMA Places ==
  ASSUME sky \in Skies, field \in Fields
  PROVE  /\ \A s \in DOMAIN sky : sky[s] \in Int
         /\ DOMAIN sky = 1 .. Len(sky) /\ Len(sky) \in Nat
         /\ \A w \in Wcs : w.shift \in Int /\ w.scale \in Nat /\ w.scale >= 1
         /\ Lower(Len(field), MaxField) \in Nat
         /\ \A f \in Considered : f \in Nat /\ field[f] \in Nat /\ field[f] < Width
         /\ Width \in Nat
<1>1. sky \in Seq(Int) /\ field \in Seq(0 .. Width - 1) /\ Width \in Nat /\ MaxField \in Nat
  BY VerifyAssumption DEF VerifyAssumption
<1>2. \A w \in Wcs : w.shift \in Int /\ w.scale \in Nat /\ w.scale >= 1
  BY VerifyAssumption DEF VerifyAssumption
<1>3. DOMAIN sky = 1 .. Len(sky) /\ Len(sky) \in Nat /\ \A s \in 1 .. Len(sky) : sky[s] \in Int
  BY <1>1, LenProperties
<1>4. Len(field) \in Nat /\ \A f \in 1 .. Len(field) : field[f] \in 0 .. Width - 1
  BY <1>1, LenProperties
<1>5. Lower(Len(field), MaxField) \in Nat /\ Lower(Len(field), MaxField) <= Len(field)
  BY <1>1, <1>4 DEF Lower
<1>6. \A f \in Considered : f \in Nat /\ f \in 1 .. Len(field)
  BY <1>4, <1>5 DEF Considered
<1> QED
  BY <1>1, <1>2, <1>3, <1>4, <1>5, <1>6

\* No distance but between different places.
LEMMA OffFacts ==
  ASSUME sky \in Skies, field \in Fields,
         NEW w \in Wcs, NEW s \in DOMAIN sky, NEW f \in Considered
  PROVE  /\ Off(w, s, f) \in Nat
         /\ w.scale * field[f] \in Int /\ w.shift + w.scale * field[f] \in Int
         /\ Off(w, s, f) = 0 <=> sky[s] = w.shift + w.scale * field[f]
<1>1. sky[s] \in Int /\ w.shift \in Int /\ w.scale \in Nat /\ field[f] \in Nat
  BY Places
<1>2. w.scale * field[f] \in Int /\ w.shift + w.scale * field[f] \in Int
  BY <1>1
<1>3. PICK a \in Int, b \in Int : a = sky[s] /\ b = w.shift + w.scale * field[f]
  BY <1>1, <1>2
<1>4. Off(w, s, f) = Distance(a, b)
  BY <1>3 DEF Off
<1>5. Distance(a, b) \in Nat /\ (Distance(a, b) = 0 <=> a = b)
  BY DEF Distance
<1> QED
  BY <1>2, <1>3, <1>4, <1>5

\* A star of the index that is exactly on a star of the image is in view.
LEMMA HitInView ==
  ASSUME sky \in Skies, field \in Fields,
         NEW w \in Wcs, NEW s \in DOMAIN sky, NEW f \in Considered, NEW kind \in Kinds,
         Off(w, s, f) = 0
  PROVE  s \in InView(w, kind)
<1>1. PICK shift \in Int, scale \in Nat, p \in Nat, width \in Nat, margin \in Nat :
        /\ shift = w.shift /\ scale = w.scale /\ scale >= 1
        /\ p = field[f] /\ width = Width /\ p < width /\ margin = Margin[kind]
  <2>1. Margin[kind] \in Nat
    BY VerifyAssumption DEF VerifyAssumption
  <2> QED
    BY <2>1, Places
<1>2. sky[s] = shift + scale * p
  BY <1>1, OffFacts
<1>3. scale * p >= 0 /\ scale * margin >= 0 /\ scale * p \in Int /\ scale * margin \in Int
  OBVIOUS
<1>4. scale * (width + margin) \in Int /\ scale * p < scale * (width + margin)
  <2>1. PICK d \in Nat : width + margin = p + d /\ d >= 1
    <3>1. (width + margin) - p \in Nat /\ (width + margin) - p >= 1
          /\ width + margin = p + ((width + margin) - p)
      BY <1>1
    <3> QED
      BY <3>1
  <2>2. scale * (p + d) = scale * p + scale * d
    OBVIOUS
  <2>3. scale * d >= 1 /\ scale * d \in Nat
    BY <1>1, <2>1
  <2> QED
    BY <1>3, <2>1, <2>2, <2>3
<1>5. shift + scale * p >= shift - scale * margin /\ shift + scale * p < shift + scale * (width + margin)
  BY <1>3, <1>4
<1> QED
  BY <1>1, <1>2, <1>5 DEF InView

\* Two places in the sky, or two pixels, that are on one another are the same.
LEMMA OnlyHit ==
  ASSUME sky \in Skies, field \in Fields, NEW w \in Wcs, Clear(w)
  PROVE  /\ \A s, t \in DOMAIN sky, f \in Considered :
              Off(w, s, f) = 0 /\ Off(w, t, f) = 0 => s = t
         /\ \A s \in DOMAIN sky, f, g \in Considered :
              Off(w, s, f) = 0 /\ Off(w, s, g) = 0 => f = g
<1>1. \A s, t \in DOMAIN sky, f \in Considered :
        Off(w, s, f) = 0 /\ Off(w, t, f) = 0 => s = t
  BY OffFacts DEF Clear
<1>2. ASSUME NEW s \in DOMAIN sky, NEW f \in Considered, NEW g \in Considered,
             Off(w, s, f) = 0, Off(w, s, g) = 0
      PROVE  f = g
  <2>1. w.shift + w.scale * field[f] = w.shift + w.scale * field[g]
    BY <1>2, OffFacts
  <2>2. PICK shift \in Int, k \in Nat, p \in Nat, q \in Nat :
          shift = w.shift /\ k = w.scale /\ k >= 1 /\ p = field[f] /\ q = field[g]
    BY Places
  <2>3. shift + k * p = shift + k * q
    BY <2>1, <2>2
  <2>4. k * p = k * q
    BY <2>3
  <2>5. p = q
    BY <2>2, <2>4
  <2> QED
    BY <2>2, <2>5 DEF Clear
<1> QED
  BY <1>1, <1>2

\* A star of the image where one of the index is matches that one.
LEMMA GainOfHit ==
  ASSUME IInv, KeepInv, stage \in {"loose", "strict", "again"}, IsTrue(wcs),
         next \in Hits(wcs)
  PROVE  /\ Gain(next) = Worth(wcs, Kind)
         /\ \E s \in DOMAIN sky : Closest(next) = {s} /\ Off(wcs, s, next) = 0
<1>1. sky \in Skies /\ field \in Fields /\ wcs \in Wcs /\ Kind \in Kinds
  BY DEF KeepInv, Kind, Kinds
<1>2. Clear(wcs) /\ Matched
  BY DEF KeepInv, IsTrue
<1>3. PICK s \in DOMAIN sky : Off(wcs, s, next) = 0
  BY DEF Hits, OnStar, InView
<1>4. next \in Considered
  BY DEF Hits
<1>5. s \in InView(wcs, Kind)
  BY <1>1, <1>3, <1>4, HitInView
<1>6. s \notin Used
  <2> SUFFICES ASSUME NEW i \in DOMAIN pairs, pairs[i][1] = s PROVE FALSE
    BY DEF Used
  <2>1. Off(wcs, s, pairs[i][2]) = 0
    BY <1>2 DEF Matched
  <2>2. pairs[i][2] \in Considered /\ pairs[i][2] < next
    BY DEF IInv, PairsInv
  <2>3. pairs[i][2] = next
    BY <1>1, <1>2, <1>3, <1>4, <2>1, <2>2, OnlyHit
  <2>4. next \in Nat
    BY DEF IInv, PairsInv
  <2> QED
    BY <2>2, <2>3, <2>4
<1>7. \A t \in InView(wcs, Kind) : t \in DOMAIN sky /\ Off(wcs, t, next) \in Nat
  BY <1>1, <1>4, OffFacts DEF InView
<1>8. ASSUME NEW t \in InView(wcs, Kind), t # s PROVE Off(wcs, t, next) > 0
  <2>1. t \in DOMAIN sky /\ Off(wcs, t, next) # 0
    BY <1>1, <1>2, <1>3, <1>4, <1>7, <1>8, OnlyHit
  <2> QED
    BY <1>7, <2>1
<1>9. Within(next, s)
  <2>1. PICK r \in Nat, k \in Nat : r = Reach[Kind] /\ k = wcs.scale /\ r >= 1 /\ k >= 1
    <3>1. Reach[Kind] \in Nat /\ Reach[Kind] >= 1
      BY <1>1, VerifyAssumption DEF VerifyAssumption
    <3> QED
      BY <1>1, <3>1, Places
  <2>2. 0 < r * k
    BY <2>1
  <2> QED
    BY <1>3, <2>1, <2>2 DEF Within
<1>10. s \in Closest(next)
  <2>1. s <= s
    BY <1>1, Places
  <2>2. \A t \in InView(wcs, Kind) \ Used :
          Off(wcs, s, next) < Off(wcs, t, next) \/ (Off(wcs, s, next) = Off(wcs, t, next) /\ s <= t)
    BY <1>3, <1>8, <2>1
  <2> QED
    BY <1>5, <1>6, <1>9, <2>2 DEF Closest
<1>11. ASSUME NEW t \in Closest(next) PROVE t = s
  <2>1. /\ t \in InView(wcs, Kind)
        /\ \/ Off(wcs, t, next) < Off(wcs, s, next)
           \/ Off(wcs, t, next) = Off(wcs, s, next)
    BY <1>5, <1>6 DEF Closest
  <2>2. Off(wcs, t, next) = 0
    BY <1>3, <1>7, <2>1
  <2> QED
    BY <1>1, <1>2, <1>3, <1>4, <1>7, <2>1, <2>2, OnlyHit
<1>12. Closest(next) = {s}
  BY <1>10, <1>11
<1>13. (CHOOSE t \in Closest(next) : TRUE) = s
  BY <1>12
<1>14. 0 \div wcs.scale = 0
  <2>1. PICK k \in Nat : k = wcs.scale /\ k >= 1
    BY <1>1, Places
  <2>2. 0 \div k = 0
    BY <2>1
  <2> QED
    BY <2>1, <2>2
<1>15. Gain(next) = Worth(wcs, Kind)
  BY <1>3, <1>12, <1>13, <1>14 DEF Gain, Worth
<1> QED
  BY <1>3, <1>12, <1>15

\* A stray matches nothing.
LEMMA GainOfStray ==
  ASSUME KeepInv, IsTrue(wcs), next \in Considered, next \notin Hits(wcs)
  PROVE  Gain(next) = -Miss
<1>1. sky \in Skies /\ field \in Fields /\ wcs \in Wcs /\ Kind \in Kinds
  BY DEF KeepInv, Kind, Kinds
<1>2. Stray(wcs, next)
  BY DEF IsTrue, Clear, Hits
<1>3. ASSUME NEW t \in Closest(next) PROVE FALSE
  <2>1. t \in DOMAIN sky /\ Off(wcs, t, next) < Reach[Kind] * wcs.scale
    BY DEF Closest, InView, Within
  <2>2. Off(wcs, t, next) >= Reach[Kind] * wcs.scale
    BY <1>1, <1>2, <2>1 DEF Stray
  <2>3. Off(wcs, t, next) \in Int
    BY <1>1, <2>1, OffFacts
  <2>4. Reach[Kind] * wcs.scale \in Int
    <3>1. Reach[Kind] \in Int /\ wcs.scale \in Int
      BY <1>1, Places, VerifyAssumption DEF VerifyAssumption
    <3> QED
      BY <3>1
  <2> QED
    BY <2>1, <2>2, <2>3, <2>4
<1> QED
  BY <1>3 DEF Gain

\* There is something in view of the true WCS, and a match in its place pays.
LEMMA WorthPositive ==
  ASSUME sky \in Skies, field \in Fields, NEW w \in Wcs, IsTrue(w), NEW kind \in Kinds
  PROVE  InView(w, kind) # {} /\ Worth(w, kind) \in Nat /\ Worth(w, kind) > 0
<1>1. Hits(w) # {}
  <2>1. Cardinality(Hits(w)) >= MinPairs /\ MinPairs \in Nat /\ MinPairs >= 2
    BY VerifyAssumption DEF IsTrue, VerifyAssumption
  <2>2. Cardinality({}) = 0
    BY FS_EmptySet
  <2> QED
    BY <2>1, <2>2
<1>2. PICK f \in Considered : f \in Hits(w)
  BY <1>1 DEF Hits
<1>3. PICK s \in DOMAIN sky : Off(w, s, f) = 0
  BY <1>2 DEF Hits, OnStar, InView
<1>4. s \in InView(w, kind)
  BY <1>2, <1>3, HitInView
<1>5. DOMAIN sky = 1 .. Len(sky) /\ Len(sky) \in Nat
  BY Places
<1>6. IsFiniteSet(DOMAIN sky) /\ Cardinality(DOMAIN sky) = Len(sky)
  <2>1. PICK n \in Nat : n = Len(sky)
    BY <1>5
  <2>2. IsFiniteSet(1 .. n) /\ Cardinality(1 .. n) = IF 1 > n THEN 0 ELSE n - 1 + 1
    BY FS_Interval
  <2> QED
    BY <1>5, <2>1, <2>2
<1>7. PICK n \in 1 .. Len(sky) : n = Cardinality(InView(w, kind))
  <2>1. InView(w, kind) \subseteq DOMAIN sky
    BY DEF InView
  <2>2. /\ IsFiniteSet(InView(w, kind))
        /\ Cardinality(InView(w, kind)) <= Cardinality(DOMAIN sky)
    BY <1>6, <2>1, FS_Subset
  <2>3. Cardinality(InView(w, kind)) \in Nat /\ Cardinality(InView(w, kind)) # 0
    BY <1>4, <2>2, FS_CardinalityType, FS_EmptySet
  <2>4. Cardinality(InView(w, kind)) \in 1 .. Len(sky)
    BY <1>5, <1>6, <2>2, <2>3
  <2> QED
    BY <2>4
<1>8. Odds(kind, 0, n) \in Int
  <2>1. 0 \in 0 .. Reach[kind] - 1
    BY VerifyAssumption DEF VerifyAssumption
  <2> QED
    BY <1>7, <2>1, VerifyAssumption DEF VerifyAssumption
<1>9. Odds(kind, 0, n) > 0
  BY <1>7 DEF IsTrue, Clear, Sparse
<1>10. Cap \in Nat \ {0}
  BY VerifyAssumption DEF VerifyAssumption
<1> QED
  BY <1>4, <1>7, <1>8, <1>9, <1>10 DEF Worth, Lower

\* The stars of the image that are considered are finitely many.
LEMMA FiniteHits ==
  ASSUME sky \in Skies, field \in Fields
  PROVE  /\ IsFiniteSet(Hits(wcs)) /\ IsFiniteSet(Considered \ Hits(wcs))
         /\ IsFiniteSet(HitsSoFar) /\ IsFiniteSet(StraysSoFar)
         /\ Cardinality(HitsSoFar) \in Nat /\ Cardinality(StraysSoFar) \in Nat
         /\ Cardinality(Considered \ Hits(wcs)) \in Nat
         /\ Cardinality(StraysSoFar) <= Cardinality(Considered \ Hits(wcs))
<1>1. IsFiniteSet(Considered)
  BY Places, FS_Interval DEF Considered
<1>2. IsFiniteSet(Hits(wcs)) /\ IsFiniteSet(Considered \ Hits(wcs))
  BY <1>1, FS_Subset DEF Hits
<1>3. HitsSoFar \subseteq Hits(wcs) /\ StraysSoFar \subseteq Considered \ Hits(wcs)
  BY DEF HitsSoFar, StraysSoFar
<1>4. /\ IsFiniteSet(HitsSoFar) /\ IsFiniteSet(StraysSoFar)
      /\ Cardinality(StraysSoFar) <= Cardinality(Considered \ Hits(wcs))
  BY <1>2, <1>3, FS_Subset
<1> QED
  BY <1>2, <1>4, FS_CardinalityType

\* Nothing of what is said of a WCS depends on how far its verification is.
LEMMA SameImage ==
  ASSUME UNCHANGED <<sky, field, wcs>>
  PROVE  /\ IsTrue(wcs)' = IsTrue(wcs) /\ Hits(wcs)' = Hits(wcs) /\ Considered' = Considered
         /\ \A s, f : Off(wcs, s, f)' = Off(wcs, s, f)
         /\ \A kind : InView(wcs, kind)' = InView(wcs, kind) /\ Worth(wcs, kind)' = Worth(wcs, kind)
<1>1. Considered' = Considered
  BY DEF Considered
<1>2. \A s, f : Off(wcs, s, f)' = Off(wcs, s, f)
  BY DEF Off
<1>3. \A kind : InView(wcs, kind)' = InView(wcs, kind)
  BY DEF InView
<1>4. \A f : OnStar(wcs, f)' = OnStar(wcs, f) /\ Stray(wcs, f)' = Stray(wcs, f)
  BY <1>2, <1>3 DEF OnStar, Stray
<1>5. Hits(wcs)' = Hits(wcs)
  BY <1>1, <1>4 DEF Hits
<1>6. Sparse(wcs)' = Sparse(wcs) /\ Score(wcs)' = Score(wcs)
  BY <1>1, <1>3, <1>5 DEF Sparse, Score
<1>7. \A kind : Worth(wcs, kind)' = Worth(wcs, kind)
  BY <1>3 DEF Worth
<1>8. Clear(wcs)' = Clear(wcs)
  BY <1>1, <1>4, <1>6 DEF Clear
<1>9. IsTrue(wcs)' = IsTrue(wcs)
  BY <1>1, <1>5, <1>6, <1>8 DEF IsTrue
<1> QED
  BY <1>1, <1>2, <1>3, <1>5, <1>7, <1>9

\* Matching one more star keeps the account.
LEMMA MatchKeeps ==
  ASSUME IInv, KeepInv, Match
  PROVE  KeepInv'
<1>1. /\ stage \in {"loose", "strict", "again"} /\ ~Scored
      /\ logodds' = logodds + Gain(next)
      /\ pairs' = IF Gain(next) > 0
                  THEN Append(pairs, <<CHOOSE s \in Closest(next) : TRUE, next>>) ELSE pairs
      /\ next' = next + 1
      /\ UNCHANGED <<sky, field, stage, wcs>>
  BY DEF Match
<1>2. sky \in Skies /\ field \in Fields /\ wcs \in Wcs /\ Kind \in Kinds /\ Kind' = Kind
  BY <1>1 DEF KeepInv, Kind, Kinds
<1>3. Delivered'
  BY <1>1 DEF Delivered
<1>4. ASSUME IsTrue(wcs) PROVE Matched'
  <2>1. Matched
    BY <1>1, <1>4 DEF KeepInv
  <2>2. next \in Considered /\ next \in Nat /\ next + 1 <= Lower(Len(field), MaxField) + 1
    <3>1. next \in Nat /\ next >= 1 /\ ~(next > Lower(Len(field), MaxField))
      BY <1>1 DEF Scored, IInv, PairsInv
    <3>2. Lower(Len(field), MaxField) \in Nat
      BY <1>2, Places
    <3> QED
      BY <3>1, <3>2 DEF Considered
  <2>3. /\ Hits(wcs)' = Hits(wcs) /\ Considered' = Considered
        /\ \A s, f : Off(wcs, s, f)' = Off(wcs, s, f)
        /\ Worth(wcs, Kind)' = Worth(wcs, Kind)
    BY <1>1, <1>2, SameImage
  <2>4. PICK g \in Nat, m \in Nat, h \in Nat, miss \in Nat :
          /\ g = Worth(wcs, Kind) /\ g > 0 /\ miss = Miss
          /\ h = Cardinality(HitsSoFar) /\ m = Cardinality(StraysSoFar)
    <3>1. Miss \in Nat
      BY VerifyAssumption DEF VerifyAssumption
    <3> QED
      BY <1>2, <1>4, <3>1, WorthPositive, FiniteHits
  <2>5. /\ Len(pairs) = h /\ logodds = h * g - m * miss
        /\ pairs \in Seq(Nat \X Nat)
    BY <2>1, <2>4 DEF Matched, IInv, PairsInv
  <2>6. \A f \in Considered : f < next + 1 <=> (f < next \/ f = next)
    BY <1>2, <2>2, Places
  <2>9. /\ HitsSoFar' = {f \in Hits(wcs) : f < next + 1}
        /\ StraysSoFar' = {f \in Considered \ Hits(wcs) : f < next + 1}
        /\ Hits(wcs) \subseteq Considered /\ ~(next < next)
    BY <1>1, <2>2, <2>3 DEF HitsSoFar, StraysSoFar, Hits
  <2>7. CASE next \in Hits(wcs)
    <3>1. PICK s \in DOMAIN sky : Closest(next) = {s} /\ Off(wcs, s, next) = 0
      BY <1>1, <1>4, <2>7, GainOfHit
    <3>2. Gain(next) = g
      BY <1>1, <1>4, <2>4, <2>7, GainOfHit
    <3>3. pairs' = Append(pairs, <<s, next>>) /\ logodds' = logodds + g
      BY <1>1, <2>4, <3>1, <3>2
    <3>4. s \in Nat
      BY <1>2, Places
    <3>5. /\ Len(pairs') = h + 1 /\ DOMAIN pairs' = DOMAIN pairs \cup {h + 1}
          /\ pairs'[h + 1] = <<s, next>>
          /\ \A i \in DOMAIN pairs : pairs'[i] = pairs[i]
      <4>1. <<s, next>> \in Nat \X Nat
        BY <2>2, <3>4
      <4> QED
        BY <2>5, <3>3, <4>1, AppendFacts, AppendProperties
    <3>6. (\A i \in DOMAIN pairs :
             pairs[i][2] \in Hits(wcs) /\ Off(wcs, pairs[i][1], pairs[i][2]) = 0)'
      <4>1. \A i \in DOMAIN pairs :
              pairs[i][2] \in Hits(wcs) /\ Off(wcs, pairs[i][1], pairs[i][2]) = 0
        BY <2>1 DEF Matched
      <4>2. ASSUME NEW i \in DOMAIN pairs'
            PROVE  pairs'[i][2] \in Hits(wcs) /\ Off(wcs, pairs'[i][1], pairs'[i][2]) = 0
        BY <2>7, <3>1, <3>5, <4>1
      <4> QED
        BY <1>1, <2>3, <4>2 DEF Off
    <3>7. HitsSoFar' = HitsSoFar \cup {next} /\ next \notin HitsSoFar /\ StraysSoFar' = StraysSoFar
      BY <2>2, <2>6, <2>7, <2>9 DEF HitsSoFar, StraysSoFar
    <3>8. Cardinality(HitsSoFar') = h + 1
      BY <1>2, <2>4, <3>7, FiniteHits, FS_AddElement
    <3>9. logodds' = (h + 1) * g - m * miss
      <4>1. (h + 1) * g = h * g + g /\ h * g \in Int /\ m * miss \in Int /\ (h + 1) * g \in Int
        OBVIOUS
      <4> QED
        BY <2>5, <3>3, <4>1
    <3>10. /\ Cardinality(StraysSoFar)' = m /\ Worth(wcs, Kind)' = g
           /\ next' <= (Lower(Len(field), MaxField) + 1)'
      BY <1>1, <2>2, <2>3, <2>4, <3>7
    <3> QED
      BY <2>4, <3>5, <3>6, <3>8, <3>9, <3>10 DEF Matched
  <2>8. CASE next \notin Hits(wcs)
    <3>1. Gain(next) = -miss /\ ~(Gain(next) > 0)
      BY <1>4, <2>2, <2>4, <2>8, GainOfStray
    <3>2. pairs' = pairs /\ logodds' = logodds - miss
      <4>1. h * g \in Int /\ m * miss \in Int
        OBVIOUS
      <4> QED
        BY <1>1, <2>5, <3>1, <4>1
    <3>3. (\A i \in DOMAIN pairs :
             pairs[i][2] \in Hits(wcs) /\ Off(wcs, pairs[i][1], pairs[i][2]) = 0)'
      <4>1. \A i \in DOMAIN pairs :
              pairs[i][2] \in Hits(wcs) /\ Off(wcs, pairs[i][1], pairs[i][2]) = 0
        BY <2>1 DEF Matched
      <4> QED
        BY <1>1, <2>3, <3>2, <4>1 DEF Off
    <3>4. /\ StraysSoFar' = StraysSoFar \cup {next} /\ next \notin StraysSoFar
          /\ HitsSoFar' = HitsSoFar
      BY <2>2, <2>6, <2>8, <2>9 DEF HitsSoFar, StraysSoFar
    <3>5. Cardinality(StraysSoFar') = m + 1
      BY <1>2, <2>4, <3>4, FiniteHits, FS_AddElement
    <3>6. logodds' = h * g - (m + 1) * miss
      <4>1. (m + 1) * miss = m * miss + miss /\ h * g \in Int /\ m * miss \in Int
        OBVIOUS
      <4> QED
        BY <2>5, <3>2, <4>1
    <3>7. /\ Cardinality(HitsSoFar)' = h /\ Worth(wcs, Kind)' = g
          /\ next' <= (Lower(Len(field), MaxField) + 1)' /\ Len(pairs') = h
      BY <1>1, <2>2, <2>3, <2>4, <2>5, <3>2, <3>4
    <3> QED
      BY <2>4, <3>3, <3>5, <3>6, <3>7 DEF Matched
  <2> QED
    BY <2>7, <2>8
<1>5. IsTrue(wcs)' = IsTrue(wcs)
  BY <1>1, SameImage
<1> QED
  BY <1>1, <1>2, <1>3, <1>4, <1>5 DEF KeepInv

\* There is one line through two points.
LEMMA OneLine ==
  ASSUME NEW a \in Int, NEW b \in Int, NEW c \in Int, NEW d \in Int,
         NEW p \in Int, NEW q \in Int, p # q,
         a + b * p = c + d * p, a + b * q = c + d * q
  PROVE  a = c /\ b = d
<1>1. (b - d) * (p - q) = 0
  <2>1. (b - d) * (p - q) = (b * p - d * p) - (b * q - d * q)
    OBVIOUS
  <2>2. b * p \in Int /\ d * p \in Int /\ b * q \in Int /\ d * q \in Int
    OBVIOUS
  <2>3. b * p - d * p = c - a /\ b * q - d * q = c - a
    BY <2>2
  <2> QED
    BY <2>1, <2>3
<1>2. PICK k \in Int, r \in Int : k = b - d /\ r = p - q
  OBVIOUS
<1>3. k * r = 0 /\ r # 0
  BY <1>1, <1>2
<1>4. k = 0
  BY <1>3
<1>5. b = d
  BY <1>2, <1>4
<1> QED
  BY <1>5

\* The true WCS fits its own matches, and no other WCS does.
LEMMA FitIsTrue ==
  ASSUME IInv, KeepInv, Matched, Clear(wcs), Len(pairs) >= 2
  PROVE  FitsOr(pairs, wcs) = {wcs}
<1>1. sky \in Skies /\ field \in Fields /\ wcs \in Wcs
  BY DEF KeepInv
<1>2. Exact(wcs, pairs)
  BY DEF Matched, Exact
<1>3. /\ 1 \in DOMAIN pairs /\ 2 \in DOMAIN pairs
      /\ \A i \in DOMAIN pairs : pairs[i][1] \in DOMAIN sky /\ pairs[i][2] \in Considered
      /\ pairs[1][1] # pairs[2][1] /\ pairs[1][2] # pairs[2][2]
  <2>1. pairs \in Seq(Nat \X Nat)
    BY DEF IInv, PairsInv
  <2>2. DOMAIN pairs = 1 .. Len(pairs) /\ Len(pairs) \in Nat
    BY <2>1, LenProperties
  <2>3. 1 \in DOMAIN pairs /\ 2 \in DOMAIN pairs /\ 1 # 2
    BY <2>2
  <2> QED
    BY <2>3 DEF IInv, PairsInv
<1>4. /\ field[pairs[1][2]] # field[pairs[2][2]]
      /\ sky[pairs[1][1]] # sky[pairs[2][1]]
  BY <1>3 DEF Clear
<1>5. ~Degenerate(pairs)
  BY <1>3, <1>4 DEF Degenerate
<1>6. ASSUME NEW w \in Wcs, Exact(w, pairs) PROVE w = wcs
  <2>1. /\ Off(w, pairs[1][1], pairs[1][2]) = 0 /\ Off(wcs, pairs[1][1], pairs[1][2]) = 0
        /\ Off(w, pairs[2][1], pairs[2][2]) = 0 /\ Off(wcs, pairs[2][1], pairs[2][2]) = 0
    BY <1>2, <1>3, <1>6 DEF Exact
  <2>2. /\ sky[pairs[1][1]] = w.shift + w.scale * field[pairs[1][2]]
        /\ sky[pairs[1][1]] = wcs.shift + wcs.scale * field[pairs[1][2]]
        /\ sky[pairs[2][1]] = w.shift + w.scale * field[pairs[2][2]]
        /\ sky[pairs[2][1]] = wcs.shift + wcs.scale * field[pairs[2][2]]
    BY <1>1, <1>3, <2>1, OffFacts
  <2>3. PICK a \in Int, b \in Int, c \in Int, d \in Int, p \in Int, q \in Int :
          /\ a = w.shift /\ b = w.scale /\ c = wcs.shift /\ d = wcs.scale
          /\ p = field[pairs[1][2]] /\ q = field[pairs[2][2]]
    <3>1. w.shift \in Int /\ w.scale \in Int /\ wcs.shift \in Int /\ wcs.scale \in Int
      BY <1>1, Places
    <3>2. field[pairs[1][2]] \in Int /\ field[pairs[2][2]] \in Int
      BY <1>1, <1>3, Places
    <3> QED
      BY <3>1, <3>2
  <2>4. p # q /\ a + b * p = c + d * p /\ a + b * q = c + d * q
    BY <1>4, <2>2, <2>3
  <2>5. a = c /\ b = d
    BY <2>4, OneLine
  <2>6. w \in [shift : Int, scale : Nat \ {0}] /\ wcs \in [shift : Int, scale : Nat \ {0}]
    BY <1>1, VerifyAssumption DEF VerifyAssumption
  <2>7. w = [shift |-> w.shift, scale |-> w.scale] /\ wcs = [shift |-> wcs.shift, scale |-> wcs.scale]
    BY <2>6
  <2>8. w.shift = wcs.shift /\ w.scale = wcs.scale
    BY <2>3, <2>5
  <2> QED
    BY <2>7, <2>8
<1>7. {w \in Wcs : Exact(w, pairs)} = {wcs}
  BY <1>1, <1>2, <1>6
<1>8. ~(Len(pairs) < 2)
  <2>1. Len(pairs) \in Nat
    BY LenProperties DEF IInv, PairsInv
  <2> QED
    BY <2>1
<1>9. Fits(pairs) = {wcs}
  BY <1>1, <1>2, <1>5, <1>7, <1>8 DEF Fits
<1> QED
  BY <1>9 DEF FitsOr

\* A finished verification of the true WCS has matched all that is on a star.
LEMMA TruePasses ==
  ASSUME IInv, KeepInv, stage \in {"loose", "strict", "again"}, Scored, IsTrue(wcs)
  PROVE  /\ Len(pairs) >= MinPairs
         /\ stage # "loose" => Accepted
         /\ FitsOr(pairs, wcs) = {wcs}
<1>1. sky \in Skies /\ field \in Fields /\ wcs \in Wcs /\ Kind \in Kinds /\ Matched
  BY DEF KeepInv, Kind, Kinds
<1>2. PICK g \in Nat, m \in Nat, n \in Nat, all \in Nat, miss \in Nat :
        /\ g = Worth(wcs, Kind) /\ g > 0 /\ miss = Miss
        /\ n = Cardinality(HitsSoFar) /\ m = Cardinality(StraysSoFar)
        /\ all = Cardinality(Considered \ Hits(wcs)) /\ m <= all
  <2>1. Miss \in Nat
    BY VerifyAssumption DEF VerifyAssumption
  <2> QED
    BY <1>1, <2>1, WorthPositive, FiniteHits
<1>3. logodds = n * g - m * miss /\ Len(pairs) = n
  BY <1>1, <1>2 DEF Matched
<1>4. ~Bailed
  <2>1. n * g >= 0 /\ n * g \in Int /\ m * miss \in Int /\ all * miss \in Int
    OBVIOUS
  <2>2. m * miss <= all * miss
    <3>1. PICK d \in Nat : all = m + d
      <4>1. all - m \in Nat /\ all = m + (all - m)
        BY <1>2
      <4> QED
        BY <4>1
    <3>2. (m + d) * miss = m * miss + d * miss /\ d * miss \in Nat
      OBVIOUS
    <3> QED
      BY <2>1, <3>1, <3>2
  <2>3. all * miss <= Hopeless /\ Hopeless \in Nat
    BY <1>2, VerifyAssumption DEF IsTrue, VerifyAssumption
  <2> QED
    BY <1>3, <2>1, <2>2, <2>3 DEF Bailed
<1>5. InView(wcs, Kind) # {}
  BY <1>1, WorthPositive
<1>6. next > Lower(Len(field), MaxField)
  BY <1>4, <1>5 DEF Scored
<1>7. HitsSoFar = Hits(wcs) /\ StraysSoFar = Considered \ Hits(wcs)
  <2>1. next \in Nat /\ Lower(Len(field), MaxField) \in Nat
    BY <1>1, Places DEF IInv, PairsInv
  <2>2. \A f \in Considered : f < next
    BY <1>6, <2>1 DEF Considered
  <2>3. Hits(wcs) \subseteq Considered
    BY DEF Hits
  <2> QED
    BY <2>2, <2>3 DEF HitsSoFar, StraysSoFar
<1>8. Len(pairs) >= MinPairs /\ Len(pairs) >= MinMatches
  BY <1>2, <1>3, <1>7 DEF IsTrue
<1>9. ASSUME stage # "loose" PROVE Accepted
  <2>1. Kind = "strict"
    BY <1>9 DEF Kind
  <2>2. logodds = Score(wcs)
    BY <1>2, <1>3, <1>7, <2>1 DEF Score, Worth
  <2> QED
    BY <1>5, <1>8, <2>2 DEF Accepted, IsTrue
<1>10. Len(pairs) >= 2
  BY <1>3, <1>8, VerifyAssumption DEF VerifyAssumption
<1> QED
  BY <1>1, <1>8, <1>9, <1>10, FitIsTrue DEF IsTrue

\* The same of the WCS being verified, in any state.
LEMMA WorthAlways ==
  sky \in Skies /\ field \in Fields /\ wcs \in Wcs /\ IsTrue(wcs) /\ Kind \in Kinds
    => Worth(wcs, Kind) \in Nat
  BY WorthPositive

\* A verification starts with nothing matched.
LEMMA VerificationKeeps ==
  ASSUME KeepInv, NEW kind \in {"loose", "strict", "again"}, NEW w \in Wcs,
         Verification(kind, w)
  PROVE  KeepInv'
<1>1. /\ stage' = kind /\ wcs' = w /\ next' = 1 /\ logodds' = 0 /\ pairs' = <<>>
      /\ UNCHANGED <<sky, field>>
  BY DEF Verification
<1>2. sky' \in Skies /\ field' \in Fields /\ wcs' \in Wcs
  BY <1>1 DEF KeepInv
<1>3. ASSUME IsTrue(wcs)' PROVE Matched'
  <2>1. HitsSoFar' = {} /\ StraysSoFar' = {}
    <3>1. \A f \in Considered' : f \in Nat /\ f >= 1
      BY <1>1, Places DEF KeepInv, Considered
    <3>2. \A f \in Considered' : ~(f < next')
      BY <1>1, <3>1
    <3>3. Hits(wcs)' \subseteq Considered'
      BY DEF Hits
    <3> QED
      BY <3>2, <3>3 DEF HitsSoFar, StraysSoFar
  <2>2. next' <= (Lower(Len(field), MaxField) + 1)'
    <3>1. Lower(Len(field), MaxField) \in Nat
      BY Places DEF KeepInv
    <3> QED
      BY <1>1, <3>1
  <2>3. Cardinality({}) = 0
    BY FS_EmptySet
  <2>4. Len(pairs') = 0 /\ DOMAIN pairs' = {}
    BY <1>1
  <2>5. Worth(wcs, Kind)' \in Int /\ Miss \in Int
    <3>1. (Worth(wcs, Kind) \in Nat)'
      <4>1. (Kind \in Kinds)'
        BY <1>1 DEF Kind, Kinds
      <4>2. (sky \in Skies /\ field \in Fields /\ wcs \in Wcs /\ IsTrue(wcs) /\ Kind \in Kinds
              => Worth(wcs, Kind) \in Nat)'
        BY WorthAlways, PTL
      <4> QED
        BY <1>2, <1>3, <4>1, <4>2
    <3>2. Miss \in Int
      BY VerifyAssumption DEF VerifyAssumption
    <3> QED
      BY <3>1, <3>2
  <2>6. logodds' = Len(pairs') * Worth(wcs, Kind)' - Cardinality(StraysSoFar') * Miss
    BY <1>1, <2>1, <2>3, <2>4, <2>5
  <2> QED
    BY <2>1, <2>2, <2>3, <2>4, <2>6 DEF Matched
<1>4. Delivered'
  BY <1>1 DEF Delivered
<1> QED
  BY <1>2, <1>3, <1>4 DEF KeepInv

\* At the start nothing is decided.
LEMMA KeepInit == Init => KeepInv
<1> SUFFICES ASSUME Init PROVE KeepInv
  OBVIOUS
<1>1. wcs \in Wcs
  BY VerifyAssumption DEF Init, VerifyAssumption
<1> QED
  BY <1>1 DEF Init, KeepInv, Delivered

\* No step loses the true WCS.
LEMMA KeepStep == IInv /\ KeepInv /\ [Next]_vars => KeepInv'
<1> SUFFICES ASSUME IInv, KeepInv, [Next]_vars PROVE KeepInv'
  OBVIOUS
<1>0. sky \in Skies /\ field \in Fields /\ wcs \in Wcs
  BY DEF KeepInv
<1>1. ASSUME NEW ps PROVE FitsOr(ps, wcs) \subseteq Wcs /\ Fits(ps) \subseteq Wcs
  BY <1>0 DEF FitsOr, Fits
<1>2. CASE ResolveHit \/ TryWarm \/ Refit
  <2>1. \E kind \in {"loose", "strict", "again"} : \E w \in Wcs : Verification(kind, w)
    <3>1. CASE ResolveHit
      BY <1>1, <3>1 DEF ResolveHit
    <3>2. CASE TryWarm
      BY <3>2 DEF TryWarm
    <3>3. CASE Refit
      BY <1>1, <3>3 DEF Refit
    <3> QED
      BY <1>2, <3>1, <3>2, <3>3
  <2> QED
    BY <2>1, VerificationKeeps
<1>3. CASE Match
  BY <1>3, MatchKeeps
<1>4. CASE Solve
  <2>1. /\ stage = "again" /\ Scored /\ stage' = "done" /\ result' = "solved"
        /\ UNCHANGED <<sky, field, wcs>>
    BY <1>4 DEF Solve
  <2>2. ASSUME IsTrue(wcs) PROVE solution' = <<wcs>>
    <3>1. FitsOr(pairs, wcs) = {wcs}
      BY <2>1, <2>2, TruePasses
    <3>2. PICK w \in (IF Len(pairs) >= MinPairs THEN FitsOr(pairs, wcs) ELSE {wcs}) :
            \E moved \in Moved(pairs, w) : solution' = <<moved>>
      BY <1>4 DEF Solve
    <3>3. w = wcs
      BY <3>1, <3>2
    <3> QED
      BY <3>1, <3>2, <3>3 DEF Moved
  <2>3. IsTrue(wcs)' = IsTrue(wcs)
    BY <2>1, SameImage
  <2>4. Delivered'
    BY <2>1, <2>2, <2>3 DEF Delivered
  <2> QED
    BY <1>0, <2>1, <2>4 DEF KeepInv
<1>5. CASE Fail
  <2>1. /\ stage \in {"loose", "strict", "again"} /\ Scored
        /\ IF stage = "loose" THEN Len(pairs) < MinPairs ELSE ~Accepted
        /\ stage' = "done" /\ UNCHANGED <<sky, field, wcs>>
    BY <1>5 DEF Fail, Reject
  <2>2. ~IsTrue(wcs)
    <3> SUFFICES ASSUME IsTrue(wcs) PROVE FALSE
      OBVIOUS
    <3>1. Len(pairs) >= MinPairs /\ (stage # "loose" => Accepted)
      BY <2>1, TruePasses
    <3>2. Len(pairs) \in Nat /\ MinPairs \in Nat
      BY LenProperties, VerifyAssumption DEF IInv, PairsInv, VerifyAssumption
    <3> QED
      BY <2>1, <3>1, <3>2
  <2>3. IsTrue(wcs)' = IsTrue(wcs)
    BY <2>1, SameImage
  <2> QED
    BY <1>0, <2>1, <2>2, <2>3 DEF KeepInv, Delivered
<1>6. CASE UNCHANGED vars
  <2>1. /\ UNCHANGED <<sky, field, wcs>>
        /\ UNCHANGED <<stage, next, logodds, pairs, result, solution>>
    BY <1>6 DEF vars
  <2>2. IsTrue(wcs)' = IsTrue(wcs)
    BY <2>1, SameImage
  <2>3. Matched' = Matched
    BY <2>1 DEF Matched, HitsSoFar, StraysSoFar, Hits, OnStar, Off, InView, Considered, Worth, Kind
  <2> QED
    BY <1>0, <2>1, <2>2, <2>3 DEF KeepInv, Delivered
<1> QED
  BY <1>2, <1>3, <1>4, <1>5, <1>6 DEF Next

\* Whether a WCS is true is a matter of the sky and the image.
LEMMA SameTruth ==
  ASSUME UNCHANGED <<sky, field>>, CONSTANT w
  PROVE  IsTrue(w)' = IsTrue(w)
<1>1. Considered' = Considered
  BY DEF Considered
<1>2. \A s, f : Off(w, s, f)' = Off(w, s, f)
  BY DEF Off
<1>3. \A kind : InView(w, kind)' = InView(w, kind)
  BY DEF InView
<1>4. \A f : OnStar(w, f)' = OnStar(w, f) /\ Stray(w, f)' = Stray(w, f)
  BY <1>2, <1>3 DEF OnStar, Stray
<1>5. Hits(w)' = Hits(w)
  BY <1>1, <1>4 DEF Hits
<1>6. Sparse(w)' = Sparse(w) /\ Score(w)' = Score(w)
  BY <1>1, <1>3, <1>5 DEF Sparse, Score
<1>7. Clear(w)' = Clear(w)
  BY <1>1, <1>4, <1>6 DEF Clear
<1> QED
  BY <1>1, <1>5, <1>6, <1>7 DEF IsTrue

\* A guess that is true is the WCS being verified, however often it was fitted.
GuessInv ==
  \/ stage = "guess"
  \/ \E w \in Wcs : guess = <<w>> /\ (IsTrue(w) => wcs = w)

LEMMA GuessStep ==
  IInv /\ KeepInv /\ GuessInv /\ [Next]_vars => GuessInv'
<1> SUFFICES ASSUME IInv, KeepInv, GuessInv, [Next]_vars PROVE GuessInv'
  OBVIOUS
<1>1. CASE ResolveHit \/ TryWarm
  <2>1. \A ps : Fits(ps) \subseteq Wcs
    BY DEF Fits
  <2>2. \E w \in Wcs : guess' = <<w>> /\ wcs' = w
    BY <1>1, <2>1 DEF ResolveHit, TryWarm, Verification
  <2> QED
    BY <2>2 DEF GuessInv
<1>2. CASE Refit
  <2>1. stage \in {"strict", "loose"} /\ Scored /\ UNCHANGED <<guess, sky, field>>
    BY <1>2 DEF Refit, Verification
  <2>2. PICK w \in Wcs : guess = <<w>> /\ (IsTrue(w) => wcs = w)
    BY <2>1 DEF GuessInv
  <2>3. IsTrue(w)' = IsTrue(w)
    BY <2>1, SameTruth
  <2>4. ASSUME IsTrue(w) PROVE wcs' = w
    <3>1. wcs = w
      BY <2>2, <2>4
    <3>2. IsTrue(wcs)
      BY <2>4, <3>1
    <3>3. FitsOr(pairs, wcs) = {wcs}
      BY <2>1, <3>2, TruePasses
    <3>4. wcs' \in FitsOr(pairs, wcs)
      BY <1>2 DEF Refit, Verification
    <3> QED
      BY <3>1, <3>3, <3>4
  <2> QED
    BY <2>1, <2>2, <2>3, <2>4 DEF GuessInv
<1>3. CASE Match \/ Solve \/ Fail \/ UNCHANGED vars
  <2>1. UNCHANGED <<guess, wcs, sky, field>> /\ (stage' = "guess" \/ stage # "guess")
    BY <1>3 DEF Match, Solve, Fail, Reject, vars
  <2>2. CASE stage' = "guess"
    BY <2>2 DEF GuessInv
  <2>3. CASE stage # "guess"
    <3>1. PICK w \in Wcs : guess = <<w>> /\ (IsTrue(w) => wcs = w)
      BY <2>3 DEF GuessInv
    <3>2. IsTrue(w)' = IsTrue(w)
      BY <2>1, SameTruth
    <3> QED
      BY <2>1, <3>1, <3>2 DEF GuessInv
  <2> QED
    BY <2>1, <2>2, <2>3
<1> QED
  BY <1>1, <1>2, <1>3 DEF Next

\* A true guess is never lost, with any number of stars and strays, any scoring
\* and any number of matches asked for: it passes every verification, and the
\* refit and the fits after it give back the WCS that was guessed (verify.rs,
\* verify_wcs; engine.rs, refit_and_accept).
THEOREM TrueWcsKept == Spec => []TrueWcsIsKept
<1>1. Init => GuessInv
  BY DEF Init, GuessInv
<1>2. KeepInv /\ GuessInv => TrueWcsIsKept
  <2> SUFFICES ASSUME KeepInv, GuessInv, stage = "done", IsTrue(guess[1])
               PROVE  result = "solved" /\ solution = guess
    BY DEF TrueWcsIsKept
  <2>1. PICK w \in Wcs : guess = <<w>> /\ (IsTrue(w) => wcs = w)
    BY DEF GuessInv
  <2>2. guess[1] = w
    BY <2>1
  <2>3. wcs = w /\ IsTrue(wcs)
    BY <2>1, <2>2
  <2> QED
    BY <2>1, <2>3 DEF KeepInv, Delivered
<1> QED
  BY <1>1, <1>2, InitInv, KeepInit, StepInv, KeepStep, GuessStep, PTL DEF Spec

\* A refit does not move the true WCS (engine.rs, refit_and_accept).
THEOREM TrueWcsRefits == Spec => [][Refit /\ IsTrue(wcs) => wcs' = wcs]_vars
<1>1. IInv /\ KeepInv => (Refit /\ IsTrue(wcs) => wcs' = wcs)
  <2> SUFFICES ASSUME IInv, KeepInv, Refit, IsTrue(wcs) PROVE wcs' = wcs
    OBVIOUS
  <2>1. FitsOr(pairs, wcs) = {wcs}
    BY TruePasses DEF Refit
  <2>2. PICK w \in FitsOr(pairs, wcs) : Verification("again", w)
    BY DEF Refit
  <2> QED
    BY <2>1, <2>2 DEF Verification
<1> QED
  BY <1>1, InitInv, KeepInit, StepInv, KeepStep, PTL DEF Spec
=============================================================================
