------------------------------- MODULE Verify -------------------------------
(***************************************************************************)
(* How a guess at the WCS becomes a solution, or does not (fl-solve:       *)
(* resolve_hit, try_warm and refit_and_accept of engine.rs, verify_wcs).   *)
(* A guess comes from a quad of the image that looks like one of an index, *)
(* or from the warm list.  The stars of the image are matched one by one,  *)
(* brightest first, with those the index has there; the matches are fitted *)
(* again, and the fit is verified again.                                   *)
(*                                                                         *)
(* Sky and image are lines, a WCS is [shift, scale]: pixel p is at shift + *)
(* scale * p.  Log-odds are steps of a scale.  What a fit makes of pairs   *)
(* that no WCS fits exactly is left open: the properties hold whatever it  *)
(* is.                                                                     *)
(***************************************************************************)
EXTENDS Integers, Sequences, FiniteSets, FiniteSetsExt

CONSTANTS
  Skies,        \* the stars of an index: sequences of places in the sky
  Fields,       \* the stars of an image: sequences of pixels, brightest first
  Width,        \* of the image, in pixels
  Wcs,          \* the WCSs there are, [shift, scale]
  Band,         \* <<lo, hi>>, the scales searched
  Near,         \* <<from, to>>: where the client says the image is
  Reach,        \* the match radius of a verification in pixels: ["loose", "strict"]
  Margin,       \* and how far off the image a star is still looked for
  Odds(_, _, _),\* what a match adds: its kind, its distance, the stars in view
  Miss,         \* what a star without a match costs: -ln distractor
  Cap,          \* what a match adds at most: ln 1e5
  Hopeless,     \* the early bail: ln 1e6
  Accept,       \* accept_logodds, strict
  MinMatches,   \* min_matches, strict
  MinPairs,     \* pairs needed to fit a WCS from: 6
  MaxField      \* max_field

Kinds == {"loose", "strict"}

ASSUME VerifyAssumption ==
  /\ \A s \in Skies : s \in Seq(Int)
  /\ Width \in Nat /\ \A f \in Fields : f \in Seq(0 .. Width - 1)
  /\ Wcs # {} /\ Wcs \subseteq [shift : Int, scale : Nat \ {0}]
  /\ \A kind \in Kinds : Reach[kind] \in Nat \ {0} /\ Margin[kind] \in Nat
  /\ Miss \in Nat \ {0} /\ Cap \in Nat \ {0} /\ Hopeless \in Nat
  /\ MinPairs \in Nat /\ MinPairs >= 2 /\ MinMatches \in Nat /\ MaxField \in Nat
  \* Any match is likelier than none, and the less likely the further away.
  /\ \A s \in Skies : \A kind \in Kinds, n \in 1 .. Len(s) : \A d \in 0 .. Reach[kind] - 1 :
       /\ Odds(kind, d, n) \in Int /\ -Miss <= Odds(kind, d, n)
       /\ d > 0 => Odds(kind, d, n) <= Odds(kind, d - 1, n)

VARIABLES
  sky, field,
  stage,      \* "guess", "loose", "strict", "again" after the refit, "done"
  wcs,        \* the WCS being verified
  guess,      \* history: the WCS that was verified first, or <<>>
  next,       \* the star of the image that is matched next
  logodds,
  pairs,      \* the matches: <<star of the index, star of the image>>
  result,     \* "nothing", "rejected", "solved"
  solution    \* history: the WCS that is returned, or <<>>

vars == <<sky, field, stage, wcs, guess, next, logodds, pairs, result, solution>>

Distance(a, b) == IF a < b THEN b - a ELSE a - b

\* How far a star of the index is from a star of the image, in the sky.
Off(w, s, f) == Distance(sky[s], w.shift + w.scale * field[f])

-----------------------------------------------------------------------------
(* The fit.                                                                 *)

\* The fit ends a pixel short of its stars.
MutExact(w, ps) == \A i \in DOMAIN ps : Off(w, ps[i][1], ps[i][2]) <= w.scale

Exact(w, ps) == \A i \in DOMAIN ps : Off(w, ps[i][1], ps[i][2]) = 0

\* All stars of the image, or of the sky, in one place: no scale.
Degenerate(ps) ==
  \/ \A i, j \in DOMAIN ps : field[ps[i][2]] = field[ps[j][2]]
  \/ \A i, j \in DOMAIN ps : sky[ps[i][1]] = sky[ps[j][1]]

\* fit_tan_wcs: exact where it can be; none of degenerate pairs.
Fits(ps) ==
  IF Len(ps) < 2 \/ Degenerate(ps) THEN {}
  ELSE IF \E w \in Wcs : Exact(w, ps) THEN {w \in Wcs : Exact(w, ps)} ELSE Wcs

\* Where there is no fit, the WCS it started from stays.
FitsOr(ps, w) == IF Fits(ps) = {} THEN {w} ELSE Fits(ps)

\* fit_tan_wcs_move: the same with the reference pixel in the image's centre,
\* which a line does not tell apart.
Moved(ps, w) == FitsOr(ps, w)

-----------------------------------------------------------------------------
(* verify_wcs.                                                              *)

Kind == IF stage = "loose" THEN "loose" ELSE "strict"

\* The stars of the index on the image, or close to it.
InView(w, kind) ==
  {s \in DOMAIN sky :
     /\ sky[s] >= w.shift - w.scale * Margin[kind]
     /\ sky[s] < w.shift + w.scale * (Width + Margin[kind])}

Used == {pairs[i][1] : i \in DOMAIN pairs}

Within(f, s) == Off(wcs, s, f) < Reach[Kind] * wcs.scale

\* A star of the index may match twice.
MutClosest(f) ==
  {s \in InView(wcs, Kind) :
     /\ Within(f, s)
     /\ \A t \in InView(wcs, Kind) : Off(wcs, s, f) <= Off(wcs, t, f)}

\* The closest star in reach that is not taken; the first of several.
Closest(f) ==
  {s \in InView(wcs, Kind) \ Used :
     /\ Within(f, s)
     /\ \A t \in InView(wcs, Kind) \ Used :
          Off(wcs, s, f) < Off(wcs, t, f) \/ (Off(wcs, s, f) = Off(wcs, t, f) /\ s <= t)}

Lower(m, n) == IF m < n THEN m ELSE n

Gain(f) ==
  IF Closest(f) = {} THEN -Miss
  ELSE LET s == CHOOSE s \in Closest(f) : TRUE
       IN Lower(Cap, Odds(Kind, Off(wcs, s, f) \div wcs.scale, Cardinality(InView(wcs, Kind))))

Bailed == logodds < -Hopeless

\* The loop is over.
Scored ==
  \/ InView(wcs, Kind) = {}
  \/ next > Lower(Len(field), MaxField)
  \/ Bailed

\* One star of the image; a match less likely than a stray star is none.
Match ==
  /\ stage \in {"loose", "strict", "again"}
  /\ ~Scored
  /\ logodds' = logodds + Gain(next)
  /\ pairs' = IF Gain(next) > 0
              THEN Append(pairs, <<CHOOSE s \in Closest(next) : TRUE, next>>) ELSE pairs
  /\ next' = next + 1
  /\ UNCHANGED <<sky, field, stage, wcs, guess, result, solution>>

\* No star in view: minus infinity.
Accepted ==
  InView(wcs, Kind) # {} /\ logodds >= Accept /\ Len(pairs) >= MinMatches

-----------------------------------------------------------------------------
Init ==
  /\ sky \in Skies /\ field \in Fields
  /\ stage = "guess" /\ wcs \in {CHOOSE w \in Wcs : TRUE}
  /\ guess = <<>>
  /\ next = 1 /\ logodds = 0 /\ pairs = <<>>
  /\ result = "nothing" /\ solution = <<>>

Verification(kind, w) ==
  /\ stage' = kind /\ wcs' = w
  /\ next' = 1 /\ logodds' = 0 /\ pairs' = <<>>
  /\ UNCHANGED <<sky, field, result, solution>>

Reject ==
  /\ stage' = "done" /\ result' = "rejected"
  /\ UNCHANGED <<sky, field, wcs, guess, next, logodds, pairs, solution>>

\* Where the client says the image is, and what A and B say of the scale, give
\* or take a fifth.
Plausible(a, b) ==
  LET sep == Distance(sky[a[1]], sky[b[1]])
      length == Distance(field[a[2]], field[b[2]])
  IN /\ sky[a[1]] \in Near[1] .. Near[2] /\ sky[b[1]] \in Near[1] .. Near[2]
     /\ 6 * sep >= 5 * Band[1] * length
     /\ 5 * sep <= 6 * Band[2] * length

InBand(w) == Band[1] <= w.scale /\ w.scale <= Band[2]

Ends == {ab \in ((DOMAIN sky) \X (DOMAIN field)) \X ((DOMAIN sky) \X (DOMAIN field)) :
           ab[1][1] # ab[2][1] /\ ab[1][2] < ab[2][2]}

\* resolve_hit: the quad of an index has the code of a quad of the image.
ResolveHit ==
  /\ stage = "guess"
  /\ \E ab \in Ends :
       /\ Plausible(ab[1], ab[2])
       /\ \E w \in Fits(ab) : InBand(w) /\ Verification("strict", w) /\ guess' = <<w>>

\* try_warm: a WCS the engine remembers.
TryWarm ==
  /\ stage = "guess"
  /\ \E w \in Wcs : Verification("loose", w) /\ guess' = <<w>>

\* The guess passes, and is fitted to its matches; all that counts in the loose
\* verification is how many there are.
Refit ==
  /\ Scored
  /\ \/ stage = "strict" /\ Accepted
     \/ stage = "loose" /\ Len(pairs) >= MinPairs
  /\ \E w \in FitsOr(pairs, wcs) : Verification("again", w)
  /\ UNCHANGED guess

\* The verified fit is fitted once more to its own matches.
Solve ==
  /\ stage = "again" /\ Scored /\ Accepted
  /\ \E w \in IF Len(pairs) >= MinPairs THEN FitsOr(pairs, wcs) ELSE {wcs} :
       \E moved \in Moved(pairs, w) : solution' = <<moved>>
  /\ stage' = "done" /\ result' = "solved"
  /\ UNCHANGED <<sky, field, wcs, guess, next, logodds, pairs>>

Fail ==
  /\ stage \in {"loose", "strict", "again"} /\ Scored
  /\ IF stage = "loose" THEN Len(pairs) < MinPairs ELSE ~Accepted
  /\ Reject

Next == ResolveHit \/ TryWarm \/ Match \/ Refit \/ Solve \/ Fail

Spec == Init /\ [][Next]_vars

-----------------------------------------------------------------------------
(* What a verdict should mean, said without the order of the matching.      *)

Considered == 1 .. Lower(Len(field), MaxField)

\* A WCS puts this star of the image on one of the index, near enough to count.
Supports(w, f, s) ==
  /\ s \in InView(w, "strict")
  /\ Off(w, s, f) < Reach["strict"] * w.scale

\* The number of stars of the image that can be on a star of the index each.
Supported(w) ==
  Max({Cardinality(F) : F \in
         {G \in SUBSET Considered :
            \E m \in [G -> DOMAIN sky] :
              /\ \A f \in G : Supports(w, f, m[f])
              /\ \A f, g \in G : f # g => m[f] # m[g]}})

\* A solution rests on as many different stars of the sky as it says: a bright
\* star that was detected twice, or two that blend, count once.
SolutionIsSupported ==
  result = "solved" =>
    /\ Len(pairs) >= MinMatches
    /\ Len(pairs) <= Supported(wcs)
    /\ \A i, j \in DOMAIN pairs : i # j => pairs[i][1] # pairs[j][1]

\* The image as it is under w: stars exactly on stars of the index, no two in
\* the same place, and strays, which are near none; and not so many stars in
\* view that one in its place is no likelier than a stray.
OnStar(w, f) == \E s \in InView(w, "strict") : Off(w, s, f) = 0
Stray(w, f) ==
  \A s \in DOMAIN sky, kind \in Kinds : Off(w, s, f) >= Reach[kind] * w.scale
Sparse(w) == \A kind \in Kinds : Odds(kind, 0, Cardinality(InView(w, kind))) > 0
Clear(w) ==
  /\ \A s, t \in DOMAIN sky : s # t => sky[s] # sky[t]
  /\ \A f, g \in Considered : f # g => field[f] # field[g]
  /\ \A f \in Considered : OnStar(w, f) \/ Stray(w, f)
  /\ Sparse(w)
Hits(w) == {f \in Considered : OnStar(w, f)}
Score(w) ==
  LET n == Cardinality(InView(w, "strict"))
  IN Cardinality(Hits(w)) * Lower(Cap, Odds("strict", 0, n))
       - Cardinality(Considered \ Hits(w)) * Miss

\* Enough stars are on it, and fewer strays than it takes to bail out.
IsTrue(w) ==
  /\ Clear(w)
  /\ Cardinality(Hits(w)) >= MinMatches /\ Cardinality(Hits(w)) >= MinPairs
  /\ Score(w) >= Accept
  /\ Cardinality(Considered \ Hits(w)) * Miss <= Hopeless

\* The true WCS is not lost: a guess that is true, from the warm list as from a
\* quad, passes every verification, and the refit, the fit after it and the move
\* of the reference pixel give it back as it was guessed.
TrueWcsIsKept ==
  stage = "done" /\ IsTrue(guess[1]) => result = "solved" /\ solution = guess
=============================================================================
