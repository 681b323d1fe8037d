------------------------------ MODULE MCVerify ------------------------------
(* A line of ten places in the sky, images of six pixels with two to five    *)
(* stars, three scales, one of them outside the band; three matches make a   *)
(* solution, and a second stray star before the first match is one too many. *)
(* Of four stars the last may be anywhere; a fifth is not looked at.         *)
EXTENDS Verify

MCSkies == {<<0, 1, 2>>, <<3, 0, 5, 4>>, <<2, 4, 4>>, <<6, 0, 8>>, <<9>>}
MCFields ==
  UNION {[1 .. n -> 0 .. 5] : n \in 2 .. 3}
    \cup {f \in [1 .. 4 -> 0 .. 5] : f[1] <= f[2] /\ f[2] <= f[3]}
    \cup {<<0, 1, 2, 5>> \o <<p>> : p \in 0 .. 5}
MCWcs == [shift : -1 .. 1, scale : 1 .. 3]
MCBand == <<1, 2>>
MCNear == <<0, 7>>
MCReach == [loose |-> 2, strict |-> 1]
MCMargin == [loose |-> 2, strict |-> 1]

\* Two steps for a star in its place, one beside it; crowded views count less,
\* and at the edge of the reach a match is hardly better than none.
MCOdds(kind, d, n) ==
  LET full == IF n > 3 THEN 2 ELSE 3
  IN IF kind = "strict" THEN full - 2 * d ELSE full - 1 - 2 * d
=============================================================================
