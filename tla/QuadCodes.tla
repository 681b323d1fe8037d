------------------------------ MODULE QuadCodes ------------------------------
(***************************************************************************)
(* The hash codes of one quad of field stars (fl-solve, codes.rs).         *)
(*                                                                         *)
(* A backbone A, B maps A to (0,0) and B to (1,1); the other stars' places *)
(* in that frame are the code.  An index keeps one labelling of each quad: *)
(* members in order of x, mean x at most a half.  A search cannot know     *)
(* which labelling that is and enumerates those that could be it, given    *)
(* that the places are off by codetol.                                     *)
(*                                                                         *)
(* Stars are at integer positions and a code coordinate counts steps of    *)
(* 1/|AB|^2, which makes codes exact integers.                             *)
(***************************************************************************)
EXTENDS Integers, Sequences, Functions, Lists

CONSTANTS
  Sample,    \* what is searched: [stars, inv, parity], stars A, B, C, ... as positions
  CodeTol,   \* codetol, in steps
  Errors(_)  \* the displacements of n code coordinates by at most codetol

ASSUME CodesAssumption ==
  /\ \A q \in Sample : q.stars \in Seq(Int \X Int) /\ Len(q.stars) >= 2
  /\ CodeTol \in Nat
  \* codetol is a distance: no two coordinates are off by more together.
  /\ \A q \in Sample : \A e \in Errors(Len(q.stars) - 2) :
       /\ e \in [1 .. Len(q.stars) - 2 -> -CodeTol .. CodeTol]
       /\ \A i, j \in DOMAIN e : i # j => e[i] * e[i] + e[j] * e[j] <= CodeTol * CodeTol

VARIABLES
  quad,      \* the quad at hand
  flip,      \* parity_flip and
  swap,      \* ab_swap of the enumeration
  round,     \* "next" labelling or "done"
  labelled   \* the candidates: [order, code, flip], order as indices of stars

codesVars == <<quad, flip, swap, round, labelled>>

-----------------------------------------------------------------------------
(* The frame of a backbone.                                                 *)

Scale(p, q) ==
  LET dx == q[1] - p[1]
      dy == q[2] - p[2]
  IN dx * dx + dy * dy

\* code_xy, times |AB|^2.
CodeXY(p, q, m) ==
  LET dx == q[1] - p[1]
      dy == q[2] - p[2]
      cx == m[1] - p[1]
      cy == m[2] - p[2]
  IN <<cx * (dy + dx) + cy * (dy - dx), cy * (dy + dx) - cx * (dy - dx)>>

A == quad.stars[1]
B == quad.stars[2]
Members == 3 .. Len(quad.stars)

-----------------------------------------------------------------------------
(* for_each_code                                                            *)

\* The mirrorings the parity hint leaves open.
Allowed(f) ==
  /\ quad.parity = "Normal" => ~f
  /\ quad.parity = "Flip" => f

\* Renames A and B and keeps their code.
MutOriginal(m) ==
  LET place == CodeXY(A, B, quad.stars[m])
  IN IF flip THEN <<place[2], place[1]>> ELSE place

\* The code coordinates of star m in the present labelling: exchanged if the
\* image is read mirrored, complemented if A and B change names.
Original(m) ==
  LET place == CodeXY(A, B, quad.stars[m])
      read == IF flip THEN <<place[2], place[1]>> ELSE place
      unit == Scale(A, B)
  IN IF swap THEN <<unit - read[1], unit - read[2]>> ELSE read

\* The sums of the x of the first members, by their number.
XSums(code) == RunningSum([j \in DOMAIN code |-> code[j][1]], Len(code))

\* A margin of codetol: forgets that two stars may be off in opposite ways.
MutSurvives(code) ==
  quad.inv.cx_le_dx =>
    \A s \in 2 .. Len(code) : code[s - 1][1] - code[s][1] <= CodeTol

\* permute drops an order whose x decrease, or whose first members have a mean
\* x over a half, by more than the margin of 1.5 codetol.
Survives(code) ==
  /\ quad.inv.cx_le_dx =>
       \A s \in 2 .. Len(code) : 2 * (code[s - 1][1] - code[s][1]) <= 3 * CodeTol
  /\ quad.inv.cx_le_dx /\ quad.inv.meanx_le_half =>
       \A s \in DOMAIN code :
         2 * XSums(code)[s] <= s * (Scale(A, B) + 3 * CodeTol)

\* The orders of the members, as sequences of star indices.
Orders == {o \in [1 .. Len(quad.stars) - 2 -> Members] : IsInjective(o)}

\* permute for the present reading and naming.
Permute ==
  LET Labelling(o) ==
        [order |-> (IF swap THEN <<2, 1>> ELSE <<1, 2>>) \o o,
         code |-> [s \in DOMAIN o |-> Original(o[s])], flip |-> flip]
  IN {l \in {Labelling(o) : o \in Orders} : Survives(l.code)}

CodesInit ==
  /\ quad \in Sample
  /\ flip = FALSE /\ swap = FALSE /\ round = "next" /\ labelled = {}

\* The next of the four rounds; the last one ends the enumeration.
Advance ==
  /\ swap' = ~swap
  /\ flip' = (flip \/ swap)
  /\ round' = IF flip /\ swap THEN "done" ELSE "next"

\* The hint pins the other parity.
Skip ==
  /\ round = "next" /\ ~Allowed(flip)
  /\ Advance
  /\ UNCHANGED <<quad, labelled>>

Label ==
  /\ round = "next" /\ Allowed(flip)
  /\ labelled' = labelled \cup Permute
  /\ Advance
  /\ UNCHANGED quad

CodesNext == Skip \/ Label

CodesSpec == CodesInit /\ [][CodesNext]_codesVars

-----------------------------------------------------------------------------
(* Properties                                                               *)

\* How an index with these flags labels its quads.
Canonical(code, unit) ==
  /\ quad.inv.cx_le_dx => \A s \in 2 .. Len(code) : code[s - 1][1] <= code[s][1]
  /\ quad.inv.meanx_le_half => 2 * XSums(code)[Len(code)] <= Len(code) * unit

\* A star in the image as it is, or in its mirror image.
At(i, f) ==
  LET star == quad.stars[i] IN IF f THEN <<star[2], star[1]>> ELSE star

\* The code an index builder computes for the stars in this order.
CodeOf(order, f) ==
  [s \in 1 .. Len(order) - 2 |->
     CodeXY(At(order[1], f), At(order[2], f), At(order[s + 2], f))]

\* Whatever labelling the index keeps is looked up: take the stars in any order
\* with these two as backbone, in the image or its mirror; if the code computed
\* afresh from the positions is within codetol of one the index may hold, the
\* enumeration has this order with this very code.  The margin of permute must
\* cover what an error does to both invariants, and complementing and
\* exchanging coordinates must be what renaming and mirroring do.
StoredLabellingIsTried ==
  round = "done" =>
    \A f \in BOOLEAN, s \in BOOLEAN, o \in Orders :
      LET order == (IF s THEN <<2, 1>> ELSE <<1, 2>>) \o o
          code == CodeOf(order, f)
          near == {[i \in DOMAIN o |-> <<code[i][1] + e[i], code[i][2]>>] : e \in Errors(Len(o))}
      IN Allowed(f) /\ (\E c \in near : Canonical(c, Scale(A, B))) =>
           [order |-> order, code |-> code, flip |-> f] \in labelled

\* No candidate misleads: its code is the one its star order has, so that a
\* WCS fitted to the order is the one the code hit stands for.
CandidatesAreConsistent ==
  \A l \in labelled : l.code = CodeOf(l.order, l.flip)
=============================================================================
