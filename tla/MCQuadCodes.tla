---------------------------- MODULE MCQuadCodes ----------------------------
(* Quads of three, four and five stars on a grid of three by three pixels,  *)
(* the members in the circle over the backbone, for every kind of index and *)
(* parity hint; five stars for published indexes and no hint.               *)
EXTENDS QuadCodes, FiniteSetsExt

Grid == (0 .. 2) \X (0 .. 2)
Octant == {<<0, 0>>, <<1, 0>>, <<1, 1>>}

InCircle(p, q, m) ==
  (m[1] - p[1]) * (m[1] - q[1]) + (m[2] - p[2]) * (m[2] - q[2]) <= 0

Layouts(n) ==
  {s \in [1 .. n -> Grid] :
     /\ IsInjective(s) /\ s[1] \in Octant
     /\ \A m \in 3 .. n : InCircle(s[1], s[2], s[m])}

Flags == [cx_le_dx : BOOLEAN, meanx_le_half : BOOLEAN]
Published == [cx_le_dx |-> TRUE, meanx_le_half |-> TRUE]

MCSample ==
  [stars : Layouts(3) \cup Layouts(4), inv : Flags, parity : {"Normal", "Flip", "Both"}]
    \cup [stars : Layouts(5), inv : {Published}, parity : {"Both"}]

\* Only x decides; 2 and 2 on two stars is within 3 but adds up to 4.
MCErrors(n) ==
  {e \in [1 .. n -> {-3, -2, 0, 2, 3}] : MapThenSumSet(LAMBDA i : e[i] * e[i], 1 .. n) <= 9}
=============================================================================
