---------------------------- MODULE MCQuadSearch ----------------------------
(* Five stars on a grid of three by three pixels, and some fields of two    *)
(* and of six; the first star lies in one octant, which loses nothing but   *)
(* turned and mirrored copies.                                              *)
EXTENDS QuadSearch, Functions

Grid == (0 .. 2) \X (0 .. 2)
Octant == {<<0, 0>>, <<1, 0>>, <<1, 1>>}

Layouts(n) == {s \in [1 .. n -> Grid] : IsInjective(s) /\ s[1] \in Octant}

\* A star beyond max_quad_stars, in one corner of the grid.
Crowded ==
  {Append(s, <<2, 2>>) : s \in {t \in Layouts(5) : /\ t[1] = <<0, 0>> /\ t[2] = <<2, 1>>
                                                   /\ <<2, 2>> \notin {t[3], t[4], t[5]}}}

MCFields == Layouts(2) \cup Layouts(5) \cup Crowded

\* Quads of three stars on short backbones, of four on any, of five on long
\* ones, and of four that are too large for the band.
MCIndexes == <<
  [dimquads |-> 3, lower |-> 2, upper |-> 2],
  [dimquads |-> 4, lower |-> 2, upper |-> 3],
  [dimquads |-> 5, lower |-> 4, upper |-> 3],
  [dimquads |-> 4, lower |-> 8, upper |-> 4]>>
MCBand == <<1, 2>>

=============================================================================
