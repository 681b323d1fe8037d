--------------------------- MODULE MCStarExtract ---------------------------
(* Every outline on the first five columns of three rows, with a brightness  *)
(* that varies along the pixels: three rows let components join twice, so    *)
(* that find has paths to halve.  And images with one row that is not dark,  *)
(* in which pixels have no value: seven columns hold three stars to rank,    *)
(* and such a pixel may be next to any of them.                              *)
EXTENDS StarExtract

MCPosNaN == 1000
MCNegNaN == -1000

Brightness(p) == 1 + ((p * 5) % 7)

Outlined == {p \in Pixels : X(p) < 5}
Outlines == {[p \in Pixels |-> IF p \in on THEN Brightness(p) ELSE 0] : on \in SUBSET Outlined}

Inside == 1 .. Width - 2
Rows == [Inside -> {0, 3, 5, MCPosNaN, MCNegNaN}]
Patchy == {[p \in Pixels |-> IF Y(p) = 1 /\ X(p) \in Inside THEN row[X(p)] ELSE 0] : row \in Rows}

MCImages == Outlines \cup Patchy
=============================================================================
