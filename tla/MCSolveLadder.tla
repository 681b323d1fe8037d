---------------------------- MODULE MCSolveLadder ----------------------------
(* Three parts of the sky, two covered by a tile of their own and both by a  *)
(* wide index, one by none; two cameras; six scales, of which a warm band    *)
(* spans five.  The timeout runs out in the third guess band, and in the     *)
(* wide band if it is searched after a guess that took all its slice.        *)
EXTENDS SolveLadder

CONSTANTS orion, lyra, crux, main, guider

MCFields == {orion, lyra, crux}
MCShapes == {main, guider}
MCWide == <<1, 6>>
MCDefault == <<<<2, 4>>>>
MCEfforts == {0, 1, 5}
MCHints == {<<>>, <<<<2, 5>>>>, <<<<5, 6>>>>}
\* The index files scripts/download_indexes.sh fetches: the tiles of one
\* series share its id.
MCIndexes == <<[id |-> 4204, tile |-> {orion}],
               [id |-> 4204, tile |-> {lyra}],
               [id |-> 4110, tile |-> {orion, lyra}]>>
=============================================================================
