------------------------------ MODULE MCLogView ------------------------------
(* A buffer of two lines, and lines of one or two bytes in a file trimmed     *)
(* past two bytes and checked every two: the lines of two runs fill the tab   *)
(* to its worst, splice by splice on a full rebuild, overflow the file,       *)
(* whether it is trimmed, cannot be, or is cut short, let a torn last line    *)
(* meet the next run's, and let the tab fall behind.                          *)
EXTENDS LogView
=============================================================================
