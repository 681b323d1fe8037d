---------------------------- MODULE MCAnswerFiles ----------------------------
(* Three jobs; charts and previews are small, a FITS is as large as the     *)
(* image: together three small files fill the budget, two images exceed it, *)
(* and so does the largest image alone.                                     *)
EXTENDS AnswerFiles

CONSTANTS a, b, c

MCJobs == {a, b, c}
MCWant == [j \in MCJobs |->
  CASE j = a -> Kinds [] j = b -> {"fits", "preview"} [] j = c -> {"fits"}]
MCSizes == [k \in Kinds |-> IF k = "fits" THEN {1, 2, 4} ELSE {1}]
=============================================================================
