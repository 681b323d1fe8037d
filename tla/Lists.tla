-------------------------------- MODULE Lists --------------------------------
(***************************************************************************)
(* Two operations of the standard library on lists: Vec::retain, what is   *)
(* left when only the elements at some places stay, and Iterator::sum.     *)
(***************************************************************************)
EXTENDS Integers, Sequences

\* What is left of the first n elements, by n.
Kept(seq, places) ==
  LET kept[n \in 0 .. Len(seq)] ==
        IF n = 0 THEN <<>>
        ELSE IF n \in places THEN Append(kept[n - 1], seq[n]) ELSE kept[n - 1]
  IN kept

Retain(seq, places) == Kept(seq, places)[Len(seq)]

\* The sum of the first i of n numbers, by i.
RunningSum(f, n) ==
  LET sum[i \in 0 .. n] == IF i = 0 THEN 0 ELSE sum[i - 1] + f[i]
  IN sum
==============================================================================
