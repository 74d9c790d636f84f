------------------------------------ MODULE Sums ----------------------------
(***************************************************************************)
(* What a loop over a list adds up.                                        *)
(***************************************************************************)
EXTENDS Naturals, Sequences

\* The first i sizes together.
SizesUpTo(sizes, i) ==
  LET sum[j \in 0 .. Len(sizes)] == IF j = 0 THEN 0 ELSE sum[j - 1] + sizes[j]
  IN  sum[i]
=============================================================================
