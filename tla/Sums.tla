-------------------------------- MODULE Sums --------------------------------
(* The one fold that the calculations share.                                    *)
EXTENDS Integers, Functions

\* The sum of what a function over a finite set gives.
SumOf(f) == FoldFunction(+, 0, f)
=============================================================================
