-------------------------------- MODULE Sums --------------------------------
(* The sum of an integer-valued function over a finite set of arguments.    *)
EXTENDS Integers, FiniteSets, FiniteSetsExt

SumOf(f, S) == MapThenSumSet(LAMBDA x : f[x], S)
=============================================================================
