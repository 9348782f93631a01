-------------------------------- MODULE Sums --------------------------------
(* Sums of the values of a function; their laws are in Sums_proofs. *)
EXTENDS Integers, FiniteSetsExt

SumOf(f, S) == MapThenSumSet(LAMBDA x : f[x], S)
=============================================================================
