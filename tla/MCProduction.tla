---------------------------- MODULE MCProduction ----------------------------
(* Production on a small instance. *)
EXTENDS Production, TLC

\* Ids are numbers handed out in order; only the requests are alike.
Symmetry == Permutations(Sessions)
=============================================================================
