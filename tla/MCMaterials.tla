----------------------------- MODULE MCMaterials -----------------------------
(* Raw materials on a small instance. *)
EXTENDS Materials, TLC

Symmetry == Permutations(Sessions) \cup Permutations(Inbounds) \cup Permutations(Movements)
            \cup Permutations(Stocktakes)
=============================================================================
