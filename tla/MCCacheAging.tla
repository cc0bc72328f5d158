--------------------------- MODULE MCCacheAging ---------------------------
(***************************************************************************)
(* Values for the constants of CacheAging: one instance serves every       *)
(* request, for the instances meet in Redis only.                          *)
(***************************************************************************)
EXTENDS CacheAging, TLC

CONSTANTS i1

OneHost == [r \in Requests |-> i1]

Symmetry == Permutations(Requests)
=============================================================================
