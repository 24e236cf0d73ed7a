---------------------------- MODULE MCApiServer ----------------------------
(* ApiServer with more requests than the pool has connections. *)
EXTENDS ApiServer, TLC

CONSTANTS r1, r2, r3

Symmetry == Permutations(Requests)
=============================================================================
