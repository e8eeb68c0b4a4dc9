---------------------------- MODULE MCQueryCache ----------------------------
(* QueryCache with two threads and one key more than fits.                 *)
EXTENDS QueryCache, TLC

Symmetry == Permutations(Threads) \cup Permutations(Keys)
=============================================================================
