-------------------------- MODULE MCFetchThrough --------------------------
(* Model values for the run of FetchThrough. *)
EXTENDS FetchThrough, TLC

CONSTANTS r1, r2, w1, k1, k2

\* 0.5 s after the first failure, 1.0 s after the second.
MCBackoff(n) == n

Symmetry == Permutations(Readers) \cup Permutations(Feeds)
=============================================================================
