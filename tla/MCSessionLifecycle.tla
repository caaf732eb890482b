------------------------- MODULE MCSessionLifecycle -------------------------
(* Model values and symmetry for the runs of SessionLifecycle. *)
EXTENDS SessionLifecycle, TLC

CONSTANTS r1, r2, s1, s2, w1, alice, bob

Symmetry == Permutations(Requests) \cup Permutations(Sessions \ Legacy)
              \cup Permutations(Operators)
=============================================================================
