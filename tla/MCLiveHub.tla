---------------------------- MODULE MCLiveHub ----------------------------
(* Model values for the runs of LiveHub. *)
EXTENDS LiveHub

CONSTANTS c1, c2, s1, s2
=============================================================================
