--------------------------- MODULE MCSessionGate ---------------------------
(* Model values for the runs of SessionGate. *)
EXTENDS SessionGate, TLC

CONSTANTS h1, h2, s1, s2
=============================================================================
