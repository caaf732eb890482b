---------------------------- MODULE MCIngestion ----------------------------
(* Model values for the runs of Ingestion. *)
EXTENDS Ingestion

CONSTANTS f1, f2, p1
=============================================================================
