-------------------------- MODULE MCBatchCreation --------------------------
(* BatchCreation on small instances, of which none uses symmetry: one run      *)
(* checks liveness, and the other ends soon.                                   *)
EXTENDS BatchCreation
=============================================================================
