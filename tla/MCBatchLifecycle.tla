-------------------------- MODULE MCBatchLifecycle --------------------------
(* BatchLifecycle on small instances. *)
EXTENDS BatchLifecycle, TLC

\* Codes and sessions are interchangeable; batches are ordered by their ids.
Symmetry == Permutations(Code) \cup Permutations(Session)
=============================================================================
