----------------------------- MODULE MCBatchCache -----------------------------
(* BatchCache on small instances. *)
EXTENDS BatchCache, TLC

\* Sessions and shifts are interchangeable.
Symmetry == Permutations(Session) \cup Permutations(Shift)
=============================================================================
