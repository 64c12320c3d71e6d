---------------------------- MODULE MCRateLimit ----------------------------
(* RateLimit on small instances. *)
EXTENDS RateLimit, TLC

\* Requests are interchangeable.
Symmetry == Permutations(Request)
=============================================================================
