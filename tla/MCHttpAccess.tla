---------------------------- MODULE MCHttpAccess ----------------------------
(* Addresses and tokens are interchangeable, and no liveness is checked. *)
EXTENDS HttpAccess, TLC

Symmetry == Permutations(Keys) \cup Permutations(Tokens)
=============================================================================
