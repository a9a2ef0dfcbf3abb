--------------------------- MODULE MCRateLimiter ---------------------------
(***************************************************************************)
(* An instance of RateLimiter for TLC.                                     *)
(***************************************************************************)
EXTENDS RateLimiter, TLC

Symmetry == Permutations(Clients)
=============================================================================
