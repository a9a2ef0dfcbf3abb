--------------------------- MODULE MCCachedViews ---------------------------
(***************************************************************************)
(* Instances of CachedViews for TLC.                                       *)
(***************************************************************************)
EXTENDS CachedViews, TLC

NoKeys == {}

Symmetry == Permutations(Readers)
=============================================================================
