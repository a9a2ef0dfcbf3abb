----------------------------- MODULE MCTenancy -----------------------------
(***************************************************************************)
(* Instances of Tenancy for TLC.  Users, projects, slugs, names and the    *)
(* requests in flight are interchangeable in the safety runs.              *)
(***************************************************************************)
EXTENDS Tenancy, TLC

Symmetry ==
  Permutations(Users) \cup Permutations(Orgs) \cup Permutations(Projects)
    \cup Permutations(Slugs) \cup Permutations(Names)
    \cup Permutations(Requests)
=============================================================================
