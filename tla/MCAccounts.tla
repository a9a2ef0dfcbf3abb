---------------------------- MODULE MCAccounts ----------------------------
(***************************************************************************)
(* Instances of Accounts for TLC.  All constants but Ops are               *)
(* interchangeable.                                                        *)
(***************************************************************************)
EXTENDS Accounts, TLC

Symmetry ==
  Permutations(Emails) \cup Permutations(Passwords) \cup Permutations(Browsers)
    \cup Permutations(Tokens) \cup Permutations(Identities)
    \cup Permutations(Requests)
=============================================================================
