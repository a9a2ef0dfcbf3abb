----------------------------- MODULE MCRowLocks -----------------------------
(***************************************************************************)
(* Instances of RowLocks for TLC.                                          *)
(***************************************************************************)
EXTENDS RowLocks, TLC

\* One organization with all the users; any of them are in its projects.
Populated ==
  {{Org} \cup Promise!OrgMembers \cup Promise!OrgProjects \cup ms :
     ms \in SUBSET Promise!ProjectMembers}
=============================================================================
