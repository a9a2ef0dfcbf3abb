---------------------------- MODULE CachedViews ----------------------------
(***************************************************************************)
(* The cached reads of the API as instances of VersionedCache: the version *)
(* keys each one reads, the keys each mutating handler INCRs, and which    *)
(* handlers change what a view shows.  One user, one organization and one  *)
(* project: version keys of others do not interact.                        *)
(***************************************************************************)
EXTENDS VersionedCache

AllKeys ==
  {"org_id:version", "user_id:version", "global:version",
   "org_id:project_version", "project_id:version"}

\* The order of the GETs.
ReadsOf ==
  [get_membership |-> <<"org_id:version">>,
   list_users     |-> <<"org_id:version">>,
   list_orgs      |-> <<"user_id:version", "global:version">>,
   list_projects  |-> <<"org_id:project_version">>,
   list_members   |-> <<"org_id:version", "project_id:version">>]

\* Mutant: deleting an organization leaves the lists of organizations alone.
OnOrgDeleteOrgOnly == <<"org_id:version">>

OnMemChange        == <<"org_id:version", "user_id:version">>
OnOrgDelete        == <<"global:version", "org_id:version">>
OnProjectChange    == <<"org_id:project_version", "project_id:version">>
OnProjectMemChange == <<"project_id:version">>

\* The order of the INCRs.  register_organization invalidates nothing.
Invalidates ==
  [register_organization |-> <<>>,
   add_member            |-> OnMemChange,
   remove_member         |-> OnMemChange,
   delete_organization   |-> OnOrgDelete,
   create_project        |-> OnProjectChange,
   update_project        |-> OnProjectChange,
   delete_project        |-> OnProjectChange,
   add_project_member    |-> OnProjectMemChange,
   remove_project_member |-> OnProjectMemChange]

InvalidatesOfWrites == [w \in Writes |-> Invalidates[w]]

\* The handlers whose COMMIT changes what the SELECT of a view returns.
ChangedBy ==
  [get_membership |-> {"add_member", "remove_member", "delete_organization"},
   list_users     |-> {"add_member", "remove_member", "delete_organization"},
   list_orgs      |-> {"register_organization", "add_member", "remove_member",
                       "delete_organization"},
   list_projects  |-> {"create_project", "update_project", "delete_project",
                       "delete_organization"},
   list_members   |-> {"add_project_member", "remove_project_member",
                       "remove_member", "delete_project",
                       "delete_organization"}]

\* ... and the pairs among them for which no INCR reaches the view: the list
\* of organizations of a user who registers one, and the list of projects of
\* a deleted organization, for which get_membership lets nobody through.
Uninvalidated ==
  [get_membership |-> {},
   list_users     |-> {},
   list_orgs      |-> {"register_organization"},
   list_projects  |-> {"delete_organization"},
   list_members   |-> {}]

ReadsOfMembers == ReadsOf["list_members"]
ReadsOfOrgs    == ReadsOf["list_orgs"]
ReadsOfUsers   == ReadsOf["list_users"]
=============================================================================
