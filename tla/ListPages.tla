----------------------------- MODULE ListPages ------------------------------
(***************************************************************************)
(* The five lists (web/src/routes/*/index.tsx) with their bulk actions     *)
(* (components/users-bulk-actions.tsx, bulk-delete-actions.tsx): what each *)
(* reads, and what may be done to a row or to the rows selected, described *)
(* as in UserPage.  A bulk action repeats its call for every row and marks *)
(* its keys out of date once, whatever the single calls answered.          *)
(***************************************************************************)
EXTENDS CreatePages

(***************************************************************************)
(* What the lists read.                                                    *)
(***************************************************************************)
usersListReads(v) == {Read(<<"users", "page">>, "users.list")}
groupsListReads(v) == {Read(<<"groups", "page">>, "groups.list")}
sudoRolesListReads(v) ==
  IF "sudo" \in v.server THEN {Read(<<"sudo-roles", "page">>, "sudoRoles.list")} ELSE {}
netgroupsListReads(v) ==
  IF "netgroups" \in v.server THEN {Read(<<"netgroups", "page">>, "netgroups.list")} ELSE {}
policiesListReads(v) ==
  IF "policies" \in v.server /\ PolicyEnters(v)
  THEN {Read(<<"password-policies", "page">>, "passwordPolicies.list")} ELSE {}

ListReads(v) ==
  UNION {usersListReads(v), groupsListReads(v), sudoRolesListReads(v),
         netgroupsListReads(v), policiesListReads(v)}

(***************************************************************************)
(* Bulk actions on accounts.                                               *)
(***************************************************************************)
bulkLock == ForAll(Op("users.lock", {Users}, "stay"))
bulkUnlock == ForAll(Op("users.unlock", {Users}, "stay"))
bulkAddToGroup == ForAll(Op("groups.addMember", {Users, <<"groups">>}, "stay"))
bulkRemoveFromGroup == ForAll(Op("groups.removeMember", {Users, <<"groups">>}, "stay"))
bulkSetExpiration == ForAll(Op("users.setExpiration", {Users}, "stay"))
bulkDeleteUsers ==
  ForAll(Telling(Op("users.delete", {Users, <<"groups">>, SudoRoles}, "stay")))

(***************************************************************************)
(* The bar shows with the first row selected.  Whether one's own account   *)
(* is among the rows is left to the server, which refuses that one call.   *)
(***************************************************************************)
UsersBulkBar(v) ==
  IF ~May(v, "users:write") THEN {}
  ELSE {bulkLock, bulkUnlock, bulkAddToGroup, bulkRemoveFromGroup, bulkSetExpiration}
       \cup (IF May(v, "users:delete") THEN {bulkDeleteUsers} ELSE {})

(***************************************************************************)
(* Bulk deletes elsewhere: only the list itself is read again.             *)
(***************************************************************************)
BulkDelete(call, key) == ForAll(Telling(Op(call, {key}, "stay")))

GroupRows(v) ==
  IF May(v, "groups:delete") THEN {BulkDelete("groups.delete", <<"groups">>)} ELSE {}

NetgroupRows(v) ==
  IF May(v, "groups:delete") THEN {BulkDelete("netgroups.delete", Netgroups)} ELSE {}

rowDeleteSudoRole == Op("sudoRoles.delete", {SudoRoles}, "stay")

SudoRoleRows(v) ==
  IF May(v, "users:delete")
  THEN {BulkDelete("sudoRoles.delete", SudoRoles), rowDeleteSudoRole} ELSE {}

rowDeletePolicy == Op("passwordPolicies.delete", {Policies}, "stay")

PolicyRows(v) ==
  IF PolicyEnters(v) /\ May(v, "settings:write")
  THEN {BulkDelete("passwordPolicies.delete", Policies), rowDeletePolicy} ELSE {}

RowOffers(v) ==
  {rowDeleteSudoRole, rowDeletePolicy} \cap (SudoRoleRows(v) \cup PolicyRows(v))

BulkOffers(v) ==
  UNION {UsersBulkBar(v), GroupRows(v), NetgroupRows(v), SudoRoleRows(v) \ RowOffers(v),
         PolicyRows(v) \ RowOffers(v)}
=============================================================================
