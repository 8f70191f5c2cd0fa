---------------------------- MODULE CreatePages -----------------------------
(***************************************************************************)
(* The pages that create an entry (web/src/routes/*/new.tsx) and those that*)
(* import a file of them (routes/*/import.tsx), described as in UserPage.  *)
(* Each page turns away who may not create.  A creation opens the new      *)
(* entry; an import stays on its report, and marks everything out of date. *)
(***************************************************************************)
EXTENDS RulePages

Everything == <<>>

(***************************************************************************)
(* A new account: ids proposed by the server, a primary group out of the   *)
(* first groups, memberships out of a picker.                              *)
(***************************************************************************)
NewUserEnters(v) == May(v, "users:write")

newUserReads(v) ==
  IF ~NewUserEnters(v) THEN {}
  ELSE {Read(<<"nextIds">>, "nextIds.get"), Read(<<"groups", "options">>, "groups.list"),
        Read(<<"groups", "picker", "new-user">>, "groups.list")}

createUser == Op("users.create", {Users, <<"groups">>}, "user")
importUsers == Op("users.import", {Everything}, "stay")

NewUser(v) == IF NewUserEnters(v) THEN {createUser} ELSE {}
ImportUsers(v) == IF NewUserEnters(v) THEN {importUsers} ELSE {}

(***************************************************************************)
(* A new group, a new netgroup.                                            *)
(***************************************************************************)
NewGroupEnters(v) == May(v, "groups:write")

newGroupReads(v) == IF NewGroupEnters(v) THEN {Read(<<"nextIds">>, "nextIds.get")} ELSE {}
createGroup == Op("groups.create", {<<"groups">>}, "group")
importGroups == Op("groups.import", {Everything}, "stay")
NewGroup(v) == IF NewGroupEnters(v) THEN {createGroup} ELSE {}
ImportGroups(v) == IF NewGroupEnters(v) THEN {importGroups} ELSE {}

createNetgroup == Op("netgroups.create", {Netgroups}, "netgroup")
importNetgroups == Op("netgroups.import", {Everything}, "stay")
NewNetgroup(v) == IF May(v, "groups:write") THEN {createNetgroup} ELSE {}
ImportNetgroups(v) == IF May(v, "groups:write") THEN {importNetgroups} ELSE {}

(***************************************************************************)
(* A new sudo rule, a new policy.                                          *)
(***************************************************************************)
createSudoRole == Op("sudoRoles.create", {SudoRoles}, "sudo-role")
NewSudoRole(v) == IF May(v, "users:write") THEN {createSudoRole} ELSE {}

createPolicy == Op("passwordPolicies.create", {Policies}, "password-policy")
NewPolicy(v) == IF May(v, "settings:write") THEN {createPolicy} ELSE {}

CreateReads(v) == newUserReads(v) \cup newGroupReads(v)

CreateOffers(v) ==
  UNION {NewUser(v), ImportUsers(v), NewGroup(v), ImportGroups(v), NewNetgroup(v),
         ImportNetgroups(v), NewSudoRole(v), NewPolicy(v)}
=============================================================================
