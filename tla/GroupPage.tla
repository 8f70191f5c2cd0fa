----------------------------- MODULE GroupPage -----------------------------
(***************************************************************************)
(* The page of one group (web/src/routes/groups/$dn.tsx) and the card that *)
(* renames it (components/group-rename.tsx), described as in UserPage.     *)
(***************************************************************************)
EXTENDS UserPage

Group == <<"group">>
Groups == <<"groups">>

(***************************************************************************)
(* The page reads the group and its members at once.  The members are a    *)
(* query of their own whose key begins with the group's, so whatever marks *)
(* the group out of date marks them too.                                   *)
(***************************************************************************)
groupReads(v) ==
  {Read(Group, "groups.get"), Read(<<"group", "members">>, "groups.members")}

memberPicker(v) == {Read(<<"users", "picker">>, "users.list")}

groupSudoReads(v) ==
  IF "sudo" \notin v.server THEN {}
  ELSE {Read(<<"group", "sudo-roles">>, "groups.getSudoRoles"),
        Read(<<"sudo-roles", "picker">>, "sudoRoles.list")}

GroupReads(v) == groupReads(v) \cup memberPicker(v) \cup groupSudoReads(v)

saveDescription == Op("groups.update", {Groups, Group}, "stay")
addMember == Op("groups.addMember", {Group}, "stay")
removeMember == Op("groups.removeMember", {Group}, "stay")
deleteGroup == Telling(Op("groups.delete", {Groups, <<"sudo-roles">>}, "groups"))
renameGroup == Telling(Op("groups.changeCn", {Groups}, "group"))
saveGroupSamba == Op("groups.updateSamba", {Groups, Group}, "stay")
addGroupToRole ==
  Op("sudoRoles.addGroup", {<<"group", "sudo-roles">>, <<"sudo-roles">>}, "stay")
removeGroupFromRole ==
  Op("sudoRoles.removeGroup", {<<"group", "sudo-roles">>, <<"sudo-roles">>}, "stay")

InformationTab(v) == IF May(v, "groups:write") THEN {saveDescription} ELSE {}

GroupRenameCard(v) == IF May(v, "groups:write") THEN {renameGroup} ELSE {}

(***************************************************************************)
(* The picker stays open between additions.  Rows without a resolved name  *)
(* are the uids of the group itself until the members arrive.              *)
(***************************************************************************)
AddMemberDialog(v) == IF May(v, "groups:write") THEN {addMember} ELSE {}

MemberRows(v) == IF May(v, "groups:write") THEN {removeMember} ELSE {}

GroupSambaNotEnabled(v) == IF May(v, "groups:write") THEN {saveGroupSamba} ELSE {}
GroupSambaCard(v) == IF May(v, "groups:write") THEN {saveGroupSamba} ELSE {}

AddRoleDialog(v) ==
  IF "sudo" \in v.server /\ May(v, "groups:write") THEN {addGroupToRole} ELSE {}

RoleRows(v) ==
  IF "sudo" \in v.server /\ May(v, "groups:write") THEN {removeGroupFromRole} ELSE {}

GroupDangerZone(v) == IF May(v, "groups:delete") THEN {deleteGroup} ELSE {}

GroupOffers(v) ==
  UNION {InformationTab(v), GroupRenameCard(v), AddMemberDialog(v), MemberRows(v),
         GroupSambaNotEnabled(v), GroupSambaCard(v), AddRoleDialog(v), RoleRows(v),
         GroupDangerZone(v)}
=============================================================================
