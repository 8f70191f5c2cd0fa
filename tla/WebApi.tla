------------------------------- MODULE WebApi -------------------------------
(***************************************************************************)
(* What the pages of the web interface say to the server and what they get *)
(* back (web/src/lib/api.ts), next to what the server demands of a caller  *)
(* (internal/api/routes.go, internal/auth/auth.go).  A call is named by    *)
(* its place in the client, an answer by the facts of the directory it     *)
(* shows: an account, the part of its entry no list shows, who belongs to  *)
(* which group, a group, a sudo rule, a netgroup, a policy, or something   *)
(* no page writes.                                                         *)
(***************************************************************************)
EXTENDS SequencesExt

(***************************************************************************)
(* Sign-in gives one of two roles, and the role its permissions.           *)
(***************************************************************************)
ReadOnly == {"users:read", "groups:read", "schema:read"}

Administrator ==
  {"users:read", "users:write", "users:delete",
   "groups:read", "groups:write", "groups:delete",
   "audit:read", "schema:read", "schema:write", "settings:read", "settings:write"}

Permissions(role) == IF role = "admin" THEN Administrator ELSE ReadOnly

(***************************************************************************)
(* The client: one set of calls per section of the API object.  An update  *)
(* of an account is named by what it carries where that matters: the       *)
(* policy alone, or the date of the shadow expiry.                         *)
(***************************************************************************)
usersReads == {"users.list", "users.get", "users.getGroups", "users.getSudoRoles",
               "users.getNetgroups"}

usersWrites == {"users.create", "users.update", "users.setPolicy",
                "users.import", "users.changePosixIds", "users.changeUid", "users.lock",
                "users.unlock", "users.setExpiration", "users.clearExpiration",
                "users.changePassword", "users.removePassword", "users.addSSHKey", "users.removeSSHKey", "users.sendPasswordReset",
                "users.updateSamba", "users.updateShadow", "users.updateShadowExpire"}

groupsReads == {"groups.list", "groups.get", "groups.members", "groups.getSudoRoles"}

groupsWrites == {"groups.create", "groups.update", "groups.import", "groups.changeCn",
                 "groups.addMember", "groups.removeMember", "groups.updateSamba"}

netgroupsReads == {"netgroups.list", "netgroups.get", "netgroups.expand",
                   "netgroups.getSudoRoles"}

netgroupsWrites == {"netgroups.create", "netgroups.import", "netgroups.update"}

sudoRolesReads == {"sudoRoles.list", "sudoRoles.get"}

sudoRolesWrites == {"sudoRoles.create", "sudoRoles.update", "sudoRoles.addUser",
                    "sudoRoles.removeUser"}

sudoGroupGrants == {"sudoRoles.addGroup", "sudoRoles.removeGroup"}

policiesReads == {"passwordPolicies.list", "passwordPolicies.get"}

policiesWrites == {"passwordPolicies.create", "passwordPolicies.update",
                   "passwordPolicies.delete"}

auditReads == {"auditLogs.list", "auditLogs.actors", "directoryChanges.list"}

adminReads == {"admin.getConfig", "tasks.getConfig", "tasks.getRuns", "tasks.getHealth"}

adminWrites == {"admin.policySelfTest", "admin.export", "tasks.trigger"}

(***************************************************************************)
(* The server: the permission each route demands.  The calls left over ask *)
(* for a session and no permission.                                        *)
(***************************************************************************)
Demand(call) ==
  CASE call \in usersReads \cup sudoRolesReads \cup {"overview.get"} -> {"users:read"}
    [] call \in usersWrites \cup sudoRolesWrites \cup {"nextIds.get"} -> {"users:write"}
    [] call \in {"users.delete", "sudoRoles.delete"} -> {"users:delete"}
    [] call \in groupsReads \cup netgroupsReads -> {"groups:read"}
    [] call \in groupsWrites \cup netgroupsWrites \cup sudoGroupGrants -> {"groups:write"}
    [] call \in {"groups.delete", "netgroups.delete"} -> {"groups:delete"}
    [] call \in policiesReads \cup adminReads -> {"settings:read"}
    [] call \in policiesWrites \cup adminWrites -> {"settings:write"}
    [] call \in auditReads -> {"audit:read"}
    [] OTHER -> {}

(***************************************************************************)
(* What no administrator may do to their own account.  Clearing an         *)
(* expiration is let through; an update of the shadow attributes is        *)
(* refused when it carries shadowExpire, which the form sends only when it *)
(* was edited.                                                             *)
(***************************************************************************)
RefusedOnSelf ==
  {"users.changeUid", "users.delete", "users.lock", "users.setExpiration",
   "users.removePassword", "users.updateShadowExpire"}

Accepts(role, self, call) ==
  /\ Demand(call) \subseteq Permissions(role)
  /\ ~(self /\ call \in RefusedOnSelf)

(***************************************************************************)
(* What an answer shows.                                                   *)
(***************************************************************************)
UserSchema == {"account", "entry"}
UserListItemSchema == {"account", "membership"}
GroupSchema == {"group", "membership"}
GroupListItemSchema == {"group", "membership"}
GroupMemberSchema == {"membership", "account"}
OverviewSchema == {"account", "group", "rule", "policy"}
SudoRoleSchema == {"rule"}
SudoRoleGrantSchema == {"rule", "membership", "netgroup"}
UserNetgroupsResponseSchema == {"netgroup"}
NetgroupSchema == {"netgroup"}
NetgroupExpansionSchema == {"netgroup"}
PasswordPolicySchema == {"policy"}

Shows(call) ==
  CASE call = "users.get" -> UserSchema
    [] call = "users.list" -> UserListItemSchema
    [] call \in {"users.getGroups", "groups.get"} -> GroupSchema
    [] call = "groups.list" -> GroupListItemSchema
    [] call = "groups.members" -> GroupMemberSchema
    [] call = "overview.get" -> OverviewSchema
    [] call = "users.getSudoRoles" -> SudoRoleGrantSchema
    [] call \in sudoRolesReads \cup {"groups.getSudoRoles", "netgroups.getSudoRoles"} ->
         SudoRoleSchema
    [] call = "users.getNetgroups" -> UserNetgroupsResponseSchema
    [] call = "netgroups.expand" -> NetgroupExpansionSchema
    [] call \in {"netgroups.list", "netgroups.get"} -> NetgroupSchema
    [] call \in policiesReads -> PasswordPolicySchema
    [] OTHER -> {}

(***************************************************************************)
(* What a call that succeeds may change in the directory.                  *)
(***************************************************************************)
AccountWrites(call) ==
  CASE call \in {"users.delete", "users.changeUid"} ->
         {"account", "membership", "rule", "netgroup"}
    [] call \in {"users.create", "users.import"} -> {"account", "membership", "group"}
    [] call = "users.sendPasswordReset" -> {}
    [] call \in {"users.setPolicy", "users.changePassword", "users.removePassword",
                 "users.addSSHKey", "users.removeSSHKey", "users.updateSamba",
                 "users.updateShadow", "users.updateShadowExpire"} -> {"entry"}
    [] call = "users.update" -> {"account", "entry"}
    [] OTHER -> {"account"}

GroupWrites(call) ==
  CASE call \in {"groups.addMember", "groups.removeMember"} -> {"membership"}
    [] call = "groups.changeCn" -> {"group", "rule"}
    [] call \in {"groups.create", "groups.import", "groups.delete"} ->
         {"group", "membership"}
    [] OTHER -> {"group"}

Changes(call) ==
  CASE call \in usersWrites \cup {"users.delete"} -> AccountWrites(call)
    [] call \in groupsWrites \cup {"groups.delete"} -> GroupWrites(call)
    [] call \in sudoRolesWrites \cup sudoGroupGrants \cup {"sudoRoles.delete"} -> {"rule"}
    [] call \in netgroupsWrites \cup {"netgroups.delete"} -> {"netgroup"}
    [] call \in policiesWrites -> {"policy"}
    [] OTHER -> {}

(***************************************************************************)
(* Invalidating a key reaches every query whose key it begins.             *)
(***************************************************************************)
Reaches(prefixes, key) == \E p \in prefixes : IsPrefix(p, key)
=============================================================================
