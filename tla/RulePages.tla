----------------------------- MODULE RulePages ------------------------------
(***************************************************************************)
(* The pages of one sudo rule, one netgroup and one password policy        *)
(* (web/src/routes/sudo-roles/$dn.tsx, netgroups/$dn.tsx and               *)
(* password-policies/$dn.tsx), described as in UserPage.                   *)
(***************************************************************************)
EXTENDS UserPage

SudoRole == <<"sudo-role">>
SudoRoles == <<"sudo-roles">>
Netgroup == <<"netgroup">>
Netgroups == <<"netgroups">>
Policy == <<"password-policy">>
Policies == <<"password-policies">>

(***************************************************************************)
(* A sudo rule.  The form is saved whole; the rows of its lists are edited *)
(* in the form and call nothing.                                           *)
(***************************************************************************)
sudoRoleReads(v) == {Read(SudoRole, "sudoRoles.get")}
saveSudoRole == Op("sudoRoles.update", {SudoRoles, SudoRole}, "stay")
deleteSudoRole == Op("sudoRoles.delete", {SudoRoles}, "sudo-roles")

SudoRoleActions(v) ==
  (IF May(v, "users:write") THEN {saveSudoRole} ELSE {})
    \cup (IF May(v, "users:delete") THEN {deleteSudoRole} ELSE {})

(***************************************************************************)
(* A netgroup.  What it nests and which rules name it are queries of their *)
(* own, asked once the entry is there; their keys begin with the entry's.  *)
(***************************************************************************)
netgroupReads(v) ==
  {Read(Netgroup, "netgroups.get"),
   Read(<<"netgroup", "expand">>, "netgroups.expand"),
   Read(<<"netgroup", "sudo-roles">>, "netgroups.getSudoRoles")}

saveNetgroup == Op("netgroups.update", {Netgroups, Netgroup}, "stay")
deleteNetgroup == Telling(Op("netgroups.delete", {Netgroups, SudoRoles}, "netgroups"))

NetgroupActions(v) == IF May(v, "groups:write") THEN {saveNetgroup} ELSE {}
NetgroupDangerZone(v) == IF May(v, "groups:delete") THEN {deleteNetgroup} ELSE {}

(***************************************************************************)
(* A password policy.  The page turns away who may not read the settings.  *)
(***************************************************************************)
PolicyEnters(v) == May(v, "settings:read")

policyPageReads(v) == IF PolicyEnters(v) THEN {Read(Policy, "passwordPolicies.get")} ELSE {}
savePolicy == Op("passwordPolicies.update", {Policy, Policies}, "stay")
deletePolicy ==
  Telling(Op("passwordPolicies.delete", {Policies, Users}, "password-policies"))

PolicyActions(v) ==
  IF PolicyEnters(v) /\ May(v, "settings:write") THEN {savePolicy, deletePolicy} ELSE {}

RuleReads(v) == sudoRoleReads(v) \cup netgroupReads(v) \cup policyPageReads(v)

RuleOffers(v) ==
  UNION {SudoRoleActions(v), NetgroupActions(v), NetgroupDangerZone(v), PolicyActions(v)}
=============================================================================
