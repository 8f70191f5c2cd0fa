------------------------------ MODULE UserPage ------------------------------
(***************************************************************************)
(* The page of one account (web/src/routes/users/$dn.tsx) with the cards   *)
(* it shares with other pages: what it reads, what each card lets the      *)
(* viewer do, and what an operation that succeeded marks out of date, says *)
(* and opens.                                                              *)
(*                                                                         *)
(* A viewer v is                                                           *)
(*   role    "admin" or "readonly"                                         *)
(*   self    the account shown is the viewer's own                         *)
(*   entry   what the cached entry holds, out of "lock", "password",       *)
(*           "mail", "expiry" (still ahead), "direct" (the rule names the  *)
(*           account itself)                                               *)
(*   server  what the deployment has, out of "sudo", "netgroups",          *)
(*           "policies" and "expiry"                                       *)
(***************************************************************************)
EXTENDS WebApi

May(v, permission) == permission \in Permissions(v.role)

(***************************************************************************)
(* An operation: the call it makes, the keys its success marks out of      *)
(* date, the page it goes to, whether it tells the leftovers, and how it   *)
(* repeats the call for several selected entries: not at all, in a chain   *)
(* that stops at the first failure, or for all whatever fails.             *)
(***************************************************************************)
Op(call, refreshes, goes) ==
  [call |-> call, refreshes |-> refreshes, goes |-> goes, tells |-> FALSE,
   repeats |-> "once"]

Telling(op) == [op EXCEPT !.tells = TRUE]

InChain(op) == [op EXCEPT !.repeats = "chain"]
ForAll(op) == [op EXCEPT !.repeats = "all"]

User == <<"user">>
Users == <<"users">>

(***************************************************************************)
(* What the page reads: the entry and its groups at once, the rest with    *)
(* the tab or the dialog that shows it.                                    *)
(***************************************************************************)
Read(key, call) == [key |-> key, call |-> call]

pageReads(v) == {Read(User, "users.get"), Read(<<"user", "groups">>, "users.getGroups")}

pickerReads(v) ==
  {Read(<<"groups", "picker">>, "groups.list"), Read(<<"users", "picker">>, "users.list")}

sudoTabReads(v) ==
  IF "sudo" \notin v.server THEN {}
  ELSE {Read(<<"user", "sudo-roles">>, "users.getSudoRoles"),
        Read(<<"sudo-roles", "picker">>, "sudoRoles.list")}
       \cup (IF "netgroups" \in v.server
             THEN {Read(<<"user", "netgroups">>, "users.getNetgroups")} ELSE {})

(***************************************************************************)
(* The security tab lists the policies wherever the module is on, whatever *)
(* the viewer may read.                                                    *)
(***************************************************************************)
policyReads(v) ==
  IF "policies" \in v.server
  THEN {Read(<<"password-policies", "options">>, "passwordPolicies.list")} ELSE {}

UserReads(v) == pageReads(v) \cup pickerReads(v) \cup sudoTabReads(v) \cup policyReads(v)

(***************************************************************************)
(* Identity tab.                                                           *)
(***************************************************************************)
addToGroup == InChain(Op("groups.addMember", {<<"user", "groups">>, <<"groups">>}, "stay"))
\* Mutant: the groups of the account are not read again.
RemoveFromGroupQuietly == Op("groups.removeMember", {<<"groups">>}, "stay")
removeFromGroup == Op("groups.removeMember", {<<"user", "groups">>, <<"groups">>}, "stay")
saveIdentity == Op("users.update", {Users, User}, "stay")

PersonalInformation(v) == IF May(v, "users:write") THEN {saveIdentity} ELSE {}

GroupMemberships(v) ==
  IF May(v, "users:write") THEN {addToGroup, removeFromGroup} ELSE {}

(***************************************************************************)
(* POSIX tab, with the card that changes the ids.                          *)
(***************************************************************************)
savePosix == Op("users.update", {Users, User}, "stay")
changePosixIds == Telling(Op("users.changePosixIds", {User, Users}, "stay"))

PosixIdsChange(v) == {changePosixIds}

PosixTab(v) ==
  IF May(v, "users:write") THEN {savePosix} \cup PosixIdsChange(v) ELSE {}

(***************************************************************************)
(* SSH keys, Samba and shadow attributes.  On one's own account the date   *)
(* of the shadow expiry cannot be edited, so it is never sent.             *)
(***************************************************************************)
addKey == Op("users.addSSHKey", {User}, "stay")
removeKey == Op("users.removeSSHKey", {User}, "stay")
saveSamba == Op("users.updateSamba", {Users, User}, "stay")
saveShadow == Op("users.updateShadow", {Users, User}, "stay")
saveShadowExpire == Op("users.updateShadowExpire", {Users, User}, "stay")

SSHKeysCard(v) == IF May(v, "users:write") THEN {addKey, removeKey} ELSE {}

SambaNotEnabled(v) == IF May(v, "users:write") THEN {saveSamba} ELSE {}
SambaCard(v) == IF May(v, "users:write") THEN {saveSamba} ELSE {}

ShadowNotEnabled(v) == IF May(v, "users:write") THEN {saveShadow} ELSE {}
ShadowCard(v) ==
  IF ~May(v, "users:write") THEN {}
  ELSE {saveShadow} \cup (IF v.self THEN {} ELSE {saveShadowExpire})

(***************************************************************************)
(* Sudo tab.  A rule that reaches the account through a group, a netgroup  *)
(* or ALL cannot be taken away here.                                       *)
(***************************************************************************)
addToRole == Op("sudoRoles.addUser", {<<"user", "sudo-roles">>, <<"sudo-roles">>}, "stay")
removeFromRole ==
  Op("sudoRoles.removeUser", {<<"user", "sudo-roles">>, <<"sudo-roles">>}, "stay")

SudoCard(v) ==
  IF "sudo" \in v.server /\ May(v, "users:write")
  THEN {addToRole} \cup (IF "direct" \in v.entry THEN {removeFromRole} ELSE {})
  ELSE {}

(***************************************************************************)
(* Security tab.                                                           *)
(***************************************************************************)
changeUid == Telling(Op("users.changeUid", {Users}, "user"))
updatePolicy == Op("users.setPolicy", {User}, "stay")
removePassword == Op("users.removePassword", {User}, "stay")
changePassword == Op("users.changePassword", {}, "stay")
lock == Op("users.lock", {User, Users}, "stay")
unlock == Op("users.unlock", {User, Users}, "stay")
setExpiration == Op("users.setExpiration", {User, Users}, "stay")
clearExpiration == Op("users.clearExpiration", {User, Users}, "stay")
deleteUser ==
  Telling(Op("users.delete", {Users, <<"groups">>, <<"sudo-roles">>}, "users"))
sendPasswordReset == Op("users.sendPasswordReset", {}, "stay")

PasswordCard(v) ==
  IF ~May(v, "users:write") THEN {}
  ELSE {changePassword}
       \cup (IF v.self \/ "password" \notin v.entry THEN {} ELSE {removePassword})

ResetEmailCard(v) ==
  IF May(v, "users:write") /\ "mail" \in v.entry THEN {sendPasswordReset} ELSE {}

\* Mutant: locking is offered to everyone who may write, oneself included.
StatusCardForAll(v) ==
  IF ~May(v, "users:write") THEN {}
  ELSE IF "lock" \in v.entry THEN {unlock} ELSE {lock}

StatusCard(v) ==
  IF ~May(v, "users:write") \/ (v.self /\ "lock" \notin v.entry) THEN {}
  ELSE IF "lock" \in v.entry THEN {unlock} ELSE {lock}

ExpirationCard(v) ==
  IF ~May(v, "users:write") \/ "expiry" \notin v.server THEN {}
  ELSE IF ~v.self THEN {setExpiration, clearExpiration}
  ELSE IF "expiry" \in v.entry THEN {clearExpiration} ELSE {}

PolicyCard(v) ==
  IF "policies" \in v.server /\ May(v, "users:write") THEN {updatePolicy} ELSE {}

UsernameCard(v) == IF May(v, "users:write") /\ ~v.self THEN {changeUid} ELSE {}

DangerZone(v) == IF May(v, "users:delete") /\ ~v.self THEN {deleteUser} ELSE {}

UserOffers(v) ==
  UNION {PersonalInformation(v), GroupMemberships(v), PosixTab(v), SSHKeysCard(v),
         SambaNotEnabled(v), SambaCard(v), ShadowNotEnabled(v), ShadowCard(v),
         SudoCard(v), PasswordCard(v), ResetEmailCard(v), StatusCard(v),
         ExpirationCard(v), PolicyCard(v), UsernameCard(v), DangerZone(v)}
=============================================================================
