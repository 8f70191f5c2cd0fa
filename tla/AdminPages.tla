----------------------------- MODULE AdminPages -----------------------------
(***************************************************************************)
(* What surrounds the sections (web/src/routes/index.tsx, admin.tsx,       *)
(* audit-logs.tsx and __root.tsx, components/command-palette.tsx and       *)
(* directory-changes.tsx, lib/sections.ts), described as in UserPage, and  *)
(* the links of the bar and the palette next to the guards of the pages    *)
(* they lead to.                                                           *)
(***************************************************************************)
EXTENDS ListPages

(***************************************************************************)
(* Dashboard: three panels, two of them for those who may read them.       *)
(***************************************************************************)
overviewReads(v) == {Read(<<"overview">>, "overview.get")}
recentAuditReads(v) ==
  IF May(v, "audit:read") THEN {Read(<<"audit-logs", "recent">>, "auditLogs.list")} ELSE {}
taskHealthReads(v) ==
  IF May(v, "settings:read")
  THEN {Read(<<"admin", "scheduled-tasks", "health">>, "tasks.getHealth")} ELSE {}

(***************************************************************************)
(* Administration.  Triggering a task reads its runs again by name;        *)
(* nothing else changes.                                                   *)
(***************************************************************************)
AdminEnters(v) == v.role = "admin"

adminPageReads(v) ==
  IF AdminEnters(v) /\ May(v, "settings:read")
  THEN {Read(<<"admin", "config">>, "admin.getConfig"),
        Read(<<"admin", "scheduled-tasks", "config">>, "tasks.getConfig"),
        Read(<<"admin", "scheduled-tasks", "runs">>, "tasks.getRuns")}
  ELSE {}

triggerTask ==
  Telling(Op("tasks.trigger", {<<"admin", "scheduled-tasks", "runs">>}, "stay"))
policySelfTest == Op("admin.policySelfTest", {<<"admin", "config">>}, "stay")
exportDirectory == Op("admin.export", {}, "stay")

TasksCard(v) == IF AdminEnters(v) THEN {triggerTask} ELSE {}
DirectoryExportCard(v) == IF AdminEnters(v) THEN {exportDirectory} ELSE {}
DirectoryEnforcementCard(v) == IF AdminEnters(v) THEN {policySelfTest} ELSE {}

(***************************************************************************)
(* The two logs.                                                           *)
(***************************************************************************)
AuditEnters(v) == May(v, "audit:read")

auditReadsOf(v) ==
  IF AuditEnters(v)
  THEN {Read(<<"audit-logs", "page">>, "auditLogs.list"),
        Read(<<"audit-logs", "actors">>, "auditLogs.actors")} ELSE {}

directoryChangesReads(v) ==
  IF AuditEnters(v) THEN {Read(<<"directory-changes">>, "directoryChanges.list")} ELSE {}

(***************************************************************************)
(* One's own password, in a dialog any page can open.                      *)
(***************************************************************************)
changeOwnPassword == Op("auth.changePassword", {}, "stay")
PasswordDialog(v) == {changeOwnPassword}

AdminOffers(v) ==
  UNION {TasksCard(v), DirectoryExportCard(v), DirectoryEnforcementCard(v),
         PasswordDialog(v)}

(***************************************************************************)
(* Links.  A section is listed where its module is on and its list may be  *)
(* read; its form and its import where they may be used.                   *)
(***************************************************************************)
Module(v, name) == name \in {"users", "groups"} \/ name \in v.server

Section(v, name, reads, writes, import) ==
  IF ~Module(v, name) \/ ~May(v, reads) THEN {}
  ELSE {<<name>>} \cup (IF May(v, writes) THEN {<<name, "new">>} ELSE {})
       \cup (IF May(v, writes) /\ import THEN {<<name, "import">>} ELSE {})

Sections(v) ==
  (UNION {Section(v, "users", "users:read", "users:write", TRUE),
          Section(v, "groups", "groups:read", "groups:write", TRUE),
          Section(v, "sudo", "users:read", "users:write", FALSE),
          Section(v, "netgroups", "groups:read", "groups:write", TRUE),
          Section(v, "policies", "settings:read", "settings:write", FALSE)})
  \cup (IF May(v, "audit:read") THEN {<<"audit">>} ELSE {})

(***************************************************************************)
(* The palette goes where the bar goes, to the dashboard and, for an       *)
(* administrator, to the administration page.                              *)
(***************************************************************************)
PaletteLinks(v) ==
  {<<"dashboard">>} \cup Sections(v) \cup (IF v.role = "admin" THEN {<<"admin">>} ELSE {})

(***************************************************************************)
(* It searches the sections listed, under the keys of their lists.         *)
(***************************************************************************)
paletteReads(v) ==
  {r \in {Read(<<"users", "palette">>, "users.list"),
          Read(<<"groups", "palette">>, "groups.list"),
          Read(<<"netgroups", "palette">>, "netgroups.list"),
          Read(<<"sudo-roles", "palette">>, "sudoRoles.list"),
          Read(<<"password-policies", "palette">>, "passwordPolicies.list")} :
     LET section == CASE r.key[1] = "sudo-roles" -> "sudo"
                      [] r.key[1] = "password-policies" -> "policies"
                      [] OTHER -> r.key[1]
     IN <<section>> \in Sections(v)}

(***************************************************************************)
(* The guard of each page: signed in, the module on, and the permission    *)
(* the page asks for; the lists of the other sections ask for none.        *)
(***************************************************************************)
requireModule(v, page) == page[1] \in {"dashboard", "admin", "audit"} \/ Module(v, page[1])

beforeLoad(v, page) ==
  /\ requireModule(v, page)
  /\ CASE page = <<"admin">> -> AdminEnters(v)
       [] page = <<"audit">> -> AuditEnters(v)
       [] page = <<"policies">> -> PolicyEnters(v)
       [] page = <<"policies", "new">> -> May(v, "settings:write")
       [] page \in {<<"users", "new">>, <<"users", "import">>, <<"sudo", "new">>} ->
            NewUserEnters(v)
       [] page \in {<<"groups", "new">>, <<"groups", "import">>,
                    <<"netgroups", "new">>, <<"netgroups", "import">>} -> NewGroupEnters(v)
       [] OTHER -> TRUE

AdminReads(v) ==
  UNION {overviewReads(v), recentAuditReads(v), taskHealthReads(v), adminPageReads(v),
         auditReadsOf(v), directoryChangesReads(v), paletteReads(v)}
=============================================================================
