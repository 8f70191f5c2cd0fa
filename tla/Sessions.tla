------------------------------ MODULE Sessions ------------------------------
(***************************************************************************)
(* Who holds a session, and whether the directory still backs it.          *)
(*                                                                         *)
(* Sign-in (internal/auth), the PostgreSQL session table and the admin     *)
(* handlers of internal/api that take something away from an account: lock,*)
(* delete, rename, password, expiry, membership of the admin group.  Every *)
(* handler writes the directory first and ends the sessions afterwards,    *)
(* with no transaction across the two stores, and a sign-in reads the      *)
(* directory twice before it inserts its row: all of these interleave.     *)
(* The directory also changes under the server: ppolicy locks an account   *)
(* after failed binds, and other programs edit the entries.                *)
(*                                                                         *)
(* A request is a process of several steps (req[r].pc); a step is one call *)
(* to the directory or to the database.  Two fields record history only:   *)
(* "standing" of a session, "overtaken" of a sign-in, and the variable     *)
(* "missed"; no guard reads them.                                          *)
(***************************************************************************)
EXTENDS Naturals, FiniteSets

CONSTANTS
  Users,      \* accounts; a DN and its uid are one value here
  Requests,   \* HTTP requests the server may be running at once
  Tokens,     \* session tokens
  None,       \* "no value"
  Ops,        \* the operations administrators and users call
  Faults,     \* the failures that may happen
  FirstAccounts, \* accounts of the directory when the server first starts
  FirstAdmins    \* members of the admin group then

AllOps == {"lock", "unlock", "delete", "create", "rename", "setPassword",
           "updateUser", "removePassword", "expire", "unexpire",
           "addMember", "removeMember", "updateGroup", "ownPassword",
           "resetPassword"}

\* The failures: the audit insert, a statement on the sessions table (the
\* database, or the request context cancelled by a client that hung up), the
\* answer to a directory write that was applied, the read that follows a
\* write, the uid lookup before a revocation, and the whole process; "outside"
\* is another program that edits the directory.
AllFaults == {"audit", "database", "reply", "reread", "lookup", "crash", "outside"}

ASSUME ConstantsAssumption ==
  /\ Ops \subseteq AllOps
  /\ Faults \subseteq AllFaults
  /\ FirstAccounts \subseteq Users
  /\ FirstAdmins \subseteq Users
  /\ None \notin Users
  /\ None \notin AllOps
  /\ None \notin Tokens

VARIABLES
  flags,      \* flags[u]: what the directory entry of u carries, of Flags
  admins,     \* memberUid of the admin group
  sessions,   \* sessions[t]: the row of token t, or None
  req,        \* req[r]: the request running in slot r
  missed      \* history: accounts whose last due revocation did not happen

vars == <<flags, admins, sessions, req, missed>>

\* "gone": no entry at this DN.  "locked": pwdAccountLockedTime holds the value
\* an administrator's lock writes; "lockedOut": a time ppolicy put there, still
\* in force.  "ending": a pwdEndTime still to come.
Flags == {"gone", "locked", "lockedOut", "noPassword", "ending", "ended"}

\* What an entry can carry.
Entries == {{"gone"}} \cup
  {e \in SUBSET (Flags \ {"gone"}) :
     ~({"locked", "lockedOut"} \subseteq e) /\ ~({"ending", "ended"} \subseteq e)}

\* History: "current" until the account loses something to a request
\* ("revoked") or to anything else ("elsewhere"); "overtaken" from the start
\* when the change came while the sign-in was running.
Standings == {"current", "revoked", "overtaken", "elsewhere"}

Session == [user : Users, role : {"admin", "readonly"},
            standing : Standings]

ASSUME NoneAssumption == None \notin Session

Request == [pc : {"idle", "bind", "role", "insert",
                  "audit", "write", "members", "replace", "revoke"},
            op : AllOps \cup {"login", None},
            token : Tokens \cup {None},     \* the session an own-password change keeps
            target : Users \cup {None},
            to : Users \cup {None},         \* the new DN of a rename
            list : SUBSET Users,            \* the admin group as it was read
            wanted : SUBSET Users,          \* the member list in the body
            todo : SUBSET Users,            \* sessions still to be ended
            role : {"admin", "readonly"},
            overtaken : BOOLEAN]

Idle == [pc |-> "idle", op |-> None, token |-> None, target |-> None, to |-> None,
         list |-> {}, wanted |-> {}, todo |-> {}, role |-> "readonly",
         overtaken |-> FALSE]

TypeOK ==
  /\ flags \in [Users -> SUBSET Flags]
  /\ admins \subseteq Users
  /\ sessions \in [Tokens -> Session \cup {None}]
  /\ req \in [Requests -> Request]
  /\ \A r \in Requests : req[r].pc = "revoke" => req[r].todo # {}
  /\ missed \subseteq Users

Init ==
  /\ flags = [u \in Users |-> IF u \in FirstAccounts THEN {} ELSE {"gone"}]
  /\ admins = FirstAdmins
  /\ sessions = [t \in Tokens |-> None]
  /\ req = [r \in Requests |-> Idle]
  /\ missed = {}

-----------------------------------------------------------------------------
(* The directory: what a bind accepts, and what each write does to an entry. *)

Exists(u) == "gone" \notin flags[u]

\* ppolicy refuses a locked account, whoever locked it, one past pwdEndTime,
\* one with no password.
Accepts(u) == flags[u] \subseteq {"ending"}

\* One attribute holds both kinds of lock.
Locked(u)          == (flags[u] \ {"lockedOut"}) \cup {"locked"}
Unlocked(u)        == flags[u] \ {"locked", "lockedOut"}
LockedOut(u)       == flags[u] \cup {"lockedOut"}
WithPassword(u)    == flags[u] \ {"noPassword"}
WithoutPassword(u) == flags[u] \cup {"noPassword"}
Ending(u, past)    == (flags[u] \ {"ending", "ended"})
                         \cup {IF past THEN "ended" ELSE "ending"}
NotEnding(u)       == flags[u] \ {"ending", "ended"}

Changed(a, b) == (a \ b) \cup (b \ a)

-----------------------------------------------------------------------------
(* Sessions: rows of the table. *)

Live(t) == sessions[t] # None

TokensOf(u) == {t \in Tokens : Live(t) /\ sessions[t].user = u}

DeleteRows(ts) == [t \in Tokens |-> IF t \in ts THEN None ELSE sessions[t]]

\* History: a write that takes something from the accounts us makes every
\* session they hold one that ought to end, but for the one named keep.
MarkRows(us, keep) ==
  [t \in Tokens |->
     IF t # keep /\ Live(t) /\ sessions[t].user \in us
     THEN [sessions[t] EXCEPT !.standing = "revoked"]
     ELSE sessions[t]]

\* A sign-in to one of the accounts us, past the step that would have seen the
\* change: the bind for the entry, the role for the membership.
Overtaken(q, us, passed) == req[q].pc \in passed /\ req[q].target \in us

PastBind == {"role", "insert"}
PastRole == {"insert"}

\* A change of the account u that no request made, and nobody ends a session
\* for; slots are the requests after the step.
ChangedElsewhere(u, passed, slots) ==
  /\ sessions' = [t \in Tokens |->
       IF Live(t) /\ sessions[t].user = u /\ sessions[t].standing = "current"
       THEN [sessions[t] EXCEPT !.standing = "elsewhere"]
       ELSE sessions[t]]
  /\ req' = [q \in Requests |->
       [slots[q] EXCEPT !.overtaken = @ \/ Overtaken(q, {u}, passed)]]

\* A due revocation of u some running handler has yet to carry out.
Pending(u) == \E r \in Requests : u \in req[r].todo

-----------------------------------------------------------------------------
(* Sign-in: AuthService.Login, one step per call it makes. *)

\* A sign-in names an existing account (GetUserByLogin).
BeginLogin(r, u) ==
  /\ req[r] = Idle
  /\ Exists(u)
  /\ req' = [req EXCEPT ![r] = [Idle EXCEPT !.pc = "bind", !.op = "login", !.target = u]]
  /\ UNCHANGED <<flags, admins, sessions, missed>>

\* The bind that reaches the limit of failures: ppolicy locks an account it
\* would have compared the password of.  No handler hears of it.
LockOut(u, slots) ==
  /\ Accepts(u)
  /\ flags' = [flags EXCEPT ![u] = LockedOut(u)]
  /\ ChangedElsewhere(u, PastBind, slots)

\* The bind decides; a wrong password fails it whatever the account, and may
\* be the one too many.
Bind(r) ==
  /\ req[r].pc = "bind"
  /\ \/ /\ Accepts(req[r].target)
        /\ req' = [req EXCEPT ![r].pc = "role"]
        /\ UNCHANGED <<flags, sessions>>
     \/ req' = [req EXCEPT ![r] = Idle] /\ UNCHANGED <<flags, sessions>>
     \/ LockOut(req[r].target, [req EXCEPT ![r] = Idle])
  /\ UNCHANGED <<admins, missed>>

\* The role is read once, here; a failed read leaves the weaker one.
ReadRole(r) ==
  /\ req[r].pc = "role"
  /\ \E role \in {"readonly", IF req[r].target \in admins THEN "admin" ELSE "readonly"} :
       req' = [req EXCEPT ![r].pc = "insert", ![r].role = role]
  /\ UNCHANGED <<flags, admins, sessions, missed>>

\* A new token: none that is live, none that a running request came with.
FreeToken(t) == ~Live(t) /\ \A r \in Requests : req[r].token # t

InsertSession(r) ==
  /\ req[r].pc = "insert"
  /\ \/ \E t \in Tokens :
          /\ FreeToken(t)
          /\ sessions' = [sessions EXCEPT ![t] =
               [user |-> req[r].target, role |-> req[r].role,
                standing |-> IF req[r].overtaken THEN "overtaken" ELSE "current"]]
     \/ "database" \in Faults /\ UNCHANGED sessions
  /\ req' = [req EXCEPT ![r] = Idle]
  /\ UNCHANGED <<flags, admins, missed>>

Login(r) == Bind(r) \/ ReadRole(r) \/ InsertSession(r)

Logout(t) ==
  /\ Live(t)
  /\ sessions' = DeleteRows({t})
  /\ UNCHANGED <<flags, admins, req, missed>>

\* expires_at passes.  Get ignores the row from then on, and the hourly purge
\* removes it: one step, because nothing reads the row in between.
Expire(t) ==
  /\ Live(t)
  /\ sessions' = DeleteRows({t})
  /\ UNCHANGED <<flags, admins, req, missed>>

-----------------------------------------------------------------------------
(* An administrator's request: middleware and guards, the audit row, the    *)
(* directory write, the revocations.                                        *)

\* Refused when aimed at the caller's own account (refuseSelfTarget).
NotOnOneself == {"lock", "delete", "rename", "removePassword", "expire"}

\* authMiddleware and requirePermission look at the session row, and at
\* nothing else, before the handler starts.
Authorised(t, op) == Live(t) /\ (op = "ownPassword" \/ sessions[t].role = "admin")

\* A request past its guards: the account u, for a rename its new DN to, for a
\* group update the members wanted and the members read.
Started(t, op, u, to, wanted) ==
  [Idle EXCEPT !.pc = "audit", !.op = op,
               !.token = IF op = "ownPassword" THEN t ELSE None,
               !.target = u, !.to = to, !.wanted = wanted,
               !.list = IF op = "updateGroup" THEN admins ELSE {}]

\* The guards of the handlers, and what they read before the audit row.  A
\* creation looks at nothing: the directory refuses a DN that is taken.
BeginRequest(r, t, op) ==
  /\ req[r] = Idle
  /\ op \in Ops \ {"resetPassword"}
  /\ Authorised(t, op)
  /\ \E u, to \in Users \cup {None}, wanted \in SUBSET Users :
       /\ IF op = "updateGroup" THEN u = None ELSE u \in Users /\ wanted = {}
       /\ op \in NotOnOneself => u # sessions[t].user
       /\ op = "ownPassword" => u = sessions[t].user /\ Accepts(u)
       /\ op \in {"delete", "rename"} => Exists(u)
       /\ IF op = "rename" THEN to \in Users /\ ~Exists(to) ELSE to = None
       /\ req' = [req EXCEPT ![r] = Started(t, op, u, to, wanted)]
  /\ UNCHANGED <<flags, admins, sessions, missed>>

\* The holder of a reset link needs no session.  What makes a link good is in
\* PasswordReset; here, that resetTarget refuses an account an administrator
\* locked, and not one that ppolicy did.
BeginReset(r, u) ==
  /\ req[r] = Idle
  /\ "resetPassword" \in Ops
  /\ flags[u] \cap {"gone", "locked"} = {}
  /\ req' = [req EXCEPT ![r] = Started(None, "resetPassword", u, None, {})]
  /\ UNCHANGED <<flags, admins, sessions, missed>>

\* auditMutating: the row first, or no change at all.
Audit(r) ==
  /\ req[r].pc = "audit"
  /\ \/ req' = [req EXCEPT ![r].pc = "write"]
     \/ "audit" \in Faults /\ req' = [req EXCEPT ![r] = Idle]
  /\ UNCHANGED <<flags, admins, sessions, missed>>

\* The directory refused the write, or could not be reached: the handler
\* answers with an error and stops.
Refused(r) ==
  /\ req[r].pc = "write"
  /\ req' = [req EXCEPT ![r] = Idle]
  /\ UNCHANGED <<flags, admins, sessions, missed>>

\* A write that takes something from the accounts us; request r continues as
\* next, and the sessions of the accounts in lost will not be ended by it.
Commit(r, us, passed, next, lost) ==
  /\ sessions' = MarkRows(us, req[r].token)
  /\ req' = [q \in Requests |->
               IF q = r THEN next
               ELSE [req[q] EXCEPT !.overtaken = @ \/ Overtaken(q, us, passed)]]
  /\ missed' = missed \cup lost

\* What a request remembers once nothing but revocation is left of it.
Revoking(r, us) ==
  [pc |-> "revoke", op |-> req[r].op, token |-> req[r].token, target |-> None, to |-> None,
   list |-> {}, wanted |-> {}, todo |-> us, role |-> "readonly", overtaken |-> FALSE]

CleaningUp(r, u) == [req[r] EXCEPT !.pc = "members", !.todo = {u}]

\* Calls that read the entry back after writing it and fail with that read.
RereadOps == {"updateUser", "updateGroup"}

AnswerMayBeLost(op) ==
  "reply" \in Faults \/ ("reread" \in Faults /\ op \in RereadOps)

\* The write a handler reports on.  When it is applied and the call fails all
\* the same, the handler answers with an error and ends no session.
Write(r, us, passed, next, lost) ==
  \/ Commit(r, us, passed, next, lost)
  \/ AnswerMayBeLost(req[r].op) /\ Commit(r, us, passed, Idle, us)

WriteEntry(r, u, new, next) ==
  /\ Exists(u)
  /\ flags' = [flags EXCEPT ![u] = new]
  /\ Write(r, {u}, PastBind, next, {})
  /\ UNCHANGED admins

\* A write to the entry of u that no session depends on.
WriteHarmless(r, u, new) ==
  /\ Exists(u)
  /\ flags' = [flags EXCEPT ![u] = new]
  /\ req' = [req EXCEPT ![r] = Idle]
  /\ UNCHANGED <<admins, sessions, missed>>

At(r, op) == req[r].pc = "write" /\ req[r].op = op

\* Mutant: a lock ends no session.
LockUserOnly(r) ==
  LET u == req[r].target IN At(r, "lock") /\ WriteEntry(r, u, Locked(u), Idle)

LockUser(r) ==
  LET u == req[r].target IN At(r, "lock") /\ WriteEntry(r, u, Locked(u), Revoking(r, {u}))

UnlockUser(r) ==
  LET u == req[r].target IN At(r, "unlock") /\ WriteHarmless(r, u, Unlocked(u))

\* POST /{dn}/password, a password in the body of an update, a reset link.
SetPassword(r) ==
  LET u == req[r].target IN
  /\ At(r, "setPassword") \/ At(r, "updateUser") \/ At(r, "resetPassword")
  /\ WriteEntry(r, u, WithPassword(u), Revoking(r, {u}))

ChangeMyPassword(r) ==
  LET u == req[r].target IN
  At(r, "ownPassword") /\ WriteEntry(r, u, WithPassword(u), Revoking(r, {u}))

\* Deleting an attribute that is not there is an error.
RemovePassword(r) ==
  LET u == req[r].target IN
  /\ At(r, "removePassword") /\ "noPassword" \notin flags[u]
  /\ WriteEntry(r, u, WithoutPassword(u), Revoking(r, {u}))

SetExpiration(r) ==
  LET u == req[r].target IN
  /\ At(r, "expire")
  /\ \E past \in BOOLEAN : WriteEntry(r, u, Ending(u, past), Revoking(r, {u}))

ClearExpiration(r) ==
  LET u == req[r].target IN At(r, "unexpire") /\ WriteHarmless(r, u, NotEnding(u))

\* The entry goes first; its memberUid values are cleaned up afterwards.
DeleteUser(r) ==
  LET u == req[r].target IN At(r, "delete") /\ WriteEntry(r, u, {"gone"}, CleaningUp(r, u))

\* A clean-up that fails, or looks failed, is a warning: the delete carries on.
DeleteMemberships(r) ==
  LET u == req[r].target IN
  /\ req[r].pc = "members" /\ req[r].op = "delete"
  /\ \E left \in {admins, admins \ {u}} :
       /\ admins' = left
       /\ Commit(r, {v \in Changed(admins, left) : Exists(v)}, PastRole, Revoking(r, {u}), {})
  /\ UNCHANGED flags

\* A new account may take a DN that was used before.  The password is set by a
\* second call, so an entry without one can be what is left of a failed create.
CreateUser(r) ==
  LET u == req[r].target IN
  /\ At(r, "create")
  /\ ~Exists(u)
  /\ \E new \in {{}, {"noPassword"}} : flags' = [flags EXCEPT ![u] = new]
  /\ req' = [req EXCEPT ![r].pc = "members"]
  /\ UNCHANGED <<admins, sessions, missed>>

\* Groups asked for at creation are joined best-effort, and end no session.
JoinGroups(r) ==
  /\ req[r].pc = "members" /\ req[r].op = "create"
  /\ \E joined \in {admins, admins \cup {req[r].target}} : admins' = joined
  /\ req' = [req EXCEPT ![r] = Idle]
  /\ UNCHANGED <<flags, sessions, missed>>

\* A rename moves the entry, then rewrites each group that lists the old uid.
RenameUser(r) ==
  LET u == req[r].target
      to == req[r].to
  IN /\ At(r, "rename")
     /\ Exists(u) /\ ~Exists(to)
     /\ flags' = [flags EXCEPT ![u] = {"gone"}, ![to] = flags[u]]
     /\ Write(r, {u}, PastBind, CleaningUp(r, u), {})
     /\ UNCHANGED admins

ReadMemberships(r) ==
  /\ req[r].pc = "members" /\ req[r].op = "rename"
  /\ \/ /\ req[r].target \in admins
        /\ req' = [req EXCEPT ![r].pc = "replace", ![r].list = admins]
     \/ req' = [req EXCEPT ![r] = Revoking(r, @.todo)]
  /\ UNCHANGED <<flags, admins, sessions, missed>>

\* The whole list goes back as it was read, with one uid swapped.  Whoever else
\* joined or left in between is put back where they were, sessions and all.
ReplaceMembers(r) ==
  LET u == req[r].target
      to == req[r].to
  IN /\ req[r].pc = "replace"
     /\ \E left \in {admins, (req[r].list \ {u}) \cup {to}} :
          LET us == {v \in Changed(admins, left) \ {to} : Exists(v)} IN
          /\ admins' = left
          /\ Commit(r, us, PastRole, Revoking(r, {u}), us \ {u})
     /\ UNCHANGED flags

\* Mutant: joining the group ends no session.
AddGroupMemberOnly(r) ==
  LET u == req[r].target IN
  /\ At(r, "addMember")
  /\ admins' = admins \cup {u}
  /\ Write(r, {v \in {u} \ admins : Exists(v)}, PastRole, Idle, {})
  /\ UNCHANGED flags

\* Membership of the admin group.  The directory does not require a member to
\* exist; adding one that is there changes nothing but still ends its sessions.
AddGroupMember(r) ==
  LET u == req[r].target IN
  /\ At(r, "addMember")
  /\ admins' = admins \cup {u}
  /\ Write(r, {v \in {u} \ admins : Exists(v)}, PastRole, Revoking(r, {u}), {})
  /\ UNCHANGED flags

RemoveGroupMember(r) ==
  LET u == req[r].target IN
  /\ At(r, "removeMember")
  /\ u \in admins
  /\ admins' = admins \ {u}
  /\ Write(r, {v \in {u} : Exists(v)}, PastRole, Revoking(r, {u}), {})
  /\ UNCHANGED flags

\* The body replaces the list; whose sessions to end is worked out from the
\* list read before the audit row.
membershipChanges(r) == Changed(req[r].list, req[r].wanted)

UpdateGroup(r) ==
  LET us == {v \in Changed(admins, req[r].wanted) : Exists(v)}
      due == membershipChanges(r)
  IN /\ At(r, "updateGroup")
     /\ admins' = req[r].wanted
     /\ Write(r, us, PastRole, IF due = {} THEN Idle ELSE Revoking(r, due), us \ due)
     /\ UNCHANGED flags

-----------------------------------------------------------------------------
(* Ending sessions, after the write. *)

GroupOps == {"addMember", "removeMember", "updateGroup"}

\* One account done, or given up; the request ends with the last one.
Settle(r, u) ==
  req' = [req EXCEPT ![r] =
            IF req[r].todo = {u} THEN Idle ELSE [req[r] EXCEPT !.todo = @ \ {u}]]

\* Mutant: the first failure ends the loop.
InvalidateOrStop(r, u) ==
  /\ req[r].pc = "revoke" /\ u \in req[r].todo
  /\ req[r].op \in GroupOps => Exists(u)
  /\ \/ /\ sessions' = DeleteRows(TokensOf(u) \ {req[r].token})
        /\ missed' = missed \ {u}
        /\ Settle(r, u)
     \/ /\ "database" \in Faults
        /\ missed' = missed \cup {u}
        /\ req' = [req EXCEPT ![r] = Idle]
        /\ UNCHANGED sessions
  /\ UNCHANGED <<flags, admins>>

\* DeleteByUserDN, or DeleteByUserDNExcept for one's own password.
InvalidateSessions(r, u) ==
  LET own == req[r].op = "ownPassword" IN
  /\ req[r].pc = "revoke" /\ u \in req[r].todo
  /\ req[r].op \in GroupOps => Exists(u)
  /\ \/ /\ sessions' = DeleteRows(TokensOf(u) \ {req[r].token})
        /\ missed' = IF own THEN missed ELSE missed \ {u}
     \/ /\ "database" \in Faults
        /\ missed' = missed \cup {u}
        /\ UNCHANGED sessions
  /\ Settle(r, u)
  /\ UNCHANGED <<flags, admins>>

\* invalidateIfAdminGroupChange: a uid that names no account is skipped, and so
\* is one whose lookup failed.
SkipUnknown(r, u) ==
  /\ req[r].pc = "revoke" /\ u \in req[r].todo
  /\ req[r].op \in GroupOps
  /\ \/ ~Exists(u) /\ UNCHANGED missed
     \/ "lookup" \in Faults /\ missed' = missed \cup {u}
  /\ Settle(r, u)
  /\ UNCHANGED <<flags, admins, sessions>>

-----------------------------------------------------------------------------
(* The rest of the world. *)

\* A pwdEndTime comes; from now on the directory refuses the binds of u.
EndTimePasses(u) ==
  /\ "ending" \in flags[u]
  /\ flags' = [flags EXCEPT ![u] = Ending(u, TRUE)]
  /\ UNCHANGED <<admins, sessions, req, missed>>

\* A failed bind outside a sign-in: the check of the current password before
\* one changes it, or any other program's.
FailedBind(u) == LockOut(u, req) /\ UNCHANGED <<admins, missed>>

\* pwdLockoutDuration is over.
LockoutLapses(u) ==
  /\ "lockedOut" \in flags[u]
  /\ flags' = [flags EXCEPT ![u] = @ \ {"lockedOut"}]
  /\ UNCHANGED <<admins, sessions, req, missed>>

\* Another program writes the entry of u, or the admin group.  A group handler
\* about to end the sessions of u will find no entry, and skip it.
EditOutside(u) ==
  /\ "outside" \in Faults
  /\ \/ /\ \E e \in Entries : flags' = [flags EXCEPT ![u] = e]
        /\ ChangedElsewhere(u, PastBind, req)
        /\ UNCHANGED admins
     \/ /\ admins' = Changed(admins, {u})
        /\ ChangedElsewhere(u, PastRole, req)
        /\ UNCHANGED flags
  /\ missed' = missed \cup {v \in {u} : "gone" \in flags'[v] /\ Pending(v)}

\* The process stops and starts again.  Both stores keep what they have; no
\* running request is resumed.
Crash ==
  /\ "crash" \in Faults
  /\ \E r \in Requests : req[r] # Idle
  /\ req' = [r \in Requests |-> Idle]
  /\ missed' = missed \cup {u \in Users : Pending(u)}
  /\ UNCHANGED <<flags, admins, sessions>>

WriteDirectory(r) ==
  \/ LockUser(r) \/ UnlockUser(r) \/ SetPassword(r) \/ ChangeMyPassword(r)
  \/ RemovePassword(r) \/ SetExpiration(r) \/ ClearExpiration(r)
  \/ DeleteUser(r) \/ DeleteMemberships(r) \/ CreateUser(r) \/ JoinGroups(r)
  \/ RenameUser(r) \/ ReadMemberships(r) \/ ReplaceMembers(r)
  \/ AddGroupMember(r) \/ RemoveGroupMember(r) \/ UpdateGroup(r)

EndSessions(r) == \E u \in Users : InvalidateSessions(r, u) \/ SkipUnknown(r, u)

\* What the server does next in a request it is already running.
Handle(r) ==
  Login(r) \/ Audit(r) \/ Refused(r) \/ WriteDirectory(r) \/ EndSessions(r)

Arrive(r) ==
  \/ \E u \in Users : BeginLogin(r, u) \/ BeginReset(r, u)
  \/ \E t \in Tokens, op \in AllOps : BeginRequest(r, t, op)

\* What ppolicy does by itself.
Policy(u) == EndTimePasses(u) \/ FailedBind(u) \/ LockoutLapses(u)

Serve ==
  \/ \E r \in Requests : Arrive(r) \/ Handle(r)
  \/ \E t \in Tokens : Logout(t) \/ Expire(t)
  \/ \E u \in Users : Policy(u)
  \/ Crash

Next == Serve \/ \E u \in Users : EditOutside(u)

\* A handler that runs goes on running: every call it makes has a deadline.
Fairness == \A r \in Requests : WF_vars(Handle(r))

Spec == Init /\ [][Next]_vars

FairSpec == Spec /\ Fairness

-----------------------------------------------------------------------------
(* Properties. *)

\* What the directory says of an account that may act: present, not locked by
\* anyone, with a password, and in the admin group if the role is admin.
Backs(u, role) ==
  /\ flags[u] \cap {"gone", "locked", "lockedOut", "noPassword"} = {}
  /\ role = "admin" => u \in admins

Backed(t) == Backs(sessions[t].user, sessions[t].role)

\* A session that lost its backing is on its way out: a running handler has
\* yet to end it, or the revocation was lost to one of the named failures, or
\* the sign-in was overtaken by the change (handlers that revoke after writing,
\* internal/api/middleware.go invalidateSessions).  Nothing ends the session of
\* an account that ppolicy locked, or another program changed, after it was
\* opened ("elsewhere"); once an administrator takes something from the same
\* account, that session has to go like any other.
SessionsFollowDirectory ==
  \A t \in Tokens : Live(t) =>
    \/ Backed(t)
    \/ Pending(sessions[t].user)
    \/ sessions[t].user \in missed
    \/ sessions[t].standing \in {"overtaken", "elsewhere"}

\* No session outlives a revocation that was carried out: one opened before a
\* lock, delete, rename, password or membership change is gone once the handler
\* is done, unless a failure stopped that handler (DeleteByUserDN is one
\* statement; whether the account still looks healthy does not matter).
NoSurvivor ==
  \A t \in Tokens : Live(t) /\ sessions[t].standing = "revoked" =>
    Pending(sessions[t].user) \/ sessions[t].user \in missed

\* With no failure, and no whole-list write of the admin group, nothing is
\* missed: a session due to end has a handler about to end it.
RevocationAlwaysPending ==
  \A t \in Tokens : Live(t) /\ sessions[t].standing = "revoked" => Pending(sessions[t].user)

Due(t) == Live(t) /\ sessions[t].standing = "revoked"

\* A session due to end does end, without waiting for its expiry, or its own
\* revocation failed or was lost to a list read too early: a failure on one
\* account of several does not keep the handler from the others (the loop of
\* handleUpdateGroup over the members that changed).
RevocationCompletes ==
  \A t \in Tokens : Due(t) ~> (Due(t) => sessions[t].user \in missed)
=============================================================================
