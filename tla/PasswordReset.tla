---------------------------- MODULE PasswordReset ----------------------------
(***************************************************************************)
(* Password-reset links: issued by administrators, mailed out, redeemed by *)
(* whoever holds one, retired when the account they were sent to changes.  *)
(*                                                                         *)
(* handlers_password_reset.go and internal/passwordreset keep the links in *)
(* PostgreSQL; the account lives in the directory, which other programs    *)
(* edit too.  Issuing counts, supersedes and inserts in three statements,  *)
(* redeeming claims, checks and writes in three calls, and a handler that  *)
(* changes an account retires its links after the write: all interleave.   *)
(*                                                                         *)
(* History only, read by no guard: the fields "standing", "rival" and      *)
(* "resets" of a link, "overtaken" and "rival" of a request, and "missed". *)
(***************************************************************************)
EXTENDS Naturals, FiniteSets

CONSTANTS
  Accounts,    \* DNs of accounts; the uid is part of the DN
  Mails,       \* mail addresses, up to letter case
  Actors,      \* administrators who issue links
  Links,       \* reset links
  Requests,    \* HTTP requests the server may be running at once
  None,        \* "no value"
  Ops,         \* the operations called
  Faults,      \* the failures that may happen
  MaxPerUser,  \* maxResetsPerUserWindow
  MaxPerActor  \* maxResetsPerActorWindow

\* Operations that change an account.  "password" stands for every one that
\* sets or removes it: by an administrator, by the owner, in an update.
ChangeOps == {"lock", "unlock", "delete", "create", "rename", "password", "mail"}

AllOps == ChangeOps \cup {"issue", "confirm"}

\* "reply": a directory write applied, and reported as failed (the answer lost,
\* or a later call of the same update refused).  "outside": the directory
\* edited by another program.
AllFaults == {"audit", "database", "reply", "lookup", "crash", "outside"}

ASSUME ConstantsAssumption ==
  /\ Ops \subseteq AllOps
  /\ Faults \subseteq AllFaults
  /\ None \notin Accounts /\ None \notin Mails /\ None \notin Actors
  /\ None \notin Links /\ None \notin AllOps

ASSUME CapsAssumption == MaxPerUser \in Nat \ {0} /\ MaxPerActor \in Nat \ {0}

ASSUME FiniteAssumption == IsFiniteSet(Links) /\ IsFiniteSet(Requests)

VARIABLES
  entry,      \* entry[u]: the directory entry of u, or None
  links,      \* links[l]: the row of link l, or None
  req,        \* req[r]: the request running in slot r
  missed      \* history: accounts changed with nothing left to retire their links

vars == <<entry, links, req, missed>>

\* "locked" is the administrator's lock: the one failed binds cause is not looked
\* at by any of this.
Entry == [mail : Mails \cup {None}, locked : BOOLEAN]

\* A change that retires links came after this one ("void"), or while it was
\* being issued ("late").
Row == [user : Accounts, email : Mails, actor : Actors,
        used : {"no", "retired", "claimed"},
        recent : BOOLEAN,      \* created_at is within the counting window
        standing : {"current", "void", "late"},
        rival : BOOLEAN,       \* another one was inserted after its supersession
        resets : 0 .. 2]       \* passwords set through it, capped

ASSUME NoneAssumption == None \notin Entry /\ None \notin Row

Request == [pc : {"idle", "countActor", "countUser", "issueAudit", "supersede", "insert",
                  "check", "confirmAudit", "change", "audit", "write", "retire"},
            op : AllOps \cup {None},
            target : Accounts \cup {None},
            to : Accounts \cup {None},      \* the new DN of a rename
            mail : Mails \cup {None},       \* read by an issuance, wanted by a change
            before : Mails \cup {None, "unread"},
            actor : Actors \cup {None},
            link : Links \cup {None},       \* the link being redeemed
            overtaken : BOOLEAN,
            rival : BOOLEAN]

Idle == [pc |-> "idle", op |-> None, target |-> None, to |-> None, mail |-> None,
         before |-> None, actor |-> None, link |-> None,
         overtaken |-> FALSE, rival |-> FALSE]

TypeOK ==
  /\ entry \in [Accounts -> Entry \cup {None}]
  /\ links \in [Links -> Row \cup {None}]
  /\ req \in [Requests -> Request]
  /\ missed \subseteq Accounts

Exists(u) == entry[u] # None

\* Accounts that exist when the server starts, with or without an address.
Init ==
  /\ entry \in [Accounts -> [mail : Mails, locked : {FALSE}] \cup {None}]
  /\ links = [l \in Links |-> None]
  /\ req = [r \in Requests |-> Idle]
  /\ missed = {}

-----------------------------------------------------------------------------
(* The table of links. *)

Stored(l) == links[l] # None

Usable(l) == Stored(l) /\ links[l].used = "no"

UsableOf(u) == {l \in Links : Usable(l) /\ links[l].user = u}

\* The rows both caps count: used or not, created within the window.
RecentOfUser(u)  == {l \in Links : Stored(l) /\ links[l].recent /\ links[l].user = u}
RecentOfActor(a) == {l \in Links : Stored(l) /\ links[l].recent /\ links[l].actor = a}

\* One UPDATE statement: every link of u that could still be redeemed.
RevokeForUser(u) ==
  links' = [l \in Links |->
              IF l \in UsableOf(u) THEN [links[l] EXCEPT !.used = "retired"] ELSE links[l]]

Go(r, pc) == req' = [req EXCEPT ![r].pc = pc]

Stop(r) == req' = [req EXCEPT ![r] = Idle]

At(r, pc) == req[r].pc = pc

-----------------------------------------------------------------------------
(* Issuing: handleSendPasswordReset and CreateToken. *)

Issuing(a, u) == [Idle EXCEPT !.pc = "countActor", !.op = "issue", !.actor = a,
                              !.target = u, !.mail = entry[u].mail]

\* The entry is read once, here: the link will go to the address it has now.
BeginIssue(r, a, u) ==
  /\ "issue" \in Ops
  /\ At(r, "idle")
  /\ Exists(u) /\ entry[u].mail # None
  /\ req' = [req EXCEPT ![r] = Issuing(a, u)]
  /\ UNCHANGED <<entry, links, missed>>

CountRecentByActor(r) ==
  /\ At(r, "countActor")
  /\ IF Cardinality(RecentOfActor(req[r].actor)) < MaxPerActor
     THEN Go(r, "countUser") ELSE Stop(r)
  /\ UNCHANGED <<entry, links, missed>>

\* Mutant: lets one more through.
CountOneMore(r) ==
  /\ At(r, "countUser")
  /\ IF Cardinality(RecentOfUser(req[r].target)) <= MaxPerUser
     THEN Go(r, "issueAudit") ELSE Stop(r)
  /\ UNCHANGED <<entry, links, missed>>

CountRecentForUser(r) ==
  /\ At(r, "countUser")
  /\ IF Cardinality(RecentOfUser(req[r].target)) < MaxPerUser
     THEN Go(r, "issueAudit") ELSE Stop(r)
  /\ UNCHANGED <<entry, links, missed>>

AuditIssue(r) ==
  /\ At(r, "issueAudit")
  /\ Go(r, "supersede") \/ ("audit" \in Faults /\ Stop(r))
  /\ UNCHANGED <<entry, links, missed>>

\* Mutant: the links already out are left alone.
SupersedeNothing(r) ==
  At(r, "supersede") /\ Go(r, "insert") /\ UNCHANGED <<entry, links, missed>>

\* CreateToken first retires what is out there, in a statement of its own.
Supersede(r) ==
  /\ At(r, "supersede")
  /\ \/ RevokeForUser(req[r].target) /\ Go(r, "insert")
     \/ "database" \in Faults /\ Stop(r) /\ UNCHANGED links
  /\ UNCHANGED <<entry, missed>>

\* A token is random: none that is stored, none that a request still carries.
FreshLink(l) == ~Stored(l) /\ \A r \in Requests : req[r].link # l

NewRow(r) ==
  [user |-> req[r].target, email |-> req[r].mail, actor |-> req[r].actor, used |-> "no",
   recent |-> TRUE, rival |-> req[r].rival, resets |-> 0,
   standing |-> IF req[r].overtaken THEN "late" ELSE "current"]

\* The row is in; if the mail then fails, the link stays good and nobody has it.
InsertLink(r) ==
  LET u == req[r].target IN
  /\ At(r, "insert")
  /\ \/ /\ \E l \in Links :
             /\ FreshLink(l)
             /\ links' = [links EXCEPT ![l] = NewRow(r)]
        /\ req' = [q \in Requests |->
                     IF q = r THEN Idle
                     ELSE [req[q] EXCEPT !.rival =
                             @ \/ (req[q].pc = "insert" /\ req[q].target = u)]]
     \/ "database" \in Faults /\ Stop(r) /\ UNCHANGED links
  /\ UNCHANGED <<entry, missed>>

Issue(r) ==
  CountRecentByActor(r) \/ CountRecentForUser(r) \/ AuditIssue(r) \/ Supersede(r) \/ InsertLink(r)

\* The row leaves the counting window.
WindowPasses(l) ==
  /\ Stored(l) /\ links[l].recent
  /\ links' = [links EXCEPT ![l].recent = FALSE]
  /\ UNCHANGED <<entry, req, missed>>

\* A day later the link expires, and the hourly purge deletes the row: one
\* step, because no statement matches an expired row in between.
Expire(l) ==
  /\ Stored(l) /\ ~links[l].recent
  /\ links' = [links EXCEPT ![l] = None]
  /\ UNCHANGED <<entry, req, missed>>

-----------------------------------------------------------------------------
(* Redeeming: handleConfirmPasswordReset. *)

Redeeming(r, l) == [Idle EXCEPT !.pc = "check", !.op = "confirm", !.link = l,
                                !.target = links[l].user, !.mail = links[l].email]

\* Mutant: the link is looked up, and not marked used.
ClaimByReading(r, l) ==
  /\ "confirm" \in Ops
  /\ At(r, "idle") /\ Usable(l)
  /\ req' = [req EXCEPT ![r] = Redeeming(r, l)]
  /\ UNCHANGED <<entry, links, missed>>

\* The claim and its test are one statement.
ConsumeToken(r, l) ==
  /\ "confirm" \in Ops
  /\ At(r, "idle") /\ Usable(l)
  /\ links' = [links EXCEPT ![l].used = "claimed"]
  /\ req' = [req EXCEPT ![r] = Redeeming(r, l)]
  /\ UNCHANGED <<entry, missed>>

\* The entry is still the account the link was sent to.
StillTheAccount(u, email) == Exists(u) /\ entry[u].mail = email /\ ~entry[u].locked

\* Mutant: only asks whether there is an entry.
CheckExists(r) ==
  /\ At(r, "check")
  /\ IF Exists(req[r].target) THEN Go(r, "confirmAudit") ELSE Stop(r)
  /\ UNCHANGED <<entry, links, missed>>

\* A read that fails refuses the link too, and it is spent all the same.
resetTarget(r) ==
  /\ At(r, "check")
  /\ \/ StillTheAccount(req[r].target, req[r].mail) /\ Go(r, "confirmAudit")
     \/ ~StillTheAccount(req[r].target, req[r].mail) /\ Stop(r)
     \/ "lookup" \in Faults /\ Stop(r)
  /\ UNCHANGED <<entry, links, missed>>

AuditConfirm(r) ==
  /\ At(r, "confirmAudit")
  /\ Go(r, "change") \/ ("audit" \in Faults /\ Stop(r))
  /\ UNCHANGED <<entry, links, missed>>

\* History: one more password set through the link, if its row is still there.
WithReset(row) ==
  IF row = None \/ row.resets = 2 THEN row ELSE [row EXCEPT !.resets = @ + 1]

\* The write, or its refusal.  Ending the sessions that follows is in Sessions;
\* no other link of the account is retired.
ResetPassword(r) ==
  LET l == req[r].link IN
  /\ At(r, "change")
  /\ \/ /\ Exists(req[r].target)
        /\ links' = [links EXCEPT ![l] = WithReset(links[l])]
     \/ UNCHANGED links
  /\ Stop(r)
  /\ UNCHANGED <<entry, missed>>

Confirm(r) == resetTarget(r) \/ AuditConfirm(r) \/ ResetPassword(r)

-----------------------------------------------------------------------------
(* Changing an account: the audit row, the write, retiring its links. *)

\* An update reads the address first; a read that fails does not stop it.
MailRead(u) == {e.mail : e \in {entry[u]} \ {None}}
                 \cup {b \in {"unread"} : ~Exists(u) \/ "lookup" \in Faults}

Changing(op, u, to, m, b) ==
  [Idle EXCEPT !.pc = "audit", !.op = op, !.target = u, !.to = to, !.mail = m, !.before = b]

\* What the handlers read and refuse before the audit row.
BeginChange(r, op) ==
  /\ op \in Ops \cap ChangeOps
  /\ At(r, "idle")
  /\ \E u \in Accounts, to \in Accounts \cup {None}, m \in Mails \cup {None},
        b \in Mails \cup {None, "unread"} :
       /\ op \in {"delete", "rename"} => Exists(u)
       /\ IF op = "rename" THEN to # None /\ ~Exists(to) ELSE to = None
       /\ op \notin {"create", "mail"} => m = None
       /\ b \in IF op = "mail" THEN MailRead(u) ELSE {None}
       /\ req' = [req EXCEPT ![r] = Changing(op, u, to, m, b)]
  /\ UNCHANGED <<entry, links, missed>>

AuditChange(r) ==
  /\ At(r, "audit")
  /\ Go(r, "write") \/ ("audit" \in Faults /\ Stop(r))
  /\ UNCHANGED <<entry, links, missed>>

\* The directory refuses the write, or cannot be reached.
Refused(r) == At(r, "write") /\ Stop(r) /\ UNCHANGED <<entry, links, missed>>

\* The requests that have read the entry of u and go on what they read.
GoesOnOldEntry(q, u) ==
  /\ req[q].target = u
  /\ req[q].pc \in {"countActor", "countUser", "issueAudit", "supersede", "insert",
                    "confirmAudit", "change"}

\* A change that retires the links of u: what is out there is void from now on,
\* and whoever has read the entry goes on what it was.
Touch(u, next) ==
  /\ links' = [l \in Links |-> IF l \in UsableOf(u) THEN [links[l] EXCEPT !.standing = "void"]
                               ELSE links[l]]
  /\ req' = [q \in Requests |->
               [next[q] EXCEPT !.overtaken = @ \/ GoesOnOldEntry(q, u)]]

Retiring(r) == [req EXCEPT ![r].pc = "retire"]

\* A handler told that its write failed stops there.
WriteThenRetire(r, u, new) ==
  /\ Exists(u)
  /\ entry' = new
  /\ \/ Touch(u, Retiring(r)) /\ UNCHANGED missed
     \/ "reply" \in Faults /\ Touch(u, [req EXCEPT ![r] = Idle]) /\ missed' = missed \cup {u}

Writes(r, op) == At(r, "write") /\ req[r].op = op

LockUser(r) ==
  LET u == req[r].target IN
  Writes(r, "lock") /\ WriteThenRetire(r, u, [entry EXCEPT ![u].locked = TRUE])

\* No link is retired by it: a locked account's link was, or is refused.
UnlockUser(r) ==
  LET u == req[r].target IN
  /\ Writes(r, "unlock")
  /\ Exists(u)
  /\ entry' = [entry EXCEPT ![u].locked = FALSE]
  /\ Stop(r)
  /\ UNCHANGED <<links, missed>>

DeleteUser(r) ==
  LET u == req[r].target IN
  Writes(r, "delete") /\ WriteThenRetire(r, u, [entry EXCEPT ![u] = None])

RenameUser(r) ==
  LET u == req[r].target IN
  /\ Writes(r, "rename")
  /\ ~Exists(req[r].to)
  /\ WriteThenRetire(r, u, [entry EXCEPT ![u] = None, ![req[r].to] = entry[u]])

\* Mutant: the password changes and the links stay good.
ChangePasswordOnly(r) ==
  Writes(r, "password") /\ Exists(req[r].target) /\ Touch(req[r].target, [req EXCEPT ![r] = Idle])
                        /\ UNCHANGED <<entry, missed>>

ChangePassword(r) ==
  Writes(r, "password") /\ WriteThenRetire(r, req[r].target, entry)

\* Mutant: an update retires no link.
UpdateMailOnly(r) ==
  LET u == req[r].target IN
  /\ Writes(r, "mail")
  /\ Exists(u)
  /\ entry' = [entry EXCEPT ![u].mail = req[r].mail]
  /\ Touch(u, [req EXCEPT ![r] = Idle])
  /\ UNCHANGED missed

\* Links are retired when the address differs from the one read before the
\* audit row; whether it differs from the one in the entry is another matter.
UpdateMail(r) ==
  LET u == req[r].target
      changed == entry[u].mail # req[r].mail
      retires == req[r].before # req[r].mail
  IN /\ Writes(r, "mail")
     /\ Exists(u)
     /\ entry' = [entry EXCEPT ![u].mail = req[r].mail]
     /\ \/ /\ retires /\ UNCHANGED missed
           /\ IF changed THEN Touch(u, Retiring(r)) ELSE req' = Retiring(r) /\ UNCHANGED links
        \/ /\ ~retires \/ "reply" \in Faults
           /\ IF changed THEN Touch(u, [req EXCEPT ![r] = Idle]) /\ missed' = missed \cup {u}
                         ELSE Stop(r) /\ UNCHANGED <<links, missed>>

\* A new account may take a DN used before, whatever links that one left.
CreateUser(r) ==
  LET u == req[r].target IN
  /\ Writes(r, "create")
  /\ ~Exists(u)
  /\ entry' = [entry EXCEPT ![u] = [mail |-> req[r].mail, locked |-> FALSE]]
  /\ Stop(r)
  /\ UNCHANGED <<links, missed>>

\* revokeResetTokens: a failure is logged, and that is all.
RetireLinks(r) ==
  /\ At(r, "retire")
  /\ \/ RevokeForUser(req[r].target) /\ missed' = missed \ {req[r].target}
     \/ "database" \in Faults /\ missed' = missed \cup {req[r].target} /\ UNCHANGED links
  /\ Stop(r)
  /\ UNCHANGED entry

Change(r) ==
  \/ AuditChange(r) \/ Refused(r) \/ LockUser(r) \/ UnlockUser(r) \/ DeleteUser(r)
  \/ RenameUser(r) \/ ChangePassword(r) \/ UpdateMail(r) \/ CreateUser(r) \/ RetireLinks(r)

-----------------------------------------------------------------------------
(* The rest of the world. *)

Pending(u) == \E r \in Requests : At(r, "retire") /\ req[r].target = u

\* Another program edits the directory; nobody retires a link.
EditOutside(u) ==
  /\ "outside" \in Faults
  /\ \E e \in Entry \cup {None} :
       /\ e # entry[u]
       /\ entry' = [entry EXCEPT ![u] = e]
  /\ Touch(u, req)
  /\ missed' = missed \cup {u}

\* The process stops and starts again.
Crash ==
  /\ "crash" \in Faults
  /\ \E r \in Requests : ~At(r, "idle")
  /\ req' = [r \in Requests |-> Idle]
  /\ missed' = missed \cup {u \in Accounts : Pending(u)}
  /\ UNCHANGED <<entry, links>>

Arrive(r) ==
  \/ \E a \in Actors, u \in Accounts : BeginIssue(r, a, u)
  \/ \E l \in Links : ConsumeToken(r, l)
  \/ \E op \in ChangeOps : BeginChange(r, op)

Next ==
  \/ \E r \in Requests : Arrive(r) \/ Issue(r) \/ Confirm(r) \/ Change(r)
  \/ \E l \in Links : WindowPasses(l) \/ Expire(l)
  \/ \E u \in Accounts : EditOutside(u)
  \/ Crash

Spec == Init /\ [][Next]_vars

-----------------------------------------------------------------------------
(* Properties. *)

\* A link that an administrator's change made unsafe is retired, or about to
\* be, unless the handler that should have done it failed (RevokeForUser "is
\* called whenever the account a token was issued for stops being the account
\* it was sent to").
VoidLinksAreRetired ==
  \A l \in Links : Usable(l) /\ links[l].standing = "void" =>
    Pending(links[l].user) \/ links[l].user \in missed

\* A link that can be redeemed was sent to the address its account has now,
\* unless the change is still being followed up, was not, or came while the
\* link was being issued.
LinksFollowDirectory ==
  \A l \in Links : Usable(l) =>
    LET u == links[l].user IN
    \/ Exists(u) /\ entry[u].mail = links[l].email
    \/ Pending(u) \/ u \in missed \/ links[l].standing = "late"

\* Whatever failed before, a reset writes the password of the account its link
\* was sent to, present and not locked by an administrator: only a change made
\* after the check can be overrun (resetTarget, then ChangePassword).
ResetHitsItsAccount ==
  \A r \in Requests : At(r, "change") =>
    StillTheAccount(req[r].target, req[r].mail) \/ req[r].overtaken

\* No link sets two passwords, however many requests carry it (ConsumeToken).
SingleUse == \A l \in Links : Stored(l) => links[l].resets <= 1

\* Of the links of an account that can be redeemed, all but one were issued
\* while another was being issued (CreateToken: supersede, then insert).
OneUsableUnlessRivals ==
  \A u \in Accounts : Cardinality({l \in UsableOf(u) : ~links[l].rival}) <= 1

\* Counting and inserting are apart, so the caps can be overrun, but only by
\* the requests that run at once.
IssuanceIsCapped ==
  /\ \A u \in Accounts :
       Cardinality(RecentOfUser(u)) <= MaxPerUser + Cardinality(Requests) - 1
  /\ \A a \in Actors :
       Cardinality(RecentOfActor(a)) <= MaxPerActor + Cardinality(Requests) - 1
=============================================================================
