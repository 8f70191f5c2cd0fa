----------------------------- MODULE LockoutScan -----------------------------
(***************************************************************************)
(* The lockout scan: reports the accounts the directory locked by itself,  *)
(* in the audit log and by mail.                                           *)
(*                                                                         *)
(* scheduler/lockout_scan.go polls: ppolicy announces nothing, and what it *)
(* wrote is gone at the account's next sign-in.  The table lockout_events  *)
(* remembers what was seen and what was mailed; a scan prunes it by the    *)
(* list it has read, then records, audits, mails and marks.  Scans of one  *)
(* process exclude each other, those of two processes do not.              *)
(*                                                                         *)
(* A digest is one mail per recipient, in turn, and the first that is      *)
(* refused ends the sending.  A call to the database may fail before or    *)
(* after it was carried out.                                               *)
(*                                                                         *)
(* History only, read by no guard: audited, unaudited, told, forgotten and *)
(* resent.                                                                 *)
(***************************************************************************)
EXTENDS Naturals, FiniteSets

CONSTANTS
  Accounts,   \* DNs of accounts
  Instants,   \* instants at which an account may be locked
  Scanners,   \* server processes
  None,       \* "no value"
  Faults      \* the failures that may happen

\* "truncated": the directory limits the search.  "recipients": nobody to
\* write to, or the admin group cannot be read.
AllFaults == {"listing", "truncated", "database", "audit", "recipients", "mail", "crash"}

\* A lockout is an account and an instant: (user_dn, locked_at) is the key.
Lockouts == Accounts \X Instants

ASSUME ConstantsAssumption ==
  Faults \subseteq AllFaults /\ None \notin Instants /\ None \notin Lockouts

VARIABLES
  lock,       \* lock[u]: pwdAccountLockedTime of u, or None
  past,       \* the lockouts there have been: no instant comes twice
  events,     \* events[e]: the row of lockout e
  scan,       \* scan[s]: the scan running in process s
  audited,    \* history: lockouts with a row in the audit log
  unaudited,  \* history: recorded, and the audit row was not written
  told,       \* history: lockouts that every recipient got a digest of
  forgotten,  \* history: rows pruned while the lockout was held, or being read
  resent      \* history: mailed (to some) and not marked, or pending to two scans

vars == <<lock, past, events, scan, audited, unaudited, told, forgotten, resent>>

Scan == [pc : {"idle", "list", "prune", "record", "audit", "send", "mark"},
         listed : SUBSET Lockouts,      \* what the directory answered
         todo : SUBSET Lockouts,        \* what is left of the current loop
         at : Lockouts \cup {None}]     \* the lockout being audited

Idle == [pc |-> "idle", listed |-> {}, todo |-> {}, at |-> None]

TypeOK ==
  /\ lock \in [Accounts -> Instants \cup {None}]
  /\ past \subseteq Lockouts
  /\ events \in [Lockouts -> {"absent", "pending", "notified"}]
  /\ scan \in [Scanners -> Scan]
  /\ \A s \in Scanners : scan[s].todo \subseteq scan[s].listed
  /\ \A s \in Scanners : scan[s].pc = "audit" <=> scan[s].at # None
  /\ audited \subseteq Lockouts /\ unaudited \subseteq Lockouts
  /\ told \subseteq Lockouts /\ forgotten \subseteq Lockouts /\ resent \subseteq Lockouts

Init ==
  /\ lock = [u \in Accounts |-> None]
  /\ past = {}
  /\ events = [e \in Lockouts |-> "absent"]
  /\ scan = [s \in Scanners |-> Idle]
  /\ audited = {} /\ unaudited = {} /\ told = {} /\ forgotten = {} /\ resent = {}

history == <<audited, unaudited, told, forgotten, resent>>

\* A lock past its duration stays in the directory, and in the listing, until
\* the next bind.
Held == {e \in Lockouts : lock[e[1]] = e[2]}

Row(e) == events[e] # "absent"

-----------------------------------------------------------------------------
(* The directory. *)

\* Failed binds lock u, perhaps again.
LockOut(u, i) ==
  /\ <<u, i>> \notin past
  /\ lock' = [lock EXCEPT ![u] = i]
  /\ past' = past \cup {<<u, i>>}
  /\ UNCHANGED <<events, scan, history>>

\* The account's next sign-in, an unlock, a deletion.
Lift(u) ==
  /\ lock[u] # None
  /\ lock' = [lock EXCEPT ![u] = None]
  /\ UNCHANGED <<past, events, scan, history>>

-----------------------------------------------------------------------------
(* One scan. *)

At(s, pc) == scan[s].pc = pc

Go(s, pc, todo) == scan' = [scan EXCEPT ![s] = [@ EXCEPT !.pc = pc, !.todo = todo]]

Stop(s) == scan' = [scan EXCEPT ![s] = Idle]

\* The flag of the process and the row of the run.
StartScan(s) ==
  /\ At(s, "idle")
  /\ Go(s, "list", {})
  /\ UNCHANGED <<lock, past, events, history>>

ToPrune(s, locked) ==
  scan' = [scan EXCEPT ![s] = [pc |-> "prune", listed |-> locked, todo |-> locked, at |-> None]]

\* A search that was cut short counts as one that was not.
SelfLockedAccounts(s) ==
  /\ At(s, "list")
  /\ \/ ToPrune(s, Held)
     \/ /\ "truncated" \in Faults
        /\ \E some \in SUBSET Held : some # Held /\ ToPrune(s, some)
     \/ "listing" \in Faults /\ Stop(s)
  /\ UNCHANGED <<lock, past, events, history>>

\* s has e on its list and has yet to record it.
Reading(s, e) == scan[s].pc \in {"prune", "record", "audit"} /\ e \in scan[s].todo

\* Rows that go while somebody may yet record their lockout again.
Forgets(s, e) ==
  Row(e) /\ e \notin scan[s].listed /\ (e \in Held \/ \E t \in Scanners : Reading(t, e))

\* Mutant: as if every scan started afresh.
PruneAll(s) ==
  /\ At(s, "prune")
  /\ events' = [e \in Lockouts |-> "absent"]
  /\ Go(s, "record", scan[s].todo)
  /\ UNCHANGED <<lock, past, history>>

\* One statement; when it fails the scan goes on.
PruneLockoutEvents(s) ==
  /\ At(s, "prune")
  /\ \/ /\ events' = [e \in Lockouts |-> IF e \in scan[s].listed THEN events[e] ELSE "absent"]
        /\ forgotten' = forgotten \cup {e \in Lockouts : Forgets(s, e)}
     \/ "database" \in Faults /\ UNCHANGED <<events, forgotten>>
  /\ Go(s, "record", scan[s].todo)
  /\ UNCHANGED <<lock, past, audited, unaudited, told, resent>>

Auditing(s, e) ==
  [scan[s] EXCEPT !.pc = "audit", !.todo = scan[s].todo \ {e}, !.at = e]

\* Mutant: as if an existing row counted as inserted.
RecordUpserts(s, e) ==
  /\ At(s, "record") /\ e \in scan[s].todo
  /\ events' = [events EXCEPT ![e] = IF Row(e) THEN @ ELSE "pending"]
  /\ scan' = [scan EXCEPT ![s] = Auditing(s, e)]
  /\ UNCHANGED <<lock, past, history>>

\* The insert is the test: whoever creates the row audits the lockout.  An
\* error ends the scan, though the row may be there.
RecordLockoutSeen(s, e) ==
  /\ At(s, "record") /\ e \in scan[s].todo
  /\ \/ /\ ~Row(e)
        /\ events' = [events EXCEPT ![e] = "pending"]
        /\ scan' = [scan EXCEPT ![s] = Auditing(s, e)]
        /\ UNCHANGED unaudited
     \/ Row(e) /\ Go(s, "record", scan[s].todo \ {e}) /\ UNCHANGED <<events, unaudited>>
     \/ "database" \in Faults /\ Stop(s) /\ UNCHANGED <<events, unaudited>>
     \/ /\ "database" \in Faults /\ ~Row(e)
        /\ events' = [events EXCEPT ![e] = "pending"]
        /\ unaudited' = unaudited \cup {e}
        /\ Stop(s)
  /\ UNCHANGED <<lock, past, audited, told, forgotten, resent>>

\* Mutant: as if the audit row could wait for the mail.
AuditLater(s) ==
  /\ At(s, "audit")
  /\ scan' = [scan EXCEPT ![s] = [@ EXCEPT !.pc = "record", !.at = None]]
  /\ UNCHANGED <<lock, past, events, history>>

\* The error of the audit log is dropped.
AuditLockout(s) ==
  LET e == scan[s].at IN
  /\ At(s, "audit")
  /\ \/ audited' = audited \cup {e} /\ UNCHANGED unaudited
     \/ "audit" \in Faults /\ unaudited' = unaudited \cup {e} /\ UNCHANGED audited
  /\ scan' = [scan EXCEPT ![s] = [@ EXCEPT !.pc = "record", !.at = None]]
  /\ UNCHANGED <<lock, past, events, told, forgotten, resent>>

\* Another scan has read e as pending, and may be sending it too.
Sending(s, e) ==
  \E t \in Scanners \ {s} : scan[t].pc \in {"send", "mark"} /\ e \in scan[t].todo

\* What is listed and not yet mailed; nothing to send, or nobody to send it
\* to, ends the scan.
PendingLockoutNotifications(s) ==
  LET unnotified == {e \in scan[s].listed : events[e] = "pending"} IN
  /\ At(s, "record") /\ scan[s].todo = {}
  /\ \/ /\ unnotified # {} /\ Go(s, "send", unnotified)
        /\ resent' = resent \cup {e \in unnotified : Sending(s, e)}
     \/ unnotified = {} /\ Stop(s) /\ UNCHANGED resent
     \/ Faults \cap {"database", "recipients"} # {} /\ Stop(s) /\ UNCHANGED resent
  /\ UNCHANGED <<lock, past, events, audited, unaudited, told, forgotten>>

\* Mutant: as if a digest that failed were marked as sent.
SendAndMark(s) ==
  LET digest == scan[s].todo IN
  /\ At(s, "send")
  /\ Go(s, "mark", digest)
  /\ \/ told' = told \cup digest
     \/ "mail" \in Faults /\ UNCHANGED told
  /\ UNCHANGED <<lock, past, events, audited, unaudited, forgotten, resent>>

\* Sent to all, to none, or to some.
SendLockoutDigest(s) ==
  LET digest == scan[s].todo IN
  /\ At(s, "send")
  /\ \/ told' = told \cup digest /\ Go(s, "mark", digest) /\ UNCHANGED resent
     \/ "mail" \in Faults /\ Stop(s) /\ UNCHANGED <<told, resent>>
     \/ /\ Faults \cap {"mail", "crash"} # {}
        /\ resent' = resent \cup digest /\ Stop(s) /\ UNCHANGED told
  /\ UNCHANGED <<lock, past, events, audited, unaudited, forgotten>>

\* Mutant: as if the first row were enough.
MarkFirst(s, e) ==
  /\ At(s, "mark") /\ e \in scan[s].todo
  /\ events' = [events EXCEPT ![e] = IF Row(e) THEN "notified" ELSE @]
  /\ Go(s, "mark", {})
  /\ UNCHANGED <<lock, past, history>>

\* A row that was pruned meanwhile stays away; a failure does not stop the loop.
MarkLockoutNotified(s, e) ==
  /\ At(s, "mark") /\ e \in scan[s].todo
  /\ \/ /\ events' = [events EXCEPT ![e] = IF Row(e) THEN "notified" ELSE @]
        /\ UNCHANGED resent
     \/ "database" \in Faults /\ resent' = resent \cup {e} /\ UNCHANGED events
  /\ Go(s, "mark", scan[s].todo \ {e})
  /\ UNCHANGED <<lock, past, audited, unaudited, told, forgotten>>

\* CompleteTaskRun.
CompleteScan(s) ==
  /\ At(s, "mark") /\ scan[s].todo = {}
  /\ Stop(s)
  /\ UNCHANGED <<lock, past, events, history>>

\* The process stops: what was recorded and not audited, or mailed and not
\* marked, stays so.
Crash(s) ==
  /\ "crash" \in Faults
  /\ ~At(s, "idle")
  /\ Stop(s)
  /\ unaudited' = unaudited \cup (IF At(s, "audit") THEN {scan[s].at} ELSE {})
  /\ resent' = resent \cup (IF At(s, "mark") THEN scan[s].todo ELSE {})
  /\ UNCHANGED <<lock, past, events, audited, told, forgotten>>

Step(s) ==
  \/ SelfLockedAccounts(s) \/ PruneLockoutEvents(s)
  \/ \E e \in Lockouts : RecordLockoutSeen(s, e) \/ MarkLockoutNotified(s, e)
  \/ AuditLockout(s) \/ PendingLockoutNotifications(s) \/ SendLockoutDigest(s)
  \/ CompleteScan(s)

Directory == \E u \in Accounts : Lift(u) \/ \E i \in Instants : LockOut(u, i)

Next == Directory \/ \E s \in Scanners : StartScan(s) \/ Step(s) \/ Crash(s)

Spec == Init /\ [][Next]_vars

\* A scheduler that keeps firing, scans that go on, and a directory and a mail
\* server that do not refuse for ever.
FairSpec ==
  /\ Spec
  /\ \A s \in Scanners : WF_vars(StartScan(s)) /\ WF_vars(Step(s))
  /\ \A s \in Scanners : SF_vars(SelfLockedAccounts(s) /\ At(s, "prune")')
  /\ \A s \in Scanners : SF_vars(SendLockoutDigest(s) /\ At(s, "mark")')

-----------------------------------------------------------------------------
(* Properties. *)

\* A lockout is audited once, whatever scans overlap ("the insert is the
\* test"): who is about to audit one is the first.  The exception is a row that
\* a shorter list (cut off by the directory, or read earlier by another
\* process) pruned under a lockout still to be seen.
AuditedOnce ==
  \A s \in Scanners : At(s, "audit") => scan[s].at \notin audited \ forgotten

\* A row stands for a lockout that is in the audit log, or will be next, or
\* whose audit row failed: no scan takes another's word for an audit that
\* nobody makes.
SeenIsAudited ==
  \A e \in Lockouts :
    Row(e) => \/ e \in audited \cup unaudited
              \/ \E s \in Scanners : At(s, "audit") /\ scan[s].at = e

\* A row says "notified" only of a lockout that every recipient was told of: a
\* digest that failed for one of them is not recorded as reported.
NotifiedWasMailed == \A e \in Lockouts : events[e] = "notified" => e \in told

\* Nobody hears of a lockout twice, but for a row that was forgotten, a digest
\* that went out unmarked (or to some recipients only), or two scans that read
\* the row as pending at once: a digest is about what nobody was told of.
MailedOnce ==
  \A s \in Scanners : At(s, "send") => scan[s].todo \cap told \subseteq forgotten \cup resent

\* While a mail server refuses now and then, an account that stays locked is
\* reported in the end ("a mail outage [is] a delay rather than a loss").
OutageIsADelay == \A e \in Lockouts : <>[](e \in Held) => <>(e \in told)

-----------------------------------------------------------------------------
(* One process and whole lists: the scan implements LockoutAlerts. *)

\* e is gone for good, and no scan is about to record it from an old list.
Gone(e) == e \in past \ Held /\ ~\E s \in Scanners : Reading(s, e)

alert == [e \in Lockouts |->
  CASE events[e] = "pending" -> "open"
    [] events[e] = "notified" -> "told"
    [] OTHER -> IF Gone(e) THEN "closed" ELSE "unseen"]

Alerts == INSTANCE LockoutAlerts WITH held <- Held

\* The steps of a scan, its prune and its failures add up to the life of an
\* alert: one process whose lists are whole reports each lockout at most once,
\* and forgets none that is held.
ImplementsAlerts == Alerts!Spec
=============================================================================
