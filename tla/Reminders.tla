------------------------------ MODULE Reminders ------------------------------
(***************************************************************************)
(* The expiry reminders: the tasks users_expiration, which writes to every *)
(* administrator, and passwords_expiration, which writes to the account.   *)
(*                                                                         *)
(* A run (scheduler/account_expiration.go, password_expiration.go) reads   *)
(* the accounts once, and for each asks the table                          *)
(* expiration_notifications, mails, and records what it mailed: one row    *)
(* for an account, an interval and a day, however many were written to.    *)
(* A run of a task excludes another run of it in the process.  The account *)
(* task runs only where the directory has pwdEndTime, so the module is     *)
(* composed with CapabilityProbe, whose callers include that task.         *)
(*                                                                         *)
(* Time is the interval an expiry is in; it passes an expiry by expiry.    *)
(*                                                                         *)
(* History only, read by no guard: told, again, lapses and refused.        *)
(***************************************************************************)
EXTENDS CapabilityProbe

CONSTANTS
  Users,        \* accounts
  Admins,       \* members of the admin group
  Dates,        \* days on which something may expire
  FirstLeft     \* how far off an expiry is when it is set (a bound on time)

AccountTask == "users_expiration"
PasswordTask == "passwords_expiration"
Tasks == {AccountTask, PasswordTask}

\* How far off an expiry is: over three weeks, then the four intervals, then more
\* than a day ago.
Past == 5
IntervalOf == <<"3_weeks", "1_week", "1_day", "expired">>
Due(left) == left \in DOMAIN IntervalOf

\* Where an expiry comes from: pwdEndTime; the password policy; shadow dates.
Sources == {"entry", "policy", "shadow"}
Expiry == [date : Dates, left : 0..Past]

\* notification_type, user_dn, interval_key, DATE(expiration_date).
Keys == Tasks \X Users \X (DOMAIN IntervalOf) \X Dates
People == Users \cup Admins

ASSUME RemindersAssumption ==
  /\ AccountTask \in Callers
  /\ FirstLeft \in 0..Past /\ None \notin Expiry /\ None \notin Keys

VARIABLES
  expiry,     \* expiry[u][s]: the expiry source s gives for u, or None
  rows,       \* expiration_notifications
  run,        \* run[k]: the run of task k
  told,       \* history: who got which reminder
  again,      \* history: who got which reminder a second time
  lapses,     \* history: reminders sent with no row to show for it
  refused     \* history: recipients of a reminder who did not get it

reminderVars == <<expiry, rows, run, told, again, lapses, refused>>
history == <<told, again, lapses, refused>>
vars == <<probeVars, reminderVars>>

Run == [pc : {"idle", "capabilities", "answer", "list", "prepare", "next", "send", "record"},
        listed : [Users -> [Sources -> Expiry \cup {None}]],   \* as it was read
        policies : BOOLEAN,                       \* whether the policies could be read
        todo : SUBSET Users,
        to : SUBSET Admins,                       \* administrators with an address
        key : Keys \cup {None},                   \* the reminder being sent
        left : SUBSET People]                     \* still to be written to

Unset == [u \in Users |-> [s \in Sources |-> None]]
Idle == [pc |-> "idle", listed |-> Unset, policies |-> TRUE, todo |-> {}, to |-> {},
         key |-> None, left |-> {}]

TypeOK ==
  /\ ProbeTypeOK
  /\ expiry \in [Users -> [Sources -> Expiry \cup {None}]]
  /\ rows \subseteq Keys
  /\ run \in [Tasks -> Run]
  /\ told \subseteq Keys \X People /\ again \subseteq told
  /\ lapses \subseteq Keys /\ refused \subseteq Keys \X People
  /\ \A k \in Tasks : run[k].key # None <=> run[k].pc \in {"send", "record"}

Init ==
  /\ ProbeInit
  /\ expiry = Unset
  /\ rows = {}
  /\ run = [k \in Tasks |-> Idle]
  /\ told = {} /\ again = {} /\ lapses = {} /\ refused = {}

-----------------------------------------------------------------------------
(* The directory and the clock *)

SetExpiry(u, s, e) ==
  /\ changes < MaxChanges /\ changes' = changes + 1
  /\ expiry' = [expiry EXCEPT ![u][s] = e]
  /\ UNCHANGED <<menu, overlay, names, cache, inflight, verdict, ask, selftest, since>>
  /\ UNCHANGED <<rows, run, history>>

\* An expiry is set, moved or cleared; pwdEndTime needs its attribute type.
MoveExpiry(u, s) ==
  /\ s \in menu
  /\ \/ /\ s = "entry" => "pwdEndTime" \in names
        /\ \E d \in Dates : SetExpiry(u, s, [date |-> d, left |-> FirstLeft])
     \/ SetExpiry(u, s, None)

TimePasses(u, s) ==
  /\ "time" \in menu
  /\ expiry[u][s] # None /\ expiry[u][s].left < Past
  /\ SetExpiry(u, s, [expiry[u][s] EXCEPT !.left = @ + 1])

-----------------------------------------------------------------------------
(* One run of a task *)

RunGoes(k, new) == run' = [run EXCEPT ![k] = new]
To(k, pc) == [run[k] EXCEPT !.pc = pc]

Only(k, new) == RunGoes(k, new) /\ UNCHANGED <<probeVars, expiry, rows, history>>

\* The flag, and the row of the run, without which it ends.
StartTask(k) ==
  /\ k \in menu /\ run[k].pc = "idle"
  /\ Only(k, [Idle EXCEPT !.pc = IF k = AccountTask THEN "capabilities" ELSE "list"])

\* The task asks like any other caller.
AskCapabilities ==
  /\ run[AccountTask].pc = "capabilities"
  /\ Look(AccountTask)
  /\ RunGoes(AccountTask, To(AccountTask, "answer"))
  /\ UNCHANGED <<expiry, rows, history>>

AwaitCapabilities ==
  /\ run[AccountTask].pc = "answer" /\ ask[AccountTask].pc # "idle"
  /\ Capabilities(AccountTask)
  /\ UNCHANGED reminderVars

\* Without pwdEndTime there is nothing to check, and the run ends.
TakeCapabilities ==
  LET k == AccountTask IN
  /\ run[k].pc = "answer" /\ ask[k].pc = "idle"
  /\ Only(k, IF "pwdEndTime" \in ask[k].caps.names THEN To(k, "list") ELSE Idle)

ListUsers(k) ==
  /\ run[k].pc = "list"
  /\ \/ Only(k, [To(k, "prepare") EXCEPT !.listed = expiry, !.todo = Users])
     \/ "listing" \in menu /\ Only(k, Idle)

\* A member of the admin group whose lookup fails is left out; with nobody to
\* write to the run ends.
getAdminEmails ==
  LET k == AccountTask IN
  /\ run[k].pc = "prepare"
  /\ \E to \in IF "recipients" \in menu THEN SUBSET Admins ELSE {Admins} :
       Only(k, IF to = {} THEN Idle ELSE [To(k, "next") EXCEPT !.to = to])

\* Without the policies, shadow dates are all there is.
ListPasswordPolicies ==
  LET k == PasswordTask IN
  /\ run[k].pc = "prepare"
  /\ \E ok \in IF "listing" \in menu THEN BOOLEAN ELSE {TRUE} :
       Only(k, [To(k, "next") EXCEPT !.policies = ok])

ExpirationOf(k, u) ==
  LET listed == run[k].listed[u] IN
  CASE k = AccountTask -> listed["entry"]
    [] k = PasswordTask /\ run[k].policies /\ listed["policy"] # None -> listed["policy"]
    [] OTHER -> listed["shadow"]

Recipients(k, u) == IF k = AccountTask THEN run[k].to ELSE {u}

\* Who ought to be written to.
Concerned(key) == IF key[1] = AccountTask THEN Admins ELSE {key[2]}

Drop(k, u) == [To(k, "next") EXCEPT !.todo = @ \ {u}, !.key = None]

\* Mutant: as if an expiry that has come needed no reminder.
DueBefore(k, u) ==
  LET e == ExpirationOf(k, u)
  IN IF e = None \/ ~Due(e.left) \/ e.left = 4 THEN {} ELSE {<<k, u, e.left, e.date>>}

\* The reminder account u is due, if any.
DueFor(k, u) ==
  LET e == ExpirationOf(k, u)
  IN IF e = None \/ ~Due(e.left) THEN {} ELSE {<<k, u, e.left, e.date>>}

WasNotificationSent(k, u) == DueFor(k, u) \subseteq rows

\* Not due, told already, or the table could not be asked.
SkipUser(k, u) ==
  /\ run[k].pc = "next" /\ u \in run[k].todo
  /\ WasNotificationSent(k, u) \/ "database" \in menu
  /\ Only(k, Drop(k, u))

\* Mutant: as if an error of the lookup meant that there is no row.
NotifyUserAnyway(k, u) ==
  /\ run[k].pc = "next" /\ u \in run[k].todo
  /\ ~WasNotificationSent(k, u) \/ "database" \in menu
  /\ \E key \in DueFor(k, u) :
       /\ RunGoes(k, [To(k, "send") EXCEPT !.key = key, !.left = Recipients(k, u)])
       /\ refused' = refused \cup ({key} \X (Concerned(key) \ Recipients(k, u)))
  /\ UNCHANGED <<probeVars, expiry, rows, told, again, lapses>>

NotifyUser(k, u) ==
  /\ run[k].pc = "next" /\ u \in run[k].todo
  /\ ~WasNotificationSent(k, u)
  /\ \E key \in DueFor(k, u) :
       /\ RunGoes(k, [To(k, "send") EXCEPT !.key = key, !.left = Recipients(k, u)])
       /\ refused' = refused \cup ({key} \X (Concerned(key) \ Recipients(k, u)))
  /\ UNCHANGED <<probeVars, expiry, rows, told, again, lapses>>

Delivered(k, a) ==
  /\ told' = told \cup {<<run[k].key, a>>}
  /\ again' = again \cup (told \cap {<<run[k].key, a>>})

\* Mutant: as if one administrator who could be written to were enough.
SendToFirst(k, a) ==
  /\ run[k].pc = "send" /\ a \in run[k].left
  /\ \/ /\ Delivered(k, a)
        /\ RunGoes(k, [To(k, "record") EXCEPT !.left = {}])
        /\ UNCHANGED <<lapses, refused>>
     \/ /\ "mail" \in menu /\ refused' = refused \cup {<<run[k].key, a>>}
        /\ RunGoes(k, [run[k] EXCEPT !.left = @ \ {a}])
        /\ UNCHANGED <<told, again, lapses>>
  /\ UNCHANGED <<probeVars, expiry, rows>>

\* A mail that is refused does not keep the others from theirs.
SendNotification(k, a) ==
  /\ run[k].pc = "send" /\ a \in run[k].left
  /\ \/ /\ Delivered(k, a)
        /\ RunGoes(k, [To(k, "record") EXCEPT !.left = @ \ {a}])
        /\ UNCHANGED <<lapses, refused>>
     \/ /\ "mail" \in menu /\ refused' = refused \cup {<<run[k].key, a>>}
        /\ RunGoes(k, [run[k] EXCEPT !.left = @ \ {a}])
        /\ UNCHANGED <<told, again, lapses>>
     \/ /\ "mail" \in menu /\ Delivered(k, a)        \* and the server's answer is lost
        /\ lapses' = lapses \cup {run[k].key}
        /\ RunGoes(k, [run[k] EXCEPT !.left = @ \ {a}])
        /\ UNCHANGED refused
  /\ UNCHANGED <<probeVars, expiry, rows>>

FinishUser(k) ==
  /\ run[k].pc = "send" /\ run[k].left = {}
  /\ Only(k, Drop(k, run[k].key[2]))

\* ON CONFLICT DO NOTHING; an error is dropped.
RecordNotification(k) ==
  /\ run[k].pc = "record"
  /\ \/ rows' = rows \cup {run[k].key} /\ UNCHANGED lapses
     \/ "database" \in menu /\ lapses' = lapses \cup {run[k].key} /\ UNCHANGED rows
  /\ RunGoes(k, To(k, "send"))
  /\ UNCHANGED <<probeVars, expiry, told, again, refused>>

CompleteTask(k) ==
  /\ run[k].pc = "next" /\ run[k].todo = {}
  /\ Only(k, Idle)

RunStep(k) ==
  \/ k = AccountTask /\ (AskCapabilities \/ AwaitCapabilities \/ TakeCapabilities)
  \/ k = AccountTask /\ getAdminEmails
  \/ k = PasswordTask /\ ListPasswordPolicies
  \/ ListUsers(k)
  \/ \E u \in Users : SkipUser(k, u) \/ NotifyUser(k, u)
  \/ \E a \in People : SendNotification(k, a)
  \/ FinishUser(k) \/ RecordNotification(k) \/ CompleteTask(k)

-----------------------------------------------------------------------------

\* The process stops: a run is cut off where it is.
Crash ==
  /\ Restart
  /\ run' = [k \in Tasks |-> Idle]
  /\ lapses' = lapses \cup {run[k].key : k \in {j \in Tasks : run[j].pc = "record"}}
  /\ refused' = refused \cup
       UNION {{run[k].key} \X run[k].left : k \in {j \in Tasks : run[j].key # None}}
  /\ UNCHANGED <<expiry, rows, told, again>>

\* Every other caller: a handler that reads the overview or the configuration.
Serve(c) ==
  /\ c # AccountTask
  /\ ask[c].pc = "idle" => "ask" \in menu
  /\ Capabilities(c)

ProbeNext ==
  \/ \E c \in Callers : Serve(c)
  \/ RefreshCapabilities \/ Reconfigure
  \/ \E t \in Tests : TestPolicyEnforcement(t)
  \/ RemoveLeftover

Next ==
  \/ ProbeNext /\ UNCHANGED reminderVars
  \/ \E u \in Users, s \in Sources : MoveExpiry(u, s) \/ TimePasses(u, s)
  \/ \E k \in Tasks : StartTask(k) \/ RunStep(k)
  \/ Crash

Spec == Init /\ [][Next]_vars

\* Cron starts a task again and again, a run is sequential, and a search has a
\* deadline; handlers never have to ask.
Fairness ==
  /\ \A k \in Tasks : WF_vars(StartTask(k)) /\ WF_vars(RunStep(k))
  /\ \A c \in Callers :
       WF_vars(ask[c].pc # "idle" /\ Serve(c) /\ UNCHANGED reminderVars)

FairSpec == Spec /\ Fairness

-----------------------------------------------------------------------------
(* Properties *)

\* The rows are there so that nobody is reminded of the same thing twice.  Nobody
\* is, through runs, retries, other intervals, dates moved there and back, unless
\* an earlier mail of that reminder left no row: the insert failed, the process
\* stopped before it, the mail server's answer was lost.
RemindedOnce == \A r \in again : r[1] \in lapses

\* A row stands for a reminder somebody was sent, and everyone concerned was sent
\* it as well, is about to be, or could not be reached at the time: that is final,
\* as the row keeps later runs from trying again.
RowAccountsForAll ==
  \A key \in rows :
    /\ \E a \in People : <<key, a>> \in told
    /\ \A a \in Concerned(key) :
         \/ <<key, a>> \in told \cup refused
         \/ run[key[1]].key = key /\ a \in run[key[1]].left

\* The reminder that is due now.
Current(key) ==
  LET e == expiry[key[2]] IN
  CASE key[1] = AccountTask -> e["entry"] = [date |-> key[4], left |-> key[3]]
    [] OTHER -> [date |-> key[4], left |-> key[3]] =
                  IF e["policy"] # None THEN e["policy"] ELSE e["shadow"]

Outstanding(k) ==
  /\ \E key \in Keys : key[1] = k /\ Current(key) /\ key \notin rows
  /\ k = AccountTask => ~cache.probed \/ "pwdEndTime" \in cache.caps.names

\* Where nothing fails, the reminders of a task are sent for as long as it is run,
\* before they are overtaken by other edits or by time; only those of accounts stop,
\* while the process believes that the directory has no pwdEndTime.
DueIsReminded ==
  \A k \in Tasks : menu \cap AllFaults = {} /\ k \in menu => []<>~Outstanding(k)
=============================================================================
