---------------------------- MODULE PolicyLocks ----------------------------
(* Locks, password policies and the clock: what ppolicy does to                *)
(* pwdAccountLockedTime during binds, what this program writes there, and what *)
(* it tells about it: the rows of a listing, the figures of the dashboard, the *)
(* lockout scan, its cadence warning and its health (internal/ldap/lockout.go,   *)
(* overview.go, users.go, groups.go, ppolicy.go; scheduler/lockout_scan.go,      *)
(* health.go).                                                                 *)
(*                                                                             *)
(* Every write leaves a record in the directory's access log, when it keeps    *)
(* one, and every request of this program its audit row before it writes:      *)
(* DirectoryChanges reads them both.                                           *)
EXTENDS Integers, FiniteSets, Sequences

CONSTANTS Accounts, Policies,
          Readers, Writers,   \* slots of requests that read, and that write
          None,
          Permanent,      \* the year-0000 value
          Garbled,        \* a value no layout reads
          Root,           \* the bind DN, also the rootdn ppolicy's writes carry
          Admin,          \* the administrator who is signed in
          Starts,         \* what the directory, and the settings, may be at first
          MaxTime,        \* bound of the model
          MaxFailures,    \* pwdMaxFailure of every policy
          OverdueGrace

VARIABLES
  start,     \* the settings, and what this behaviour may do
  now,       \* the directory's clock
  entry,     \* account -> its entry, or None
  policy,    \* policy -> its pwdLockoutDuration, or None: no such entry
  req,       \* requests of this program
  watch,     \* history: what was true at some instant of a reading
  rows,      \* audit_logs, oldest first
  log,       \* the access log, oldest first
  scan       \* the lockout scan, and what became of the lockouts

vars == <<start, now, entry, policy, req, watch, rows, log, scan>>

ASSUME SlotAssumption == Readers \cap Writers = {}
ASSUME AccountsAssumption == IsFiniteSet(Accounts)
ASSUME BoundsAssumption == MaxTime \in Nat /\ MaxFailures \in Nat \ {0} /\ OverdueGrace \in Nat \ {0}
ASSUME ValuesAssumption ==
  /\ None \notin Policies /\ None # Permanent /\ None # Garbled /\ Permanent # Garbled
  /\ {None, Permanent, Garbled} \cap Int = {}

Requests == Readers \cup Writers
Instants == 0..MaxTime
Entry == [lock : Instants \cup {None, Permanent, Garbled},
          end : Instants \cup {None},          \* pwdEndTime
          own : Policies \cup {None},          \* pwdPolicySubentry
          fails : 0..MaxFailures]              \* pwdFailureTime

\* A setting: listed are the policies below PpolicyBaseDN, readable those this
\* program is let read, configured what LDAP_DEFAULT_POLICY_DN names and server
\* what olcPPolicyDefault does; the schedule fires at some offsets of a cycle; a
\* lock that ppolicy posted comes with the failures that led to it.
IsSetting(s) ==
  /\ s.entry \in [Accounts -> Entry \cup {None}]
  /\ s.policy \in [Policies -> Instants \cup {None}]
  /\ s.listed \subseteq Policies /\ s.readable \subseteq Policies
  /\ s.configured \in Policies \cup {None} /\ s.server \in Policies \cup {None}
  /\ s.expiry \in BOOLEAN
  /\ s.skew \in Int /\ s.database \in Int
  /\ s.cycle \in Nat \ {0} /\ s.at # {} /\ s.at \subseteq 0..(s.cycle - 1)
  /\ s.dates \subseteq Instants /\ s.durations \subseteq Instants
  /\ \A w \in s.windows : w[1] \in Int /\ w[2] \in Int \cup {None}
  /\ s.room \in Nat
  /\ \A a \in Accounts : s.entry[a] # None /\ s.entry[a].lock \in Instants => s.entry[a].fails > 0

ASSUME StartsAssumption == \A s \in Starts : IsSetting(s)

May(what) == what \in start.may

-----------------------------------------------------------------------------
(* The directory's own view *)

\* The policy that governs: the entry's own, else olcPPolicyDefault.
Governs(e) == IF e.own # None THEN e.own ELSE start.server

\* account_locked() at bind time.  What happens where no policy is found is the
\* overlay's business: that the lock holds is the case that must not be hidden.
RefusesLock(e) ==
  \/ e.lock \in {Permanent, Garbled}
  \/ /\ e.lock \in Instants
     /\ LET p == Governs(e)
            d == IF p = None THEN None ELSE policy[p]
        IN  d = None \/ d = 0 \/ now < e.lock + d

Ended(e) == start.expiry /\ e.end # None /\ e.end <= now

-----------------------------------------------------------------------------
(* What this program makes of a lock (lockout.go) *)

\* This host's clock; the clock of the database stamps audit rows and task runs.
AppClock == now + start.skew
DatabaseClock == AppClock + start.database

GetPasswordPolicy(p) == IF p # None /\ p \in start.readable THEN policy[p] ELSE None

\* Neither the search nor its ACLs reach beyond PpolicyBaseDN.
ListPasswordPolicies ==
  [p \in {q \in start.listed : GetPasswordPolicy(q) # None} |-> policy[p]]

\* LDAP_DEFAULT_POLICY_DN stands in for olcPPolicyDefault.
PolicyDN(e) == IF e.own # None THEN e.own ELSE start.configured

\* Mutant: an unreadable policy is taken for a lapsed lock.
lockoutForHopeful(lock, d, t) ==
  CASE lock = None      -> "none"
    [] lock = Permanent -> "manual"
    [] lock = Garbled   -> "unknown"
    [] OTHER            -> IF d = None THEN "lifted"
                           ELSE IF d > 0 /\ t >= lock + d THEN "lifted" ELSE "active"

\* lockoutFor: d is the duration that applies, None if it could not be read.
lockoutFor(lock, d, t) ==
  CASE lock = None                      -> "none"
    [] lock = Permanent                 -> "manual"
    [] lock = Garbled                   -> "unknown"
    [] lock \in Instants /\ d = None    -> "unknown"
    [] lock \in Instants /\ d # None    ->
         IF d > 0 /\ t >= lock + d THEN "lifted" ELSE "active"

Locked(state) == state \notin {"none", "lifted"}

\* lapsedLockFilterFor: one branch per policy with a duration, one more for the
\* entries without a policy of their own.
LapsedFilter(policies, t) ==
  LET lasting == {p \in DOMAIN policies : policies[p] > 0}
  IN  {[own |-> p, upTo |-> t - policies[p]] : p \in lasting} \cup
      {[own |-> None, upTo |-> t - policies[p]] : p \in lasting \cap {start.configured}}

\* Mutant: without the floor, the permanent value sorts below every cutoff.
LapsedUnfloored(e, filter) ==
  /\ e.lock \in Instants \cup {Permanent}
  /\ \E b \in filter : b.own = e.own /\ (e.lock = Permanent \/ e.lock <= b.upTo)

\* lockFloor keeps the permanent value out; what is no generalizedTime has no place
\* in the order.
Lapsed(e, filter) ==
  e.lock \in Instants /\ \E b \in filter : b.own = e.own /\ e.lock <= b.upTo

LockedNow(e, filter) == e.lock # None /\ ~Lapsed(e, filter)

Durations == {ListPasswordPolicies[p] : p \in DOMAIN ListPasswordPolicies} \ {0}

\* Mutant: the longest one.
LongestDuration ==
  IF Durations = {} THEN None ELSE CHOOSE d \in Durations : \A o \in Durations : d >= o

\* None when no policy states one.
MinLockoutDuration ==
  IF Durations = {} THEN None ELSE CHOOSE d \in Durations : \A o \in Durations : d <= o

\* cron.Schedule.Next: the schedule fires at some offsets of a cycle.
Due(t) == t % start.cycle \in start.at
NextDue(t) ==
  CHOOSE f \in (t + 1)..(t + start.cycle) :
    Due(f) /\ \A g \in (t + 1)..(f - 1) : ~Due(g)

\* LockoutCadenceWarning: two consecutive firings measure the interval.
Measured(t) == NextDue(NextDue(t)) - NextDue(t)
CadenceWarning == MinLockoutDuration # None /\ Measured(AppClock) > MinLockoutDuration

-----------------------------------------------------------------------------
(* State *)

\* Requests that write, and requests that read.
Edits == {"lock", "unlock", "expire", "unexpire", "updatePolicy", "deletePolicy",
          "createPolicy", "ownPassword"}
Looks == {"list", "members", "overview"}
ASSUME NoneAssumption == None \notin Edits \cup Looks

Missed == [warned : BOOLEAN,      \* the cadence warning was on
           listed : BOOLEAN,      \* its policy is where MinLockoutDuration looks
           duration : Instants,
           interval : Int,       \* measured when it was dropped
           altered : BOOLEAN]
TaskRun == [at : Int, by : {"scheduler", "hand"}]
Ledger ==
  [runs : SUBSET TaskRun,       \* scheduled_task_runs
   startedAt : Int,             \* of the process's scheduler
   left : SUBSET Int,           \* firings that left no row
   seen : SUBSET Accounts,      \* whose present lock a scan has found
   fired : BOOLEAN,             \* whether this instant's scan has run
   altered : SUBSET Accounts,   \* since ppolicy's lock: edited, or a scan left out
   missed : SUBSET Missed]      \* locks ppolicy posted and dropped unseen

\* row: its audit row.  read: the value found before the write.  at: the clock
\* when the figures, or the resolver, began.  cache: the policies read so far.
Idle == [pc |-> "idle", op |-> None, on |-> None, row |-> 0, read |-> None, at |-> 0,
         since |-> 0, entries |-> None, cache |-> <<>>, filter |-> {},
         total |-> 0, locked |-> 0, ended |-> 0, limited |-> FALSE, answer |-> None]

Unwatched == [open |-> {}, running |-> {}, touched |-> {}]

TypeOK ==
  /\ now \in Instants
  /\ entry \in [Accounts -> Entry \cup {None}]
  /\ policy \in [Policies -> Instants \cup {None}]
  /\ scan \in Ledger
  /\ watch \in [Requests -> [open : SUBSET Accounts, running : SUBSET Accounts,
                             touched : SUBSET Accounts]]
  /\ \A r \in Requests :
       /\ req[r].pc \in {"idle", "read", "write", "listed", "resolve", "figures",
                         "policies", "locked", "ended", "inactive", "answered"}
       /\ req[r].op \in Edits \cup Looks \cup {None}
       /\ req[r].op \in Edits /\ May("log") => req[r].row \in 1..Len(rows) /\ rows[req[r].row].writes
  /\ \A i \in 1..Len(log) : log[i].at <= now /\ log[i].reqMod # {}

LockInit ==
  /\ start \in Starts
  /\ now = 0
  /\ entry = start.entry /\ policy = start.policy
  /\ req = [r \in Requests |-> Idle]
  /\ watch = [r \in Requests |-> Unwatched]
  /\ rows = <<>> /\ log = <<>>
  /\ scan = [runs |-> {}, startedAt |-> AppClock, left |-> {}, seen |-> {}, fired |-> FALSE, altered |-> {}, missed |-> {}]

-----------------------------------------------------------------------------
(* Records *)

\* The accesslog overlay, where there is one: reqMod has what the server adds to
\* any write, too.  start.room bounds the log, and the audit rows.
HasRoom == Len(log) < start.room
Maintained(wrote) ==
  {"modifyTimestamp"} \cup IF "userPassword" \in wrote THEN {"pwdChangedTime"} ELSE {}
Record(by, actor, wrote, row) ==
  log' = IF May("log")
           THEN Append(log, [at |-> now, by |-> by, actor |-> actor, row |-> row,
                             reqMod |-> wrote \cup Maintained(wrote)])
           ELSE log

\* What was true of an account at some instant of a reading, its last included.
Unlocked == {a \in Accounts : entry[a] # None /\ ~RefusesLock(entry[a])}
Unended  == {a \in Accounts : entry[a] # None /\ ~Ended(entry[a])}
Looking(r) == req[r].op \in Looks
Observe ==
  watch' = [r \in Requests |->
    IF ~Looking(r)' THEN Unwatched
    ELSE [open    |-> Unlocked' \cup IF Looking(r) THEN watch[r].open ELSE {},
          running |-> Unended' \cup IF Looking(r) THEN watch[r].running ELSE {},
          touched |-> IF Looking(r)
                        THEN watch[r].touched \cup {a \in Accounts : entry[a] # entry[a]'}
                        ELSE {}]]

-----------------------------------------------------------------------------
(* ppolicy, during binds *)

Put(a, e) == [entry EXCEPT ![a] = e]
Bindable(a) == entry[a] # None /\ ~RefusesLock(entry[a]) /\ ~Ended(entry[a])

\* A lock it drops is gone for good, seen by a scan or not.
Dropped(a) ==
  [scan EXCEPT
    !.seen = @ \ {a},
    !.altered = @ \ {a},
    !.missed = IF entry[a].lock = None \/ a \in scan.seen THEN @ ELSE @ \cup
      {[warned |-> CadenceWarning, listed |-> Governs(entry[a]) \in DOMAIN ListPasswordPolicies,
        duration |-> policy[Governs(entry[a])], interval |-> Measured(AppClock),
        altered |-> a \in scan.altered]}]

Bind(a, fails, lock) ==
  LET wrote == (IF fails # entry[a].fails \/ fails > 0 THEN {"pwdFailureTime"} ELSE {}) \cup
               (IF lock # entry[a].lock THEN {"pwdAccountLockedTime"} ELSE {})
  IN  /\ wrote # {}
      /\ entry' = Put(a, [entry[a] EXCEPT !.fails = fails, !.lock = lock])
      /\ Record("ppolicy", Root, wrote, 0)
      /\ scan' = Dropped(a)
      /\ UNCHANGED <<start, now, policy, req, rows>>

\* One more failure, older ones may have aged out; one too many posts a lock.
FailedBind(a) ==
  /\ May("bind") /\ HasRoom
  /\ Bindable(a)
  /\ Governs(entry[a]) # None /\ policy[Governs(entry[a])] # None
  /\ \E n \in 1..MaxFailures :
       /\ n <= entry[a].fails + 1
       /\ Bind(a, n, IF n = MaxFailures THEN now ELSE None)

\* The failures are cleared and, with them, a lock that has lapsed.
GoodBind(a) ==
  /\ May("bind") /\ HasRoom
  /\ Bindable(a)
  /\ Bind(a, 0, None)

-----------------------------------------------------------------------------
(* Other tools, the clock, the process *)

Edited(es) == [scan EXCEPT !.seen = @ \ es, !.altered = @ \cup es]
Governed(p) == {a \in Accounts : entry[a] # None /\ Governs(entry[a]) = p}

\* An ldapmodify, perhaps with this program's own credentials.
LockByHand(a) ==
  /\ May("handLock") /\ HasRoom
  /\ entry[a] # None
  /\ \E lock \in {None, Permanent} \ {entry[a].lock} :
       entry' = Put(a, [entry[a] EXCEPT !.lock = lock])
  /\ \E actor \in {Root, a} : Record("hand", actor, {"pwdAccountLockedTime"}, 0)
  /\ scan' = Edited({a})
  /\ UNCHANGED <<start, now, policy, req, rows>>

\* An account comes or goes.
Provision(a) ==
  /\ May("provision") /\ HasRoom
  /\ entry' = Put(a, IF entry[a] # None THEN None
                     ELSE [lock |-> None, end |-> None, own |-> None, fails |-> 0])
  /\ Record("hand", Root, {"entry"}, 0)
  /\ scan' = Edited({a})
  /\ UNCHANGED <<start, now, policy, req, rows>>

\* The clock does not pass a scan that is due, which cron starts on the minute,
\* unless the process is down; it may be started again by the next instant.
ScanDue == May("scan") /\ Due(AppClock) /\ ~scan.fired
LeftOut(ledger) ==
  [ledger EXCEPT !.left = @ \cup {AppClock}, !.altered = Accounts]
Tick ==
  /\ now < MaxTime
  /\ now' = now + 1
  /\ LET later == [(IF ScanDue THEN LeftOut(scan) ELSE scan) EXCEPT !.fired = FALSE]
     IN  \/ ~ScanDue /\ scan' = later
         \/ May("down") /\ scan' = [later EXCEPT !.startedAt = AppClock + 1]
  /\ UNCHANGED <<start, entry, policy, req, rows, log>>

-----------------------------------------------------------------------------
(* Requests that write: their row first, then the directory *)

\* Kept where the log is read; nothing else looks at them.
Audit(actor, writes) ==
  /\ Len(rows) < start.room
  /\ rows' = IF May("log")
               THEN Append(rows, [at |-> DatabaseClock, actor |-> actor, writes |-> writes])
               ELSE rows

\* lock refuses the caller's own account; Admin is none of them.
BeginEdit(r) ==
  /\ r \in Writers /\ req[r].pc = "idle"
  /\ \E op \in Edits \cap start.may :
       \E on \in (IF op \in {"updatePolicy", "deletePolicy", "createPolicy"} THEN start.listed ELSE Accounts) :
         /\ Audit(IF op = "ownPassword" THEN on ELSE Admin, TRUE)
         /\ req' = [req EXCEPT ![r] = [Idle EXCEPT
                      !.op = op, !.on = on, !.row = Len(rows'),
                      !.pc = IF op \in {"lock", "unlock", "expire", "unexpire", "updatePolicy"}
                               THEN "read" ELSE "write"]]
  /\ UNCHANGED <<start, now, entry, policy, log, scan>>

\* A row of readOnlyActions: a sign-in, an export, a schema refresh.
AuditOnly ==
  /\ May("refresh")
  /\ Audit(Admin, FALSE)
  /\ UNCHANGED <<start, now, entry, policy, req, log, scan>>

\* An error ends any of them: the directory does not answer, or refuses.
GiveUp(r) ==
  /\ req[r].pc \in {"read", "write"}
  /\ req' = [req EXCEPT ![r] = Idle]
  /\ UNCHANGED <<start, now, entry, policy, rows, log, scan>>

Found(r, value, goesOn) ==
  req' = [req EXCEPT ![r] = IF goesOn THEN [@ EXCEPT !.read = value, !.pc = "write"] ELSE Idle]

ReadBeforeWrite(r) ==
  /\ req[r].pc = "read"
  /\ LET e == IF req[r].on \in Accounts THEN entry[req[r].on] ELSE None
         d == GetPasswordPolicy(req[r].on)
     IN  \/ req[r].op = "lock" /\ Found(r, IF e = None THEN None ELSE e.lock, e # None)
         \/ /\ req[r].op = "unlock"
            /\ Found(r, None, IF e = None THEN FALSE ELSE e.lock # None)
         \/ /\ req[r].op = "expire"
            /\ Found(r, IF e = None THEN None ELSE e.end, e # None /\ start.expiry)
         \/ /\ req[r].op = "unexpire"
            /\ Found(r, None, IF e = None THEN FALSE ELSE e.end # None)
         \/ req[r].op = "updatePolicy" /\ Found(r, d, d # None)
  /\ UNCHANGED <<start, now, entry, policy, rows, log, scan>>

\* A modify says add, replace or delete by what was read, and is refused when the
\* value has come or gone since; nothing else is looked at again.
Write(r, wrote, holds, es, ps, touched) ==
  /\ req[r].pc = "write" /\ HasRoom
  /\ holds
  /\ entry' = es /\ policy' = ps
  /\ Record("app", IF req[r].op = "ownPassword" THEN req[r].on ELSE Root, wrote, req[r].row)
  /\ scan' = Edited(touched)
  /\ req' = [req EXCEPT ![r] = Idle]
  /\ UNCHANGED <<start, now, rows>>

\* LockUser, UnlockUser
WriteLock(r) ==
  LET a == req[r].on
  IN  /\ req[r].op \in {"lock", "unlock"} /\ entry[a] # None
      /\ Write(r, {"pwdAccountLockedTime"},
               IF req[r].op = "lock" THEN req[r].read # None \/ entry[a].lock = None
                                     ELSE entry[a].lock # None,
               Put(a, [entry[a] EXCEPT !.lock = IF req[r].op = "lock" THEN Permanent ELSE None]),
               policy, {a})

\* SetUserExpiration
WriteExpiry(r) ==
  LET a == req[r].on
  IN  /\ req[r].op \in {"expire", "unexpire"} /\ entry[a] # None
      /\ \E t \in IF req[r].op = "expire" THEN start.dates ELSE {None} :
           Write(r, {"pwdEndTime"},
                 IF req[r].op = "expire" THEN req[r].read # None \/ entry[a].end = None
                                         ELSE entry[a].end # None,
                 Put(a, [entry[a] EXCEPT !.end = t]), policy, {})

\* UpdatePasswordPolicy: a zero removes the attribute.
WritePolicy(r) ==
  LET p == req[r].on
  IN  /\ req[r].op = "updatePolicy" /\ policy[p] # None
      /\ \E d \in start.durations :
           Write(r, {"pwdLockoutDuration"},
                 IF d > 0 THEN req[r].read > 0 \/ policy[p] = 0
                          ELSE req[r].read > 0 /\ policy[p] > 0,
                 entry, [policy EXCEPT ![p] = d], Governed(p))

\* CreatePasswordPolicy, DeletePasswordPolicy; entries go on naming what is gone.
AddOrRemovePolicy(r) ==
  LET p == req[r].on
  IN  \/ /\ req[r].op = "createPolicy"
         /\ \E d \in start.durations :
              Write(r, {"entry"}, policy[p] = None, entry, [policy EXCEPT ![p] = d], Governed(p))
      \/ /\ req[r].op = "deletePolicy"
         /\ Write(r, {"entry"}, policy[p] # None, entry, [policy EXCEPT ![p] = None], Governed(p))

\* A change the user makes is made as the user.
WritePassword(r) ==
  /\ req[r].op = "ownPassword" /\ entry[req[r].on] # None
  /\ Write(r, {"userPassword"}, TRUE, entry, policy, {})

-----------------------------------------------------------------------------
(* Rows: the users list, a group's members *)

\* The entries are read, and only then does the resolver note the time.
BeginRows(r, op) ==
  /\ r \in Readers /\ req[r].pc = "idle" /\ May(op)
  /\ req' = [req EXCEPT ![r] = [Idle EXCEPT !.op = op, !.pc = "listed", !.entries = entry]]
  /\ UNCHANGED <<start, now, entry, policy, rows, log, scan>>

SearchUsersPage(r) == BeginRows(r, "list")
GroupMembers(r) == BeginRows(r, "members")

NewResolver(r) ==
  /\ req[r].pc = "listed"
  /\ req' = [req EXCEPT ![r].pc = "resolve", ![r].at = AppClock]
  /\ UNCHANGED <<start, now, entry, policy, rows, log, scan>>

Timestamped(es) == {a \in Accounts : es[a] # None /\ es[a].lock \notin {None, Permanent}}
Wanted(es) == {PolicyDN(es[a]) : a \in {b \in Accounts : es[b] # None} \cap Timestamped(es)} \ {None}

\* Each policy is read once, the unreadable ones too.
ResolvePolicy(r) ==
  /\ req[r].pc = "resolve"
  /\ \E p \in Wanted(req[r].entries) \ DOMAIN req[r].cache :
       req' = [req EXCEPT ![r].cache =
                 [q \in DOMAIN @ \cup {p} |-> IF q = p THEN GetPasswordPolicy(p) ELSE @[q]]]
  /\ UNCHANGED <<start, now, entry, policy, rows, log, scan>>

Resolved(q, e) ==
  lockoutFor(e.lock,
             IF PolicyDN(e) \in DOMAIN q.cache THEN q.cache[PolicyDN(e)] ELSE None, q.at)

\* UserListItem.expired asks the clock again; a member's row gives the date.
Expired(e) == e.end # None /\ e.end <= AppClock

AnswerList(r) ==
  LET q == req[r]
  IN  /\ q.pc = "resolve"
      /\ Wanted(q.entries) \subseteq DOMAIN q.cache
      /\ req' = [req EXCEPT ![r] = [Idle EXCEPT !.op = q.op, !.pc = "answered", !.answer =
                   {a \in Accounts : /\ q.entries[a] # None
                                     /\ ~Locked(Resolved(q, q.entries[a]))
                                     /\ q.op = "list" => ~Expired(q.entries[a])}]]
      /\ UNCHANGED <<start, now, entry, policy, rows, log, scan>>

-----------------------------------------------------------------------------
(* Figures: GetOverview, search by search *)

\* CountEntries: slapd may stop at a limit, and says so.
Count(r, s, pc, n) ==
  /\ n \in IF May("limit") THEN 0..Cardinality(s) ELSE {Cardinality(s)}
  /\ req' = [req EXCEPT ![r] = [pc EXCEPT !.limited = @ \/ n < Cardinality(s)]]

There == {a \in Accounts : entry[a] # None}

CountUsers(r) ==
  /\ r \in Readers /\ req[r].pc = "idle" /\ May("overview")
  /\ \E n \in 0..Cardinality(There) :
       Count(r, There, [Idle EXCEPT !.op = "overview", !.pc = "figures",
                                    !.since = AppClock, !.total = n], n)
  /\ UNCHANGED <<start, now, entry, policy, rows, log, scan>>

\* lapsedLockFilter is given the time, then lists the policies: none of them when
\* that fails.
AskTime(r) ==
  /\ req[r].pc = "figures"
  /\ req' = [req EXCEPT ![r].pc = "policies", ![r].at = AppClock]
  /\ UNCHANGED <<start, now, entry, policy, rows, log, scan>>

ListPolicies(r) ==
  /\ req[r].pc = "policies"
  /\ \E filter \in {LapsedFilter(ListPasswordPolicies, req[r].at)} \cup
                   (IF May("listing") THEN {{}} ELSE {}) :
       req' = [req EXCEPT ![r].pc = "locked", ![r].filter = filter]
  /\ UNCHANGED <<start, now, entry, policy, rows, log, scan>>

LockedBy(filter) == {a \in There : LockedNow(entry[a], filter)}
EndedBy(t) == {a \in There : entry[a].end # None /\ entry[a].end <= t}

CountLocked(r) ==
  /\ req[r].pc = "locked"
  /\ \E n \in 0..Cardinality(There) :
       Count(r, LockedBy(req[r].filter),
             [req[r] EXCEPT !.pc = IF start.expiry THEN "ended" ELSE "inactive", !.locked = n], n)
  /\ UNCHANGED <<start, now, entry, policy, rows, log, scan>>

CountEnded(r) ==
  /\ req[r].pc = "ended"
  /\ \E n \in 0..Cardinality(There) :
       Count(r, EndedBy(req[r].since), [req[r] EXCEPT !.pc = "inactive", !.ended = n], n)
  /\ UNCHANGED <<start, now, entry, policy, rows, log, scan>>

Active(total, inactive) == IF total < inactive THEN 0 ELSE total - inactive

\* The union is counted by a search of its own, which is saved where the figures
\* already decide it.
AnswerOverview(r) ==
  LET q == req[r]
      union == LockedBy(q.filter) \cup EndedBy(q.since)
      answered(n) == [Idle EXCEPT !.op = "overview", !.pc = "answered",
                                  !.limited = q.limited, !.answer = Active(q.total, n)]
  IN  /\ q.pc = "inactive"
      /\ \/ /\ q.locked = 0 /\ q.ended = 0
            /\ req' = [req EXCEPT ![r] = answered(0)]
         \/ /\ q.locked > 0 /\ ~start.expiry
            /\ req' = [req EXCEPT ![r] = answered(q.locked)]
         \/ /\ q.locked + q.ended > 0 /\ start.expiry
            /\ \E n \in 0..Cardinality(There) : Count(r, union, answered(n), n)
      /\ UNCHANGED <<start, now, entry, policy, rows, log, scan>>

Dismiss(r) ==
  /\ req[r].pc = "answered"
  /\ req' = [req EXCEPT ![r] = Idle]
  /\ UNCHANGED <<start, now, entry, policy, rows, log, scan>>

-----------------------------------------------------------------------------
(* The lockout scan *)

\* SelfLockedAccounts: all but the manual ones.
SelfLocked == {a \in There : entry[a].lock \notin {None, Permanent}}

\* A run reads the locked accounts; one whose instant it cannot read is reported
\* and not recorded.
Started(by) == [scan EXCEPT !.runs = @ \cup {[at |-> DatabaseClock, by |-> by]}]
Scanned(ledger) ==
  [ledger EXCEPT !.seen = @ \cup {a \in SelfLocked : entry[a].lock \in Instants}]

\* Without its row a run ends at once; when the search fails it ends later.
RunScan ==
  /\ ScanDue
  /\ LET fired == [Started("scheduler") EXCEPT !.fired = TRUE]
     IN  \/ scan' = Scanned(fired)
         \/ May("listing") /\ scan' = [fired EXCEPT !.altered = Accounts]
         \/ May("database") /\ scan' = [LeftOut(scan) EXCEPT !.fired = TRUE]
  /\ UNCHANGED <<start, now, entry, policy, req, rows, log>>

\* TriggerLockoutScan
TriggerScan ==
  /\ May("trigger")
  /\ scan' = Scanned(Started("hand"))
  /\ UNCHANGED <<start, now, entry, policy, req, rows, log>>

-----------------------------------------------------------------------------
(* TaskHealth *)

\* Mutant: a manual run counts.
LastRunOfAny(scheduledOnly) ==
  LET ats == {r.at : r \in scan.runs}
  IN  IF ats = {} THEN None ELSE CHOOSE t \in ats : \A u \in ats : u <= t

LastTaskRun(scheduledOnly) ==
  LET ats == {r.at : r \in {q \in scan.runs : scheduledOnly => q.by = "scheduler"}}
  IN  IF ats = {} THEN None ELSE CHOOSE t \in ats : \A u \in ats : u <= t

\* The first firing after the last scheduled run, or after the process started.
expectedRun(from) == NextDue(IF from = None THEN scan.startedAt ELSE from)

\* A request that was received at this time.
Overdue(t) == expectedRun(LastTaskRun(TRUE)) + OverdueGrace <= t

Step ==
  \/ Tick \/ RunScan \/ TriggerScan \/ AuditOnly
  \/ \E a \in Accounts : FailedBind(a) \/ GoodBind(a) \/ LockByHand(a) \/ Provision(a)
  \/ \E r \in Requests :
       \/ BeginEdit(r) \/ ReadBeforeWrite(r) \/ GiveUp(r)
       \/ WriteLock(r) \/ WriteExpiry(r) \/ WritePolicy(r) \/ AddOrRemovePolicy(r)
       \/ WritePassword(r)
       \/ SearchUsersPage(r) \/ GroupMembers(r) \/ NewResolver(r) \/ ResolvePolicy(r) \/ AnswerList(r)
       \/ CountUsers(r) \/ AskTime(r) \/ ListPolicies(r) \/ CountLocked(r)
       \/ CountEnded(r) \/ AnswerOverview(r) \/ Dismiss(r)

LockNext == Step /\ Observe

-----------------------------------------------------------------------------
(* Properties *)

\* "declining to guess must never report a locked account as usable": a row, or
\* the dashboard's Active figure, counts an account as usable only if no lock
\* refused it at some instant of the reading, and its expiry had not passed at
\* one; unless the entry was written meanwhile, or slapd cut the figures short
\* and the answer says so.  That is as far as this program knows what the server
\* goes by: the time, and the policy that applies by default.
InStep == start.skew = 0 /\ start.configured \in {start.server, None}
LockedNeverReadsUsable ==
  \A r \in Requests : InStep /\ req[r].pc = "answered" /\ ~req[r].limited =>
    LET unlocked == watch[r].open \cup watch[r].touched
        usable == (watch[r].open \cap watch[r].running) \cup watch[r].touched
    IN  CASE req[r].op = "list"     -> req[r].answer \subseteq usable
          [] req[r].op = "members"  -> req[r].answer \subseteq unlocked
          [] req[r].op = "overview" -> req[r].answer <= Cardinality(usable)

\* GetOverview: figures that disagree with the users list are what the filter is
\* for.  At any instant it matches every account whose row says locked; and no
\* other whose policy is readable below PpolicyBaseDN.
FiguresAgreeWithRows ==
  \A a \in There :
    LET e == entry[a]
        row == lockoutFor(e.lock, GetPasswordPolicy(PolicyDN(e)), AppClock)
        figure == LockedNow(e, LapsedFilter(ListPasswordPolicies, AppClock))
    IN  /\ Locked(row) => figure
        /\ figure /\ PolicyDN(e) \in DOMAIN ListPasswordPolicies => Locked(row)

\* LockoutCadenceWarning: a lockout that starts and expires between two runs was
\* warned of, unless the lock or its policy was edited or a run left out, the
\* policy is not where MinLockoutDuration looks, or two firings do not measure the
\* schedule: it is uneven, with longer waits than the one measured, or the interval
\* is exactly as long as the lockout.
Clock == start.skew..(start.skew + MaxTime)
EvenSchedule == \A t, u \in Clock : NextDue(t) - t <= Measured(u)
MissedIsWarned ==
  \A m \in scan.missed :
    \/ m.warned \/ m.altered \/ ~m.listed
    \/ ~EvenSchedule \/ m.interval = m.duration \/ ~May("scan")

\* "Overdue is set when a scheduled run should have started by now and has not": a
\* firing that left no row, after the last one that did, whatever was run by hand.
\* It is set as soon as the grace is over, unless no scheduled run ever was and the
\* process was started since, "a fire time before it could not have happened
\* here".  A database clock that lags sets it for no reason, one that is ahead may
\* keep it unset.
OverdueIsMissed ==
  LET scheduled == {r.at : r \in {q \in scan.runs : q.by = "scheduler"}}
      missed(t) == {f \in scan.left :
                     /\ f + OverdueGrace <= t
                     /\ \A at \in scheduled : at < f
                     /\ scheduled = {} => scan.startedAt < f}
  IN  May("scan") => \A t \in 0..AppClock :
        /\ Overdue(t) /\ start.database >= 0 => missed(t) # {}
        /\ missed(t) # {} => Overdue(t)
=============================================================================
