# LDAP Warden: a verification project

LDAP Warden is a web application for administering an OpenLDAP directory: a Go
server (`internal/`, `cmd/server`), a React client (`web/`), and a PostgreSQL
database for what the directory cannot hold: sessions, reset links, the audit
log, the history of the scheduled tasks. This directory models the server and
the client in TLA+, checks the models with TLC and proves with TLAPS every
safety property the passing runs check.

Two themes run through the system and through this project. On the server it is
**two stores without a transaction**: nearly every operation reads or writes the
directory and then the database, in several calls, while other requests, the
scheduler, other programs and failures come in between; what must hold is stated
over both stores at once. In the client it is **copies**: a cache of answers, a
form over a cached entry, a URL and the box it came from, a session the server
has already ended; what must hold is stated over a copy and what it is a copy of.

## 1. Inventory

Sources are under `src/internal` unless they begin with `web/` (`src/web/src`).

| Component | State | Operations | Interacts with |
|---|---|---|---|
| Sign-in and sessions (`auth/`, `api/handlers_auth.go`, `api/middleware.go`) | `sessions` table | login, logout, lookup, delete by DN, purge | directory (bind, groups); called by every handler |
| Account handlers (`api/handlers_users.go`, `ldap/users.go`) | directory entries, `memberUid` | create, update, rename, delete, lock, unlock, expiry, passwords | audit row first, directory, then sessions and links |
| Group handlers (`api/handlers_groups.go`, `ldap/groups.go`) | `memberUid` of groups | create, update, rename, delete, add and remove members | sessions, when the group grants the admin role |
| Password-reset links (`passwordreset/`, `api/handlers_password_reset.go`) | `password_reset_tokens` table | issue, look up, redeem, retire, purge | directory, mail, sessions |
| Lockout scan (`scheduler/lockout_scan.go`, `scheduler/store.go`) | `lockout_events` table, `running` flag | scan, audit, mail | directory, mail, audit log |
| Expiration reminders (`scheduler/*_expiration.go`) | `expiration_notifications` table | select, send, record | capabilities, directory, mail |
| Capability probe and self-test (`ldap/capabilities.go`, `ldap/policy_selftest.go`) | cached capabilities, probe in flight, the test's entry | probe, refresh, record a verdict | directory; read by most handlers |
| POSIX ids (`ldap/posixids.go`), CSV import (`api/handlers_import.go`) | none (searches) | reserve uid and gid, change them, align the SID | account and group creation |
| References (`ldap/users.go`, `ldap/groups.go`, `ldap/sudo.go`, `ldap/netgroups.go`) | `memberUid`, `sudoUser`, triples, `memberNisNetgroup`, `manager` | rewrite on rename, clean up on delete, edit | account, group, sudo and netgroup handlers |
| Netgroup expansion (`ldap/netgroup_expand.go`) | none | expand, find the netgroups of a user | netgroup and sudo handlers |
| Lockout state, policies, dashboard (`ldap/lockout.go`, `ldap/ppolicy.go`, `ldap/overview.go`) | none | resolve a lock against policy and clock, count | lists, scan, resets |
| Task health (`scheduler/health.go`) | rows of task runs | tell a missed firing | scheduler, database clock |
| Directory changes (`ldap/accesslog.go`, `api/handlers_directory_changes.go`, `audit/`) | `audit_logs` table, the access log | page through the log, credit each change | everything that writes |
| HTTP edge, RBAC, LDAP connection, mail, configuration, browsing reads | a library's rate limiter, one connection | filters, reads, formatting | everything |
| Web: pages, queries, operations (`web/routes`, `web/components`, `web/lib/api.ts`, `web/main.tsx`) | the query cache | read, offer, call, mark out of date | every route of the server |
| Web: forms over an entry (`web/lib/form-sync.ts`) | the fields, the copy last taken over | edit, discard, adopt, save | the query cache |
| Web: the tab's session (`web/lib/auth.tsx`) | session, flags, the cookie all tabs share | probe, sign in, 401, sign out | the query cache, other tabs |
| Web: search boxes (`web/lib/use-url-search-input.ts`, `use-debounced.ts`) | box, debounced term, URL | type, pause, adopt, go back, clear | the browser's history |
| Web: bulk runs (`web/lib/bulk.ts`) | index, counts | take, call, count | the operations of the lists |
| Web: netgroup lookups (`web/lib/netgroup.ts`) | one page of a search | find, judge | the directory's size limit |

`PROJECT.json` lists every component with its status, and the hazards at the
lines where they bite; each of them has a property.

What is hard here:

* **interleaving**: a sign-in takes three calls, a handler five; a revocation
  deletes the sessions it finds, not the one about to be inserted;
* **partial failure**: the write is applied and the answer lost, the read after
  it fails, the revocation fails, the process stops in between;
* **stale reads**: a role, a member list, an address, a count, a free number, a
  policy, a page of the log read some calls before it is used;
* **once-only effects**: a link redeems once; a lockout is audited and mailed
  once, a reminder is sent once, through outages, truncated searches and restarts;
* **three clocks**: of the directory, of the process and of the database, compared
  with each other in the lock resolver, the log's matching and the task health;
* **copies that lag**: an answer that was under way during a write, an arrival
  under a form being edited, a 401 of a session that has been replaced.

What makes each component correct, in a sentence: no session outlives the
standing of its account; no link acts on an account it was not sent to, nor
twice; every lockout is audited once and mailed at least until it has been seen
once; a reminder is sent once per interval and nobody is forgotten silently; the
capabilities published are those of the directory as it was after the last
reset; two accounts share a number only if they were written at once; a rename
loses nobody's edits, and what dangles is known; the walk over netgroups is
reachability; no locked account is shown usable; a change of the directory is
credited to who made it; a page offers what the server accepts and shows what it
wrote; a form neither loses edits nor writes old copies back; a tab shows only
what its own session read.

## 2. Plan

Written in the order of what goes wrong worst; all of it is done.

| # | Modules | Promise | Proofs |
|---|---|---|---|
| 1 | `Sessions` | a session follows the directory | `Sessions_proofs` |
| 2 | `PasswordReset` | a link acts once, on its own account | `PasswordReset_proofs` |
| 3 | `LockoutScan`, the abstract `LockoutAlerts` | each lockout audited once, mailed once; an alert only moves forward | `LockoutScan_proofs`: invariants and the refinement |
| 4 | `CapabilityProbe`, composed in `Reminders` | fresh answers, nobody wedged; one reminder per interval | `Reminders_proofs` |
| 5 | `PosixIds` | numbers are unique but for simultaneous writes | `PosixIds_proofs` |
| 6 | `References`, `NetgroupGraph` | nothing lost but to overlap; the walk is reachability | `References_proofs` |
| 7 | `PolicyLocks`, extended by `DirectoryChanges` | rows, figures, warnings and labels are right | `Directory_proofs` |
| 8 | `WebApi`, the page modules, `OwnWrites` | offers are accepted, writes are seen | `Web_proofs` |
| 9 | `DetailForms`, `TabSession`, `ListInput`, `BulkRun`, `NetgroupRefs` | copies follow what they copy | `Web_proofs` |

Composition: `Sessions` and `PasswordReset` describe the same handlers, each
projected on the store it is about (a handler ends sessions, then retires links;
the two never read each other's table), and so do `References` and `PosixIds`,
projected on names and on numbers. `Reminders` extends `CapabilityProbe`, one of
whose callers is the account task. `DirectoryChanges` extends `PolicyLocks`, whose
writes fill the log and the audit table it reads. `OwnWrites` extends the page
modules, which are operators over `WebApi`: which calls a page makes, and what the
server's routes demand for them. The machines of the client share no state but the
query cache, which each sees as it needs; `MC_Web` puts them side by side.

What could come next: a module composing `Sessions` with `PasswordReset`, to state
what a redeemed link does to sessions; the add-an-object-class mode of the Samba
and shadow cards; the leave guard of the creation forms.

## 3. Modules

Every module keeps the names of the code for operators that translate one
function. Failures are members of a set (`Faults`, or the menu of a start), each
enabling the outcomes it stands for. Variables and fields called history are read
by no guard; they are what a property remembers. Several modules take a constant
`Starts`, a set of records: what the directory holds at first and which operations
and failures a behaviour may use. The proofs hold for any such set.

### Sessions

State: `flags[u]` (what the entry of an account carries), `admins` (the
`memberUid` of the admin group), `sessions[t]` (the table, each row with its
`standing`, a history), `req[r]` (the request running in a slot: its step `pc`,
what it read, what it still has to do) and the history variable `missed`.

One action per call of the code. Sign-in is `BeginLogin`, `Bind`, `ReadRole`,
`InsertSession` (`AuthService.Login`); an administrator's request is
`BeginRequest` (session row, permission, guards, what is read before), `Audit`,
one of the directory writes (`LockUser`, `DeleteUser`, `RenameUser`, ...), the
clean-up of memberships where the handler has one, and `InvalidateSessions` or
`SkipUnknown` for each account whose sessions have to end. `BeginReset` is the
redeeming of a reset link as the sessions see it.

The directory changes by itself as well. ppolicy locks an account on a failed
bind, of a sign-in or of the check before one changes one's own password (`LockOut`,
`FailedBind`), and its lock lapses (`LockoutLapses`); another program writes an entry
or the admin group (`EditOutside`). No handler hears of either. "locked" is what an
administrator's lock writes and "lockedOut" what ppolicy posts; the two are values of
one attribute, so an entry carries one of them, and unlocking lifts both. A session
whose account changed in this way after it was opened has the standing "elsewhere":
nothing in the code ends it. Once an administrator takes something from the same
account the session is due to end like any other ("revoked").

Abstractions: a DN and its uid are one value; a password is present or absent; a
session row is an account and a role; the time of a `pwdEndTime` is "to come" or
"past" (`EndTimePasses`). What a bind accepts, and when ppolicy locks, is the
directory's own decision and marked external.

Failures, each enabled by a member of `Faults`: the audit insert, a statement on
the sessions table, the answer to an applied write, the read after a write, the
lookup of a member, a stop of the process; "outside" is the other programs.

### PasswordReset

State: `entry[u]` (address, and the lock of an administrator; ppolicy's lock retires
no link and stops no redeeming, so it is not here), `links[l]` (the rows of
`password_reset_tokens`), `req[r]`, `missed`. Issuing is `BeginIssue`,
`CountRecentByActor`, `CountRecentForUser`, `AuditIssue`, `Supersede`,
`InsertLink`; redeeming is `ConsumeToken`, `resetTarget`, `AuditConfirm`,
`ResetPassword`; a change is `BeginChange`, `AuditChange`, the write and
`RetireLinks`. `EditOutside` is another program writing to the directory, which
`resetTarget` is there for. Time is a flag on a row (`recent`: within the five
minutes both caps count) and its end (`Expire`).

Abstractions: addresses are compared up to letter case, so they are values; the
token's hash is the link itself; the mail that carries a link may arrive or not,
so any usable link can be redeemed. Who may call a handler is in Sessions.

### LockoutScan and LockoutAlerts

State: `lock[u]` (`pwdAccountLockedTime`, written by ppolicy), `events[e]` (the
row of `lockout_events` for the lockout `e`, an account and an instant),
`scan[s]` (the scan that runs in process `s`: its step, the list it read, what
is left of its current loop), `past` and five history variables. A scan is
`StartScan`, `SelfLockedAccounts`, `PruneLockoutEvents`, `RecordLockoutSeen` and
`AuditLockout` for each new account, `PendingLockoutNotifications`,
`SendLockoutDigest`, `MarkLockoutNotified` for each account, `CompleteScan`. The
`running` flag of a process is that its scan is not idle; nothing excludes the
scan of another process on the same database.

Failures: the search fails, or is cut short by the size limit; a statement
fails, before or after it was carried out; the audit row is not written (the
code drops that error); nobody to write to; a recipient is refused, which ends
the digest after the recipients before it; the process stops.

Abstractions: an instant never comes twice for one DN (two locks within one
second, or a rename there and back under one lock, would be one row in the code
too); a lock whose timestamp cannot be read is skipped by the code and has no
row; the digest names at most 25 accounts and counts the others, which are
marked like the named ones. Only the locks ppolicy sets are here, as in the
search. The mail server is configured: without one, the mailer reports every
digest as sent, and rows are marked that nobody was told of. The schedule is in
PolicyLocks: a lockout may come and go between two scans, which the code reports
as a cadence warning.

`LockoutAlerts` is the promise: an alert goes from unseen to open to told to
closed, never back, and is closed only when the directory no longer holds the
lockout. `ImplementsAlerts` maps a pending row to open, a notified row to told,
and a missing row to closed when the lockout is gone and no scan is about to
record it from an older list. It holds of one process whose lists are whole;
with two, or with lists cut short, a row can be pruned under a lockout that is
held, and `AuditedOnce` and `MailedOnce` say what is left.

### CapabilityProbe and Reminders

`CapabilityProbe` is the single-flight probe of `ldap/capabilities.go` (`cache`,
`inflight`, and `ask[c]` for each goroutine that asks: it looks, waits on the
channel of the probe in flight, or probes, one search per step, outside the
mutex), the resets that do not cancel a probe, and the self-test of
`policy_selftest.go` (`test`, `entry`, `verdict`), whose entry has one fixed DN and
which may leave it behind. A search that fails counts as "no", and the "no" is
kept until the next reset. `Reconfigure` is the directory's administrator.

`Reminders` adds the two tasks: `run[k]` with what it listed, `rows` for
`expiration_notifications`, `expiry[u][s]` for what each source says of an account.
A run is `StartTask`, the capabilities (account task only), the listings, then for
each account `SkipUser` or `NotifyUser`, `SendNotification` per recipient,
`FinishUser`, `RecordNotification`, and `CompleteTask`. Time is the interval an
expiry is in, and moves expiry by expiry, which includes every order in which
several expiries can come up. Accounts are those with an address.

### PosixIds

`users`, `groups` (the numbers carried, 0 for absent) and `req[r]`. Creation and
import reserve a uid and a gid, each with searches that may race (`ReserveUid`,
`ReserveGid`, at most `Attempts` rounds), add the account, set its password, then
create the primary group with the account's number (`ReserveGroupGid`,
`AddGroup`); a change checks the holder, reads the entry before, modifies it, and
aligns the Samba SID and warns in later calls; deleting a group names the accounts
it leaves without one, as its search found them, and `overlooked` remembers those
that took the number between that search and the delete. An import goes on after a
failed row. A number nobody asked
for is the lowest free one, as in the code.

### References and NetgroupGraph

`things` that exist, `lists` (`memberUid`, `sudoUser`, triples, `memberNisNetgroup`,
`manager`, as sets of values), `req[r]`. Renaming and deleting go through the
attributes in the code's order, list by list, in two calls each: `ReadLists`, then
`WriteSwapped` with the list as it was read; groups and netgroups that are deleted
name their leftovers first; forms of netgroups are opened, keep the triples that
cannot be read, and are saved whole; single values are edited by a delete or an
add. Edits by other programs put unreadable triples into lists. `intended` is the
history the first property compares with: what each list would hold had every
change been about its own values only; a form that sends no triples is about none,
and `cleared` remembers the lists such a form wrote over all the same. `known`
collects the dangling values somebody was told of.

`NetgroupGraph` is a pure module: `Expand` is the breadth-first walk of `expand`
with its queue, attribution, loops and dangling names, `ContainingUser` the upward
rounds of `membershipsForUser`, and `Reachable` the reference, as rounds of the
nesting relation. `References` states the properties over the lists in every state.

### PolicyLocks and DirectoryChanges

`entry[a]` (lock, `pwdEndTime`, own policy, failures), `policy`, `now`, `req[r]`
(readers: a listing, the members of a group, the figures of the dashboard, each in
the code's separate searches; writers: locks, expiries, policies, passwords), `rows`
(the audit table), `log` (the access log), `scan` (the task runs, and what became of
each lockout). Binds are `FailedBind` and `GoodBind`, which write as ppolicy does.
`lockoutFor` and the count filter are translated side by side. A setting
(`start`) fixes what deployments differ in: which policies can be listed and read,
what the configured and the server's default policy are, whether the directory has
`pwdEndTime`, by how much the clocks differ, when the schedule fires.

Of a policy only the lockout duration is here; the other attributes are stored and
shown. Assumed of a setting: a lock ppolicy posted comes with failures, the
schedule fires at all, and the limits are positive.

`DirectoryChanges` is one reading of the log, page by page in no order the program
can ask for, cut at the limit, then matched with the audit rows around what was
found, one by one (`classifyChange`). Stripping what the server maintains
(`parseReqMod`) decides what counts as ppolicy's bookkeeping, so it is modelled by
what it does.

### WebApi, the pages, and OwnWrites

`WebApi` names the client's calls, what the server's routes demand for each, what
each writes and what each answer shows, as facts of the directory (an account, the
part of its entry no list shows, a membership, a group, a rule, a netgroup, a
policy). `UserPage`, `GroupPage`, `RulePages` (sudo roles, netgroups, policies),
`CreatePages` (creation and import), `ListPages` (lists, bulk bars, row actions) and
`AdminPages` (dashboard, settings, audit, the command palette, the navigation bar)
say, for a viewer (`role`, whether the entry is the viewer's `self`, what the entry
and the deployment have), which queries each page runs under which keys and which
operations it offers, with the keys each marks out of date, whether it goes
elsewhere, and whether it is one call, a chain or a bulk run.

`OwnWrites` takes one operation and one query (`pick`) through the cache: `Mount`,
`Unmount`, `Age`, `Refocus`, `ServeQuery`, `Answer`, `Fail`, and `Send`, `Serve`,
`NextCall`, `Succeed`, `FailCall`. The cache is the query library's and so external:
a minute of freshness, one retry, aborted requests of queries nobody watches, a
first load that is left to finish. What the server says to a call is the `Verdict`:
forbidden by a permission, refused on the viewer's own account, or accepted. A bulk
run makes up to two calls, of which one may be about the viewer's own row; the run
goes on after a refusal. `Lags` names the queries the pages let catch up
on their own (see section 5), and `raced` a first load that was under way.

### DetailForms

`stored` in the directory, `cached` answer, `form`, `synced` (`lastSynced`), the
request of a save. `Edit`, `Discard`, `Arrive` (the effect of `useSyncedForm`),
`Save`, `Store`, `SaveEnds` (stored, refused, or lost either way), `OtherWrites`. A
sheet says whether a page sends what changed or everything, whether its entry was in
the cache when it came up, and whether its fields then start with that entry or
blank, as on the page of a netgroup; the effect runs at the mount too (`FormInit`).
`accord` is what the fields started with, or what form and entry last agreed on, at an
arrival or a discard; what differs from it is `Typed`, the user's.

### TabSession

`session`, `hadSession`, `sessionExpired`, `isLoading` of `auth.tsx`, the `cookie`
all tabs share, the `live` sessions of the server, whose answers the `cache` holds,
and a query, a mutation and a logout under way. A request carries the cookie it was
sent with; its answer meets whatever session the tab has by then.

### ListInput, BulkRun, NetgroupRefs

`ListInput` has the history of the tab, the term a page was rendered with, the box
and the debounced term: `Type`, `Pause`, `Render`, `clearFilters`,
`handlePageChange`, `Back`. A character typed between a navigation and the render it
causes is left out (a few milliseconds). `BulkRun` has the runners of `runBulk` over
one index; between two awaits a runner is alone. `NetgroupRefs` has one page of a
search, which the directory may have cut first, and the verdict
`resolveNetgroupByName` draws from it.

## 4. Runs

| Run | Bounds | Question |
|---|---|---|
| `sessions` | 2 users and a free name (used by renames), 2 requests, 2 tokens, 8 menus of operations, one with ppolicy's lockouts and one with outside edits, all failures | is every session backed by the directory or its end owed, and does none survive a revocation that was carried out? |
| `sessions_completion` | the same, 8 menus, one of them the update of a whole member list; a database and lookups that fail; fair | does every session due to end do so, whatever fails for the others? |
| `reset_changes` | 1 account, 2 addresses, 1 link, 2 requests, all failures | does a link act on its account only, and once? |
| `reset_caps` | 2 accounts, 3 links, 2 requests, caps of 1 and 2 | how many good links, how many within the window? |
| `lockout_scans` | 2 accounts, 1 instant each, 2 processes, all failures | who is audited or mailed twice, and what does a row guarantee? |
| `lockout_alerts` | 1 account locked 3 times, 1 process, refused searches, audits and mails, fair | does the scan implement `LockoutAlerts`, and is a lasting lockout reported? |
| `expiry` | 3 callers, 2 tests, 1 user, 2 administrators, 2 dates, 3 changes of the directory, 11 starts, fair | are answers fresh and callers served, reminders sent once and accounted for? |
| `posix_ids` | 2 names, 2 requests, numbers 1 to 3, 2 attempts, 10 starts | who shares a number, and which numbers name no group? |
| `references` | 2 accounts, 2 groups, 1 role, 3 netgroups, 2 requests; 7 starts, and every nesting of three netgroups | what is lost, what dangles, and is the walk right? |
| `directory` | 2 accounts, 2 policies, instants 0 to 3, 1 reader, 1 writer, pages of 1, limit 2, about 620 settings | do rows, figures, warnings, health and labels tell the truth? |
| `web` | every viewer of 2 roles, own entry or not, 2 kinds of entry, 2 of deployment; 1 failed fetch; 4 sheets of 2 fields; 2 people, 3 sessions; 3 terms, 3 changes, 3 moves; 4 targets, 3 runners; 3 netgroups | do the copies of the client follow what they copy? |
| `web_cold` | one sheet that comes up before its entry | "adopts the server data on first arrival": it does not |

Why these are enough. Two requests at once give every race between two handlers; a
third adds nothing to a property about one account's sessions, lists or numbers,
because no operation reads the requests of others. Two tokens tell a session that
survives from one that does not. An update that takes one member out and puts one in
owes two accounts at once, which is what a loop can leave half done. The lists sent
name somebody; other menus empty the group. In `sessions`, outside edits leave an
account whole or gone, since nothing tells those that refuse binds apart; the theorems
have every edit. A list of two accounts can miss a part of itself and a loop over it
can stop half-way. Two processes give every overlap of one scan with another. Three
lockouts of one account are a first one, one that displaces it, and one after the row
of the first has gone. A page of one record under a limit of two makes every reading
both paged and cut. Three netgroups have every shape that matters to the walk: chains,
diamonds, loops of each length, and names of nothing. The menus and starts split each
model into the combinations of operations that can meet; what a menu leaves out would
not touch what its property is about. Where a theorem is proved, it does not depend on
any of these bounds.

`reset_caps` has as many links as the bound on one actor's issuances, so there the
actor's half of `IssuanceIsCapped` can hardly fail; the theorem is what covers it. The
reminder tasks are taken to run in one process.

Deadlock is not checked where the system may really stop, which is nearly
everywhere: people need not act again (two administrators can delete each other,
a tab may be closed), the bounds on time and on changes are reached, a finished
bulk run is finished. It is checked in `lockout_scans`, `lockout_alerts` and
`reset_changes`, whose systems go on for ever. That nobody waits on somebody who is
gone is stated as a property where it is a hazard (`NobodyIsWedged`).

Fairness:

* `Sessions`: weak fairness of `Handle(r)`, the next call of a request that is
  running. A handler is sequential and every LDAP call has the connection's deadline;
  of the database it is assumed that a statement answers or fails, since the code
  sets no time limit on one. Arrivals, logouts and expiries have none.
* `LockoutScan`: weak fairness of `StartScan` (cron fires every five minutes for as
  long as the process lives) and of `Step` (a scan is sequential); strong fairness of
  a search and of a digest that succeed, which is the hypothesis of `OutageIsADelay`:
  the directory and the mail server may refuse any number of times, but not for
  ever. That a mail answers or fails is assumed: the code sets no deadline on SMTP,
  so a server that accepts and never answers holds the `running` flag for good.
* `Reminders`: weak fairness of `StartTask` and of the steps of a run, for the same
  reasons, and of a caller that has asked; nobody has to ask.
* `OwnWrites`: the server serves and answers a query (`ServeQuery`, `Answer`).
  `ListInput`: the timer fires and the page renders (`Pause`, `Render`). Nothing
  forces anybody to click or type.

## 5. Where the code and its words part

One run exhibits one, `web_cold`: `useSyncedForm` says that it adopts the server data
on first arrival, but a form that starts blank before its entry is there has no copy
to be equal to, so the first arrival is passed over and the blanks read as unsaved
changes (`form-sync.ts:38` against `:11`). The pages that send the whole form are
those it concerns; that of a netgroup starts blank whatever the cache holds
(`netgroups/$dn.tsx:88`), so there a warm cache does not help.

The others were met while modelling. They are named exceptions of the properties,
which say exactly how far the promise is kept; a property without them is violated.

Server:

* The role is read before the session is inserted, and a demotion in between ends
  only the sessions that are there (`auth.go:97`, `:126`). Who left the admin group
  is worked out from a list read before the write (`handlers_groups.go:148`). A
  failed read-back after an applied update skips its revocations (`users.go:807`).
* A lock that ppolicy posts, and an edit by another program, end no session: one that
  is open stays open for its whole time to live, whatever binds are refused
  (`auth.go:82`).
* Two issuances at once leave two good links (`service.go:41`). Caps are overrun by
  as many requests as run at once.
* The prune of a run takes the row that was waiting to be mailed, if the lock has
  lifted meanwhile (`store.go:182`). A mail server without an answer wedges the scan.
* A capability search that failed counts as "no" until the next reset.
* A nil slice is said to leave the triples of a netgroup alone (`netgroups.go:261`).
  When the entry also holds a triple that cannot be read, `UpdateNetgroup` writes that
  one alone, and the readable ones are gone (`netgroups.go:290`): the exception
  `cleared` of `EditsAreLostOnlyToOverlap`.
* A form that does send its triples beside one that cannot be read deletes readable
  ones changed meanwhile (`netgroups.go:290`); `RenameUser` rewrites the
  whole `sudoUser` list; the clean-up of a deletion can take memberships of an
  account created anew; nobody is told of the `%name` left by the group that is
  renamed with its account (`users.go:516`).
* Deleting a group names the accounts it leaves without one as they are found before
  the delete; one that takes the number in between is named to nobody
  (`handlers_groups.go`, `GroupDeleteLeftovers`). A list that changes between the
  search for leftovers and the delete is counted as told of, as that search stands.
* `NextGID` does not look at primary groups of accounts; a lookup error of the holder
  lets a change of numbers go on; an imported row may read as an error though its
  account exists.
* Diamonds are reported as cycles (`netgroup_expand.go:176` against `:48`).
* `LockoutCadenceWarning` measures one interval, so it misjudges uneven schedules,
  and sees only policies below its base DN. The task health compares a database
  clock with the process's, and a run started by an account whose uid is
  `scheduler` counts as scheduled.
* "Only the newest were examined" (`handlers_directory_changes.go:61`): the cut is of
  the newest among what was read.

Client:

* After a discard that follows an arrival that was passed over, the form shows the
  entry but still differs from `lastSynced`, so the next arrival is passed over as
  well (`groups/$dn.tsx:320`); and typing that happens to give back `lastSynced` is
  replaced by it, though edits "are never clobbered" (`form-sync.ts:13`). A form that
  sends everything writes back the fields others changed meanwhile. An emptied shadow
  field is never sent.
* The bulk bar does not look whether one's own row is selected, and the server refuses
  to lock, expire or delete that one (`users-bulk-actions.tsx:125`,
  `self_protection.go`); elsewhere nothing is offered that is refused.
* The effect behind a search box commits the older debounced term again, so that a
  cleared filter or a step back is undone (`use-url-search-input.ts:28`); box and URL
  still come to agree, which is what `UrlFollowsInput` says.
* Some queries lag behind an operation: counts of members and groups in lists, sudo
  rules held through a group, whether an account has a password, and other sections
  for up to a minute. A chain of calls that stops half-way marks nothing out of
  date. A rename marks neither groups nor sudo roles.
* A 401 of a late mutation signs a fresh session out; a logout that failed leaves a
  live cookie; a bulk run goes on under another identity after a sign-in elsewhere.
* A bulk result reads "left unchanged" for a call that was lost and may have been
  applied (`bulk-result-dialog.tsx:66`).

## 6. Proofs

Forty-one theorems are listed in `PROJECT.json`: each safety invariant and action
property of the passing runs that is not a liveness property, for every value of the
constants, and the types of the larger models. The only assumptions are the named
ones on the constants, which TLC evaluates in the runs.

The invariants are seldom inductive as they stand. What is added to them says what
each request holds at each of its steps.

**`Sessions_proofs`**: `TypeCorrect`, `RevocationIsSound` ([]NoSurvivor),
`SessionsAreBacked` ([]SessionsFollowDirectory), and, without failures and without
the two whole-list writes, `RevocationIsNeverMissed`. `IInv` adds what a request
holds (`Shapes`); that a revoked session is owed by a request *that will not spare
it* (`RevokedIsOwed`: a change of one's own password spares the session it came
with); that the group handlers may skip an account that is gone, because the delete
or rename that removed it owes its sessions (`GoneIsCovered`); and that whatever was
neither revoked nor overtaken nor changed elsewhere is backed (`CurrentIsBacked`,
`LoginIsBacked`). Every write that takes something away has the form of `Commit`, and
every change no request made that of `ChangedElsewhere`, so two lemmas carry the
argument.

**`PasswordReset_proofs`** proves the properties that `reset_changes` and
`reset_caps` check, for any accounts, addresses, links, requests, caps and failures.
`IInv` adds what a request holds (`Shapes`), that a link still in standing agrees
with the entry (`CurrentFollows`) as does a request that was not overtaken
(`RequestsFollow`), that a password set through a link claimed it (`UsedOnce`), that
a link without a rival excludes an issuance already past its supersession
(`NoRivalYet`), and the caps with the requests past the count added to the rows
(`UserCap`, `ActorCap`): a row enters the count when its request leaves the sum. Most
steps leave the last four alone; `NextIsFrame` says which, and each of the other six
has its own lemma.

**`LockoutScan_proofs`** proves the invariants that `lockout_scans` checks. The key of
its `IInv` is `KnownIsKept`: what was ever recorded is in the table, or was
forgotten, or can never be recorded again, because the directory has let it go and
no scan still has it on a list. That is what makes an insert a test of being first.
`AuditsApart` and `SendsApart` say when two scans may be at the same lockout,
`ToldIsMarked` that a row still pending after its mail has a scan about to mark it.
`ScanImplementsAlerts` is the refinement, step by step; it assumes `Single` (one
process, no truncated list), and the extra fact it needs is `PruneIsSafe`, that what
such a scan is about to prune is not held. TLC checks the refinement with three
kinds of failure, the theorem has all of them but truncation.

**`Reminders_proofs`** proves `RemindedOnce`, `RowAccountsForAll` and `AnswerIsFresh`
together, because the account task is a caller of the probe. `ProbeInv` says that the
directory's schema is among those since the last reset, and what each caller has
found so far was true at one of them (`FoundSoFar`, `Cached`). `TasksInv` says that a
run holds a reminder, of its own task, while it sends and records (`KeyIsOwn`), that
what was told has a row, a lapse or a run about to record it (`ToldIsKept`), that who
is left to write to was written to before only if that row was lost (`LeftIsNew`), and
that everyone concerned was told, refused or is left (`NobodyIsForgotten`).

**`PosixIds_proofs`**: for `SharedNumbersHaveRivals`, a request that found a number
free either still could, or every holder since is its rival (`Reserved`), and pairs
that share a number are rivals (`SharedUids`, `SharedGids`). `BareNumbersAreKnown`
has its own invariant `Bare`: who is still working on an account's number, what a
change has read of the group it leaves, and what the deletion of a group has named or
overlooked.

**`References_proofs`**: `EditsAreLostOnlyToOverlap` and `DanglingIsKnown` rest on
`IInv`: what a request has read and may still write (`Named`, `Writable`), that the
list it read is the list that is there unless a change overlapped (`Fresh`), that a
list is what its changes make of it until a form that sent no triples writes over it
(`Faithful`), and that every dangling value is known or owed by a request
(`AllCovered`, `LeftAreNamed`).

The two theorems about the walk, `ExpansionIsReachability` and
`MembershipsMirrorExpansion`, hold of every finite directory. The walk is a function
of the number of rounds, so its facts are proved by counting rounds up
(`CountingUp`, over a set of rounds, since induction over an operator is out of the
prover's reach). `SoundWalk` holds after each round: what was seen is reachable, what
was visited has been attributed, opened and reported. `WalkEnds` counts the visited
netgroups against those there are. `NearFirst` is the breadth-first argument: the
queue holds two consecutive distances, in order, so the first to name a user is as
near as any. `UnreportedLeadsOn` is for loops: were none reported, every netgroup
visited would lead to one visited later, and the walk would not end. The reverse
walk mirrors the forward one round by round (`WithinFromBelow`, `UpMirrorsDown`).

**`Directory_proofs`**: `FiguresAgreeAlways` is a case split over the lock and the
policy that governs, and needs no history. `MissedIsWarnedAlways` and
`OverdueIsMissedAlways` rest on `ScanInv`: the ledger of firings against rows
(`Ledgered`), and that a lock no scan has found, nothing having interfered, began after
the last firing (`Unscanned`).
`LockedIsNeverUsable` rests on `ReadInv`, which says of a reading what its searches
can have seen so far against what was true at some instant since it began.
`OriginsAreRightAlways` rests on `LogInv`: what each record of the log says about who
wrote it, and that each change of this program has its row (`Failed`, `LogFacts`,
`Rowed`). `WindowIsWholeAlways` rests on `ViewInv`: the pages read so far are of the
window, and the log only grows (`ViewFacts`, `ShownFacts`).

**`Web_proofs`**: `BulkRunsSettle` rests on every target being called for once, being
held by one runner and being counted when let go (`CalledOnce`, `HeldApart`,
`TakenAccounted`). `PristineFormsFollow` and `EditsSurvive` rest on there being one
copy last taken over (`OneCopy`, `ShownIsSynced`), which is the entry and what form
and entry last agreed on unless an arrival has been passed over since
(`AgreedUntilMissed`). `CacheStaysOwn` rests on whose
answers may still arrive: the cookie and the query under way are of the session the tab
shows, or of another tab (`CookieIsOwn`, `QueryIsOwn`), and a tab without a session keeps
nothing (`EmptyWithout`). `AbsenceIsEarned` is about
one page: a page that is whole, of a search that was not cut, is the directory.

`OwnWritesAreSeen` and `OffersAreAccepted` have two parts. The first is the
catalogue, for any viewer: an administrator lacks no permission any route demands, a
reader is offered one operation, which demands none, what is refused on one's own
account is offered over a selection only, and every link leads to a page whose guard
lets the viewer in (`OffersAllowed`, `LinksAllowed`); every query of every page has
one of the keys that `ReadsAre` lists, and every operation's keys catch the queries
that show what it writes (`UserOffersCatch` and its like, `PairsSound`). The second
is the cache (`OwnInv`): only a query on screen is being fetched, so marking one out
of date leaves no older answer on its way, but for a first load.

Left to TLC: liveness (`RevocationCompletes`, `OutageIsADelay`, `NobodyIsWedged`,
`DueIsReminded`, `OwnWriteShowsUp`, `UrlFollowsInput`), which needs fairness and
ENABLED, and the runs that exhibit a violation.

## 7. Not modelled

See the statuses and notes in `PROJECT.json`. In short: read-only browsing, export
and the schema, formatting, mail templates and SMTP, configuration and start-up, the
HTTP edge, the RBAC table (its two roles are in `Sessions` and `WebApi`) and the
LDAP connection (its failures are the refused and lost answers of the other modules)
change no state a property is about. Of the client, layout, CSV parsing, photos, the
add-an-object-class mode of the Samba and shadow cards, and the dirty check and leave
guard of the creation forms. Of accounts, home directories, `sudoRunAsGroup` and the
profile fields, which nothing refers to.
