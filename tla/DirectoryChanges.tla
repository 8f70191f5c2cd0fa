--------------------------- MODULE DirectoryChanges ---------------------------
(* The view of the changes the directory logged: the access log read page by   *)
(* page (internal/ldap/accesslog.go), then the audited requests around it      *)
(* (audit/directory_writes.go), and who made each change by comparing them     *)
(* (api/handlers_directory_changes.go).  The writes, and the rows, are those   *)
(* of PolicyLocks.                                                             *)
EXTENDS PolicyLocks, FiniteSetsExt

CONSTANTS ReadLimit,     \* accessLogReadLimit
          PageSize,      \* exportPageSize
          MatchBefore,   \* auditMatchBefore
          MatchAfter     \* auditMatchAfter

ASSUME ReadAssumption == ReadLimit \in Nat \ {0} /\ PageSize \in Nat \ {0}
ASSUME MatchAssumption == MatchBefore \in Nat /\ MatchAfter \in 0..MatchBefore

VARIABLE view    \* one reading of the log

\* got: the records read, by their place in the log, which orders reqStart.
\* items: the label of each record shown, by its place too.
\* held: history, how long the log was when the reading began.
Closed == [pc |-> "closed", from |-> 0, to |-> None, got |-> {}, truncated |-> FALSE,
           items |-> <<>>, held |-> 0]

Init == LockInit /\ view = Closed

-----------------------------------------------------------------------------
(* AccessLogChanges *)

InWindow(i) == log[i].at >= view.from /\ (view.to # None => log[i].at <= view.to)

\* Without an end, the window stays open: the clocks are two.
Open ==
  /\ view.pc = "closed" /\ May("log")
  /\ \E w \in start.windows :
       view' = [Closed EXCEPT !.pc = "paging", !.from = w[1], !.to = w[2], !.held = Len(log)]

\* What a paged search has left.
Remaining == {i \in 1..Len(log) : InWindow(i) /\ i \notin view.got}

\* A page is some of it: the log has no order this program can ask for.
Pages == kSubset(Min({PageSize, Cardinality(Remaining)}), Remaining)

\* Mutant: a page is all there is.
ReadOnePage ==
  \E page \in Pages :
    view' = [view EXCEPT !.got = @ \cup page,
                         !.truncated = Cardinality(view.got \cup page) > ReadLimit,
                         !.pc = "rows"]

\* One page more, until there is none or the limit is passed.
ReadPage ==
  \E page \in Pages :
    LET got == view.got \cup page
        over == Cardinality(got) > ReadLimit
    IN  view' = [view EXCEPT !.got = got, !.truncated = over,
                             !.pc = IF over \/ page = Remaining THEN "rows" ELSE "paging"]

\* The newest, cut to the limit.
AreChanges(changes) ==
  /\ changes \in kSubset(Min({ReadLimit, Cardinality(view.got)}), view.got)
  /\ \A i \in changes, j \in view.got \ changes : j < i

-----------------------------------------------------------------------------
(* Where a change came from *)

bookkeepingAttributes == {"entryCSN", "modifiersName", "modifyTimestamp", "pwdChangedTime"}
policyBookkeeping == {"pwdFailureTime", "pwdAccountLockedTime", "pwdGraceUseTime", "pwdLastSuccess"}

\* parseReqMod: the attributes that were changed, without what the server
\* maintains on every write.
parseReqMod(reqMod) == reqMod \ bookkeepingAttributes

\* Mutant: any of its attributes will do.
AnyBookkeeping(wrote) == wrote \subseteq policyBookkeeping

\* "A lock written by hand touches pwdAccountLockedTime alone; ppolicy never does".
IsPolicyBookkeeping(wrote) ==
  wrote # {} /\ wrote \subseteq policyBookkeeping /\ wrote # {"pwdAccountLockedTime"}

\* DirectoryWritesBetween: the rows of requests that write.
WritesBetween(from, to) ==
  {i \in 1..Len(rows) : rows[i].writes /\ rows[i].at >= from /\ rows[i].at <= to}

\* The first row around the change that was by the same identity, 0 for none.
Vouches(i, change, writes) ==
  /\ i \in writes
  /\ rows[i].at >= change.at - MatchBefore /\ rows[i].at <= change.at + MatchAfter
  /\ change.actor = Root \/ change.actor = rows[i].actor

classifyChange(change, writes) ==
  LET by == {i \in 1..Len(rows) : Vouches(i, change, writes)}
  IN  IF IsPolicyBookkeeping(parseReqMod(change.reqMod)) THEN [origin |-> "policy", row |-> 0]
      ELSE IF by = {} THEN [origin |-> "external", row |-> 0]
      ELSE [origin |-> "ldapwarden", row |-> CHOOSE i \in by : \A j \in by : i <= j]

\* handleListDirectoryChanges reads the rows after the log, around what it found.
Match ==
  \E changes \in SUBSET view.got :
    LET writes == IF changes = {} THEN {}
                  ELSE WritesBetween(log[Min(changes)].at - MatchBefore,
                                     log[Max(changes)].at + MatchAfter)
    IN  /\ AreChanges(changes)
        /\ view' = [view EXCEPT !.pc = "shown",
                       !.items = [i \in changes |-> classifyChange(log[i], writes)]]

See ==
  /\ UNCHANGED <<start, now, entry, policy, req, watch, rows, log, scan>>
  /\ \/ Open
     \/ view.pc = "paging" /\ ReadPage
     \/ view.pc = "rows" /\ Match
     \/ view.pc = "shown" /\ view' = Closed

Next == See \/ (LockNext /\ UNCHANGED view)

Spec == Init /\ [][Next]_<<vars, view>>

-----------------------------------------------------------------------------
(* Properties *)

Shown == view.pc = "shown"
Distance(s) == IF s < 0 THEN -s ELSE s
Skew == start.skew + start.database

\* classifyChange.  What ppolicy writes during binds reads as policy, and a lock
\* written by hand or by an administrator never does.  A change this program makes
\* within the window of its own row, the clocks no further apart than the window
\* allows, is recognised, whatever is audited meanwhile.  A change made outside is
\* credited to this program only when it did write something around that time, by
\* that identity.
OriginsAreRight ==
  Shown => \A i \in DOMAIN view.items :
    LET change == log[i]
        origin == view.items[i].origin
        took == change.at + Skew - rows[change.row].at
    IN  /\ change.by = "ppolicy" <=> origin = "policy"
        /\ change.by = "app" /\ took <= MatchBefore - Distance(Skew)
             /\ Distance(Skew) <= MatchAfter => origin = "ldapwarden"
        /\ change.by = "hand" /\ origin = "ldapwarden" =>
             \E k \in 1..Len(rows) :
               /\ rows[k].writes
               /\ change.actor \in {Root, rows[k].actor}
               /\ Distance(change.at + Skew - rows[k].at) <= MatchBefore + Distance(Skew)

\* AccessLogChanges: the window "is read whole": unless it says so, the answer has
\* every change logged in the window before it began, and what is cut short is as
\* long as it may be.  It has nothing from outside the window.
WindowIsWhole ==
  Shown =>
    /\ ~view.truncated => {i \in 1..view.held : InWindow(i)} \subseteq DOMAIN view.items
    /\ view.truncated => Cardinality(DOMAIN view.items) = ReadLimit
    /\ \A i \in DOMAIN view.items : InWindow(i)
=============================================================================
