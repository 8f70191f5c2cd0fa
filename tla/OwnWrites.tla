----------------------------- MODULE OwnWrites ------------------------------
(***************************************************************************)
(* One operation of a page and one query of the cache, from the click to   *)
(* the moment the page shows what the operation did: the request, what its *)
(* success marks out of date, and the query refetched, aged, mounted and   *)
(* unmounted underneath.                                                   *)
(*                                                                         *)
(* The cache is the query library's, with the defaults of                  *)
(* web/src/main.tsx: an answer is fresh for a minute, a failure is tried   *)
(* once more.  A query nobody watches is cancelled; one marked out of date *)
(* while it is being fetched is fetched again, unless it is the first      *)
(* load, which the library lets finish.                                    *)
(***************************************************************************)
EXTENDS GroupPage, AdminPages

CONSTANTS Viewers,      \* who looks, on what deployment
          MaxFetchFails \* answers of a query that may fail

ASSUME ViewersAssumption ==
  \A v \in Viewers : v.role \in {"admin", "readonly"} /\ v.self \in BOOLEAN

ASSUME MaxFetchFailsAssumption == MaxFetchFails \in Nat

VARIABLES pick,      \* the operation, the query, and what the server says to it
          srv,       \* whether the directory holds what the operation writes
          entry,     \* what the cache holds of the query
          fetch,     \* the request of the query under way
          watched,   \* some component on screen uses the query
          call,      \* the request of the operation
          fetchFails

ownVars == <<pick, srv, entry, fetch, watched, call, fetchFails>>

(***************************************************************************)
(* Which operations are met with which queries: those of the operation's   *)
(* own page and of its section's lists that show something it writes.      *)
(***************************************************************************)
Place(offers, keys) == {[op |-> o, keys |-> keys] : o \in offers}

Places(v) ==
  UNION {Place(UserOffers(v), {"user", "users"}),
         Place(GroupOffers(v), {"group", "groups"}),
         Place(SudoRoleActions(v), {"sudo-role", "sudo-roles"}),
         Place(NetgroupActions(v) \cup NetgroupDangerZone(v), {"netgroup", "netgroups"}),
         Place(PolicyActions(v), {"password-policy", "password-policies"}),
         Place(NewUser(v) \cup ImportUsers(v) \cup UsersBulkBar(v),
               {"users", "groups"}),
         Place(NewGroup(v) \cup ImportGroups(v) \cup GroupRows(v), {"groups"}),
         Place(NewNetgroup(v) \cup ImportNetgroups(v) \cup NetgroupRows(v), {"netgroups"}),
         Place(NewSudoRole(v) \cup SudoRoleRows(v), {"sudo-roles"}),
         Place(NewPolicy(v) \cup PolicyRows(v), {"password-policies"})}

Reads(v) ==
  UNION {UserReads(v), GroupReads(v), RuleReads(v), CreateReads(v), ListReads(v),
         AdminReads(v)}

(***************************************************************************)
(* The pages let these catch up on their own: the counts of members and    *)
(* groups in the lists and in a dropdown, the rules an account has through *)
(* a group it joins or leaves, and whether it has a password.              *)
(***************************************************************************)
Lags(op, key) ==
  \/ op.call = "users.changePassword" /\ key = User
  \/ /\ op.call \in {"groups.addMember", "groups.removeMember"}
     /\ \/ key = <<"user", "sudo-roles">>
        \/ op.repeats # "all" /\ key[1] = "users"
        \/ op.repeats = "once" /\ User \o <<"groups">> \notin op.refreshes
             /\ key[1] = "groups"

\* An operation that goes elsewhere leaves the entry it was about behind.
Leaves(op, key) == op.goes # "stay" /\ key[1] \in {"user", "group", "sudo-role",
                                                   "netgroup", "password-policy"}

(***************************************************************************)
(* What the server says to an operation: forbidden by a permission, refused*)
(* on the viewer's own account, or accepted.  On a list, v.self says that  *)
(* the viewer's own row is among those selected.                           *)
(***************************************************************************)
Verdict(v, op) ==
  IF ~Accepts(v.role, FALSE, op.call) THEN "forbidden"
  ELSE IF Accepts(v.role, v.self, op.call) THEN "accepted" ELSE "own"

Pairs(v) ==
  UNION {{[op |-> p.op, read |-> r, verdict |-> Verdict(v, p.op)] :
            r \in {q \in Reads(v) : /\ q.key[1] \in p.keys
                                    /\ Changes(p.op.call) \cap Shows(q.call) # {}
                                    /\ ~Lags(p.op, q.key) /\ ~Leaves(p.op, q.key)}} :
         p \in Places(v)}

(***************************************************************************)
(* The operations no query shows are met with one every page watches and   *)
(* none changes, and so are the links: a link is let through when the page *)
(* it opens does.                                                          *)
(***************************************************************************)
serverInfo == Read(<<"server-info">>, "serverInfo.get")

Offers(v) ==
  UNION {UserOffers(v), GroupOffers(v), RuleOffers(v), CreateOffers(v), BulkOffers(v),
         RowOffers(v), AdminOffers(v)}

Unseen(v) ==
  {[op |-> o, read |-> serverInfo, verdict |-> Verdict(v, o)] :
     o \in Offers(v) \ {pair.op : pair \in Pairs(v)}}

Links(v) ==
  {[op |-> Op("open", {}, page[1]), read |-> serverInfo,
    verdict |-> IF beforeLoad(v, page) THEN "accepted" ELSE "forbidden"] : page \in PaletteLinks(v)}

Picks == UNION {Pairs(v) \cup Unseen(v) \cup Links(v) : v \in Viewers}

(***************************************************************************)
(* The request of an operation: left calls to make, of which the one that  *)
(* is made when own are left is about the viewer's own row.                *)
(***************************************************************************)
Requests(p) ==
  {c \in [at : {"idle"}, left : 1 .. 2, own : 0 .. 2, raced : {FALSE}] :
     /\ p.op.repeats = "once" => c.left = 1
     /\ p.op.repeats = "chain" => c.left = 2
     /\ IF p.verdict = "own" THEN c.own \in 1 .. c.left ELSE c.own = 0}

(***************************************************************************)
(* The cache.                                                              *)
(***************************************************************************)
Idle == [at |-> "no", saw |-> "none", tries |-> 0]
Asked == [at |-> "asked", saw |-> "none", tries |-> 0]

OwnInit ==
  /\ pick \in Picks
  /\ srv = "before"
  /\ entry \in {[data |-> "none", fresh |-> FALSE], [data |-> "before", fresh |-> TRUE],
                [data |-> "before", fresh |-> FALSE]}
  /\ watched \in BOOLEAN
  /\ fetch = IF watched /\ ~entry.fresh THEN Asked ELSE Idle
  /\ call \in Requests(pick)
  /\ fetchFails = 0

\* A component that uses the query comes on screen.
Mount ==
  /\ ~watched
  /\ watched' = TRUE
  /\ fetch' = IF entry.fresh THEN fetch ELSE Asked
  /\ UNCHANGED <<pick, srv, entry, call, fetchFails>>

\* The last component that uses the query leaves: its request is aborted.
Unmount ==
  /\ watched
  /\ watched' = FALSE
  /\ fetch' = Idle
  /\ UNCHANGED <<pick, srv, entry, call, fetchFails>>

Age ==
  /\ entry.fresh
  /\ entry' = [entry EXCEPT !.fresh = FALSE]
  /\ UNCHANGED <<pick, srv, fetch, watched, call, fetchFails>>

\* The window gets the focus back.
Refocus ==
  /\ watched /\ fetch.at = "no" /\ ~entry.fresh
  /\ fetch' = Asked
  /\ UNCHANGED <<pick, srv, entry, watched, call, fetchFails>>

\* The server reads the directory for the query.
ServeQuery ==
  /\ fetch.at = "asked"
  /\ fetch' = [fetch EXCEPT !.at = "read", !.saw = srv]
  /\ UNCHANGED <<pick, srv, entry, watched, call, fetchFails>>

Answer ==
  /\ fetch.at = "read"
  /\ entry' = [data |-> fetch.saw, fresh |-> TRUE]
  /\ fetch' = Idle
  /\ UNCHANGED <<pick, srv, watched, call, fetchFails>>

\* Mutant: a query that failed is not tried again.
FailForGood ==
  /\ fetch.at # "no" /\ fetchFails < MaxFetchFails
  /\ fetch' = Idle
  /\ fetchFails' = fetchFails + 1
  /\ UNCHANGED <<pick, srv, entry, watched, call>>

\* A request of the query fails, and is tried once more.
Fail ==
  /\ fetch.at # "no" /\ fetchFails < MaxFetchFails
  /\ fetch' = IF fetch.tries < 1 THEN [Asked EXCEPT !.tries = 1] ELSE Idle
  /\ fetchFails' = fetchFails + 1
  /\ UNCHANGED <<pick, srv, entry, watched, call>>

(***************************************************************************)
(* The operation.  Marking a query out of date fetches it again at once    *)
(* when it is watched; a first load under way is left to finish, and its   *)
(* answer counts as new (raced) though it may be older than the write.     *)
(***************************************************************************)
Hit == Reaches(pick.op.refreshes, pick.read.key)
FirstLoad == fetch.at # "no" /\ entry.data = "none"

Invalidate(next) ==
  /\ entry' = IF Hit THEN [entry EXCEPT !.fresh = FALSE] ELSE entry
  /\ fetch' = IF Hit /\ watched /\ ~FirstLoad THEN Asked ELSE fetch
  /\ call' = [next EXCEPT !.raced = Hit /\ FirstLoad]

Send ==
  /\ call.at = "idle"
  /\ call' = [call EXCEPT !.at = "sent"]
  /\ UNCHANGED <<pick, srv, entry, fetch, watched, fetchFails>>

RefusesThis == pick.verdict = "forbidden" \/ call.own = call.left

\* The server refuses the call, or writes.
Serve ==
  /\ call.at = "sent"
  /\ srv' = IF ~RefusesThis /\ Changes(pick.op.call) \cap Shows(pick.read.call) # {}
            THEN "after" ELSE srv
  /\ call' = [call EXCEPT !.at = IF RefusesThis THEN "refused" ELSE "applied"]
  /\ UNCHANGED <<pick, entry, fetch, watched, fetchFails>>

\* The call is answered.  A bulk action goes on after a refusal.
Answered == call.at = "applied" \/ (call.at = "refused" /\ pick.op.repeats = "all")

\* The next call of several is sent.
NextCall ==
  /\ Answered /\ call.left > 1
  /\ call' = [call EXCEPT !.at = "sent", !.left = call.left - 1]
  /\ UNCHANGED <<pick, srv, entry, fetch, watched, fetchFails>>

Succeed ==
  /\ Answered /\ call.left = 1
  /\ Invalidate([call EXCEPT !.at = "ok"])
  /\ UNCHANGED <<pick, srv, watched, fetchFails>>

\* A call fails, before or after it was applied.  A chain stops there and
\* marks nothing out of date; a bulk action goes on and marks its keys.
FailCall ==
  /\ call.at \in {"sent", "applied"}
  /\ IF pick.op.repeats = "all"
       THEN IF call.left > 1
              THEN /\ call' = [call EXCEPT !.at = "sent", !.left = call.left - 1]
                   /\ UNCHANGED <<entry, fetch>>
              ELSE Invalidate([call EXCEPT !.at = "ok"])
       ELSE call' = [call EXCEPT !.at = "failed"] /\ UNCHANGED <<entry, fetch>>
  /\ UNCHANGED <<pick, srv, watched, fetchFails>>

OwnStep ==
  \/ Mount \/ Unmount \/ Age \/ Refocus \/ ServeQuery \/ Answer \/ Fail
  \/ Send \/ Serve \/ NextCall \/ Succeed \/ FailCall

OwnSpec == OwnInit /\ [][OwnStep]_ownVars

OwnFairness == WF_ownVars(ServeQuery) /\ WF_ownVars(Answer)

(***************************************************************************)
(* Properties.                                                             *)
(***************************************************************************)
(* After an operation succeeded, an answer counted as fresh is never older *)
(* than its write, except for a first load that was already under way and  *)
(* for the queries the pages let catch up on their own (Lags).             *)
OwnWriteIsSeen ==
  call.at = "ok" /\ srv = "after" /\ entry.fresh /\ ~call.raced => entry.data = "after"

(* The server refuses nothing a page offers, and no page the bar or the    *)
(* palette leads to turns its visitor away.  One exception: the bar over a *)
(* selection does not look whether one's own row is among those selected   *)
(* (users-bulk-actions.tsx), and the server refuses to lock, expire or     *)
(* delete that one.                                                        *)
OfferedIsAccepted ==
  call.at = "refused" => pick.op.repeats = "all" /\ pick.verdict = "own"

(* What is on screen when an operation succeeded catches up with it, even  *)
(* when one request of the query fails.                                    *)
OwnWriteShowsUp ==
  (call.at = "ok" /\ srv = "after" /\ Hit /\ watched /\ ~call.raced)
    ~> (entry.data = "after" \/ ~watched)
=============================================================================
