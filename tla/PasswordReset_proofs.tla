------------------------ MODULE PasswordReset_proofs ------------------------
(***************************************************************************)
(* The safety of password-reset links, for any sets of accounts, addresses,*)
(* administrators, links and requests, any caps and any of the failures.   *)
(*                                                                         *)
(* The invariant has a core (what a link or a request still says of the    *)
(* directory) and three parts the directory has no bearing on: single use, *)
(* rivals, caps.  Almost every step leaves those three alone for one and   *)
(* the same reason, Frame; six steps need an argument of their own.        *)
(***************************************************************************)
EXTENDS PasswordReset, FiniteSetTheorems, TLAPS

IssuePcs == {"countActor", "countUser", "issueAudit", "supersede", "insert"}
CheckedPcs == {"confirmAudit", "change"}

\* What a request holds at each of its steps.
ShapeOf(q) ==
  /\ q.pc \in IssuePcs => q.target \in Accounts /\ q.mail \in Mails /\ q.actor \in Actors
  /\ q.pc = "check" \/ q.pc \in CheckedPcs =>
       q.target \in Accounts /\ q.mail \in Mails /\ q.link \in Links
  /\ q.pc \in {"audit", "write"} =>
       q.op \in ChangeOps /\ q.target \in Accounts /\ (q.op = "rename" => q.to \in Accounts)
  /\ q.pc = "retire" => q.target \in Accounts

Shapes == \A r \in Requests : ShapeOf(req[r])

\* A usable link no change came after fits the entry, and so does an issuance
\* or a checked redemption that nothing overtook.
CurrentFollows ==
  \A l \in Links : Usable(l) /\ links[l].standing = "current" =>
    Exists(links[l].user) /\ entry[links[l].user].mail = links[l].email

Follows(q) ==
  ~q.overtaken =>
    /\ q.pc \in IssuePcs => Exists(q.target) /\ entry[q.target].mail = q.mail
    /\ q.pc \in CheckedPcs => StillTheAccount(q.target, q.mail)

RequestsFollow == \A r \in Requests : Follows(req[r])

Core == TypeOK /\ Shapes /\ VoidLinksAreRetired /\ CurrentFollows /\ RequestsFollow

\* A link carried by a request is claimed and has set no password yet, and no
\* other request carries it.
UsedOnce ==
  /\ SingleUse
  /\ \A l \in Links : Stored(l) /\ links[l].used # "claimed" => links[l].resets = 0
  /\ \A r \in Requests : req[r].link # None /\ Stored(req[r].link) =>
       links[req[r].link].used = "claimed" /\ links[req[r].link].resets = 0
  /\ \A q, r \in Requests : req[q].link = req[r].link /\ req[r].link # None => q = r

\* Between superseding and inserting, a usable link of the account is a rival.
NoRivalYet ==
  /\ \A r \in Requests : At(r, "insert") /\ ~req[r].rival => UsableOf(req[r].target) = {}
  /\ \A k, l \in Links :
       Usable(k) /\ Usable(l) /\ links[k].user = links[l].user
         /\ ~links[k].rival /\ ~links[l].rival => k = l

\* The requests past a cap's count hold a place each.
PastUserCount  == {"issueAudit", "supersede", "insert"}
PastActorCount == {"countUser", "issueAudit", "supersede", "insert"}

HoldingOfUser(u)  == {r \in Requests : req[r].pc \in PastUserCount /\ req[r].target = u}
HoldingOfActor(a) == {r \in Requests : req[r].pc \in PastActorCount /\ req[r].actor = a}

UserCap ==
  \A u \in Accounts :
    Cardinality(RecentOfUser(u)) + Cardinality(HoldingOfUser(u))
      <= MaxPerUser + Cardinality(Requests) - 1

ActorCap ==
  \A a \in Actors :
    Cardinality(RecentOfActor(a)) + Cardinality(HoldingOfActor(a))
      <= MaxPerActor + Cardinality(Requests) - 1

IInv == Core /\ UsedOnce /\ NoRivalYet /\ UserCap /\ ActorCap

-----------------------------------------------------------------------------
(* The initial state. *)

\* An idle slot is well formed, and holds nothing.
LEMMA IdleFacts ==
  /\ Idle \in Request /\ ShapeOf(Idle)
  /\ Idle.pc = "idle" /\ Idle.link = None /\ Idle.overtaken = FALSE
  BY ConstantsAssumption
  DEF Idle, Request, AllOps, ChangeOps, ShapeOf, IssuePcs, CheckedPcs

LEMMA InitIInv == Init => IInv
  <1> SUFFICES ASSUME Init PROVE IInv
    OBVIOUS
  <1> USE IdleFacts
  <1>1. TypeOK
    BY DEF Init, TypeOK, Entry
  <1>2. Shapes /\ RequestsFollow
    BY DEF Init, Shapes, RequestsFollow, Follows, IssuePcs, CheckedPcs
  <1>3. VoidLinksAreRetired /\ CurrentFollows
    BY DEF Init, VoidLinksAreRetired, CurrentFollows, Usable, Stored
  <1>4. UsedOnce
    BY DEF Init, UsedOnce, SingleUse, Stored
  <1>5. NoRivalYet
    BY DEF Init, NoRivalYet, At, Usable, Stored
  <1>6. Cardinality(Requests) \in Nat
    BY FiniteAssumption, FS_CardinalityType
  <1>7. UserCap
    <2> SUFFICES ASSUME NEW u \in Accounts
                 PROVE  Cardinality(RecentOfUser(u)) + Cardinality(HoldingOfUser(u))
                          <= MaxPerUser + Cardinality(Requests) - 1
      BY DEF UserCap
    <2>1. RecentOfUser(u) = {} /\ HoldingOfUser(u) = {}
      BY DEF Init, RecentOfUser, HoldingOfUser, Stored, PastUserCount
    <2> QED
      BY <1>6, <2>1, FS_EmptySet, CapsAssumption
  <1>8. ActorCap
    <2> SUFFICES ASSUME NEW a \in Actors
                 PROVE  Cardinality(RecentOfActor(a)) + Cardinality(HoldingOfActor(a))
                          <= MaxPerActor + Cardinality(Requests) - 1
      BY DEF ActorCap
    <2>1. RecentOfActor(a) = {} /\ HoldingOfActor(a) = {}
      BY DEF Init, RecentOfActor, HoldingOfActor, Stored, PastActorCount
    <2> QED
      BY <1>6, <2>1, FS_EmptySet, CapsAssumption
  <1> QED
    BY <1>1, <1>2, <1>3, <1>4, <1>5, <1>7, <1>8 DEF IInv, Core

-----------------------------------------------------------------------------
(* The core: what links and requests say of the directory. *)

SameRequest(old, new) ==
  /\ new \in Request
  /\ new.pc = old.pc /\ new.op = old.op /\ new.target = old.target /\ new.to = old.to
  /\ new.mail = old.mail /\ new.actor = old.actor /\ new.link = old.link
  /\ new.overtaken = old.overtaken

\* A usable row after the step is an old one, or fits the entry (or is late).
RowFits(l) ==
  links'[l] # None /\ links'[l].used = "no" =>
    \/ /\ Usable(l) /\ links'[l].standing = links[l].standing
       /\ links'[l].user = links[l].user /\ links'[l].email = links[l].email
    \/ links'[l].standing = "late"
    \/ /\ links'[l].standing = "current"
       /\ Exists(links'[l].user) /\ entry[links'[l].user].mail = links'[l].email

\* A step that takes nothing from any entry keeps the core when each request
\* and each row fits the entries, and nobody's unretired links are forgotten.
LEMMA CalmKeepsCore ==
  ASSUME Core,
         entry' \in [Accounts -> Entry \cup {None}],
         links' \in [Links -> Row \cup {None}],
         req' \in [Requests -> Request],
         missed' \in SUBSET Accounts,
         \A v \in Accounts : Exists(v) =>
           /\ entry'[v] # None /\ entry'[v].mail = entry[v].mail
           /\ ~entry[v].locked => ~entry'[v].locked,
         \A p \in Requests :
           SameRequest(req[p], req'[p]) \/ (ShapeOf(req'[p]) /\ Follows(req'[p])),
         \A l \in Links : RowFits(l),
         \A u \in Accounts : u \in missed \/ Pending(u) =>
           \/ u \in missed' \/ \E p \in Requests : req'[p].pc = "retire" /\ req'[p].target = u
           \/ \A l \in Links : links'[l] # None /\ links'[l].user = u => links'[l].used # "no"
  PROVE  Core'
  <1>1. TypeOK'
    BY DEF TypeOK
  <1>2. TypeOK /\ Shapes /\ VoidLinksAreRetired /\ CurrentFollows /\ RequestsFollow
    BY DEF Core
  <1>3. \A p \in Requests : ShapeOf(req'[p])
    BY <1>2 DEF Shapes, ShapeOf, SameRequest
  <1>4. Shapes'
    BY <1>3 DEF Shapes, ShapeOf
  <1>5. VoidLinksAreRetired'
    <2> SUFFICES ASSUME NEW l \in Links, links'[l] # None, links'[l].used = "no",
                        links'[l].standing = "void"
                 PROVE  \/ links'[l].user \in missed'
                        \/ \E p \in Requests : req'[p].pc = "retire" /\ req'[p].target = links'[l].user
      BY DEF VoidLinksAreRetired, Usable, Stored, Pending, At
    <2>1. Usable(l) /\ links[l].standing = "void" /\ links'[l].user = links[l].user
      BY DEF RowFits
    <2>2. Pending(links[l].user) \/ links[l].user \in missed
      BY <1>2, <2>1 DEF VoidLinksAreRetired
    <2>3. links'[l].user \in Accounts
      BY DEF Row
    <2> QED
      BY <2>1, <2>2, <2>3
  <1>6. CurrentFollows'
    <2> SUFFICES ASSUME NEW l \in Links, links'[l] # None, links'[l].used = "no",
                        links'[l].standing = "current"
                 PROVE  /\ entry'[links'[l].user] # None
                        /\ entry'[links'[l].user].mail = links'[l].email
      BY DEF CurrentFollows, Usable, Stored, Exists
    <2>1. links'[l].user \in Accounts
      BY DEF Row
    <2>2. Exists(links'[l].user) /\ entry[links'[l].user].mail = links'[l].email
      BY <1>2 DEF RowFits, CurrentFollows
    <2> QED
      BY <2>1, <2>2
  <1>7. ASSUME NEW p \in Requests
        PROVE  ~req'[p].overtaken =>
                 /\ req'[p].pc \in IssuePcs =>
                      /\ entry'[req'[p].target] # None
                      /\ entry'[req'[p].target].mail = req'[p].mail
                 /\ req'[p].pc \in CheckedPcs =>
                      /\ entry'[req'[p].target] # None
                      /\ entry'[req'[p].target].mail = req'[p].mail
                      /\ ~entry'[req'[p].target].locked
    <2>1. Follows(req'[p])
      BY <1>2 DEF RequestsFollow, Follows, SameRequest
    <2>2. req'[p].pc \in IssuePcs \cup CheckedPcs => req'[p].target \in Accounts
      BY <1>3 DEF ShapeOf
    <2> QED
      BY <2>1, <2>2 DEF Follows, StillTheAccount, Exists
  <1>8. RequestsFollow'
    BY <1>7 DEF RequestsFollow, Follows, StillTheAccount, Exists
  <1> QED
    BY <1>1, <1>4, <1>5, <1>6, <1>8 DEF Core

\* A change that retires the links of u keeps the core when only the entry of u,
\* or one that was not there, is written, and somebody owes or missed the rest.
LEMMA TouchKeepsCore ==
  ASSUME Core, NEW u \in Accounts, NEW next \in [Requests -> Request],
         entry' \in [Accounts -> Entry \cup {None}],
         missed' \in SUBSET Accounts,
         \A v \in Accounts \ {u} : Exists(v) => entry'[v] = entry[v],
         \A p \in Requests :
           \/ next[p] = req[p]
           \/ next[p] = Idle /\ ~At(p, "retire")
           \/ next[p] = [req[p] EXCEPT !.pc = "retire"] /\ At(p, "write"),
         u \in missed' \/ \E p \in Requests : next[p].pc = "retire" /\ next[p].target = u,
         missed \subseteq missed',
         Touch(u, next)
  PROVE  Core'
  <1>1. TypeOK /\ Shapes /\ VoidLinksAreRetired /\ CurrentFollows /\ RequestsFollow
    BY DEF Core
  <1>2. \A p \in Requests :
          /\ req'[p] \in Request
          /\ req'[p].pc = next[p].pc /\ req'[p].op = next[p].op
          /\ req'[p].target = next[p].target /\ req'[p].to = next[p].to
          /\ req'[p].mail = next[p].mail /\ req'[p].actor = next[p].actor
          /\ req'[p].link = next[p].link
          /\ req'[p].overtaken = (next[p].overtaken \/ GoesOnOldEntry(p, u))
    <2> TAKE p \in Requests
    <2>1. next[p] \in Request /\ next[p].overtaken \in BOOLEAN
      BY DEF Request
    <2>2. GoesOnOldEntry(p, u) \in BOOLEAN
      BY DEF GoesOnOldEntry
    <2>3. req'[p] = [next[p] EXCEPT !.overtaken = @ \/ GoesOnOldEntry(p, u)]
      BY DEF Touch
    <2> QED
      BY <2>1, <2>2, <2>3 DEF Request
  <1>3. \A l \in Links :
          /\ links'[l] \in Row \cup {None}
          /\ links'[l] = None <=> links[l] = None
          /\ links[l] # None =>
               /\ links'[l].user = links[l].user /\ links'[l].email = links[l].email
               /\ links'[l].used = links[l].used
               /\ links'[l].standing = IF l \in UsableOf(u) THEN "void" ELSE links[l].standing
    <2> TAKE l \in Links
    <2>1. links[l] \in Row \cup {None}
      BY <1>1 DEF TypeOK
    <2>2. links'[l] = IF l \in UsableOf(u) THEN [links[l] EXCEPT !.standing = "void"]
                      ELSE links[l]
      BY DEF Touch
    <2>3. CASE l \in UsableOf(u)
      <3>1. links[l] \in Row /\ links[l] # None
        BY <2>1, <2>3 DEF UsableOf, Usable, Stored
      <3>2. links'[l] \in Row
        BY <2>2, <2>3, <3>1 DEF Row
      <3> QED
        BY <2>2, <2>3, <3>1, <3>2, NoneAssumption DEF Row
    <2>4. CASE l \notin UsableOf(u)
      BY <2>1, <2>2, <2>4
    <2> QED
      BY <2>3, <2>4
  <1>4. TypeOK'
    <2>1. links' \in [Links -> Row \cup {None}]
      BY <1>3 DEF Touch
    <2>2. req' \in [Requests -> Request]
      BY <1>2 DEF Touch
    <2> QED
      BY <2>1, <2>2 DEF TypeOK
  <1>5. \A p \in Requests : ShapeOf(next[p])
    BY <1>1, IdleFacts DEF Shapes, ShapeOf, TypeOK, Request, At, IssuePcs, CheckedPcs
  <1>6. Shapes'
    BY <1>2, <1>5 DEF Shapes, ShapeOf
  <1>7. VoidLinksAreRetired'
    <2> SUFFICES ASSUME NEW l \in Links, links'[l] # None, links'[l].used = "no",
                        links'[l].standing = "void"
                 PROVE  \/ links[l].user \in missed'
                        \/ \E p \in Requests : next[p].pc = "retire" /\ next[p].target = links[l].user
      BY <1>2, <1>3 DEF VoidLinksAreRetired, Usable, Stored, Pending, At
    <2>1. Usable(l)
      BY <1>3 DEF Usable, Stored
    <2>2. CASE links[l].user = u
      BY <2>2
    <2>3. CASE links[l].user # u
      <3>1. links[l].standing = "void"
        BY <1>3, <2>1, <2>3 DEF UsableOf, Usable, Stored
      <3>2. Pending(links[l].user) \/ links[l].user \in missed
        BY <1>1, <2>1, <3>1 DEF VoidLinksAreRetired
      <3>3. \A p \in Requests : At(p, "retire") => next[p] = req[p]
        BY DEF At
      <3> QED
        BY <3>2, <3>3 DEF Pending, At
    <2> QED
      BY <2>2, <2>3
  <1>8. CurrentFollows'
    <2> SUFFICES ASSUME NEW l \in Links, links'[l] # None, links'[l].used = "no",
                        links'[l].standing = "current"
                 PROVE  /\ entry'[links[l].user] # None
                        /\ entry'[links[l].user].mail = links[l].email
      BY <1>3 DEF CurrentFollows, Usable, Stored, Exists
    <2>1. Usable(l) /\ l \notin UsableOf(u) /\ links[l].standing = "current"
      BY <1>3 DEF Usable, Stored
    <2>2. links[l].user # u /\ links[l].user \in Accounts
      BY <1>1, <2>1 DEF UsableOf, Usable, Stored, TypeOK, Row
    <2>3. Exists(links[l].user) /\ entry[links[l].user].mail = links[l].email
      BY <1>1, <2>1 DEF CurrentFollows
    <2> QED
      BY <2>2, <2>3 DEF Exists
  <1>9. ASSUME NEW p \in Requests, ~req'[p].overtaken
        PROVE  /\ req'[p].pc \in IssuePcs =>
                    /\ entry'[req'[p].target] # None
                    /\ entry'[req'[p].target].mail = req'[p].mail
               /\ req'[p].pc \in CheckedPcs =>
                    /\ entry'[req'[p].target] # None
                    /\ entry'[req'[p].target].mail = req'[p].mail
                    /\ ~entry'[req'[p].target].locked
    <2> SUFFICES ASSUME next[p].pc \in IssuePcs \cup CheckedPcs
                 PROVE  /\ entry'[next[p].target] # None
                        /\ entry'[next[p].target].mail = next[p].mail
                        /\ next[p].pc \in CheckedPcs => ~entry'[next[p].target].locked
      BY <1>2
    <2>1. next[p] = req[p]
      BY IdleFacts, <1>1 DEF IssuePcs, CheckedPcs, TypeOK, Request
    <2>2. ~req[p].overtaken /\ ~GoesOnOldEntry(p, u)
      BY <1>2, <1>9, <2>1
    <2>3. req[p].target # u /\ req[p].target \in Accounts
      BY <1>5, <2>1, <2>2 DEF GoesOnOldEntry, IssuePcs, CheckedPcs, ShapeOf
    <2>4. /\ Exists(req[p].target) /\ entry[req[p].target].mail = req[p].mail
          /\ req[p].pc \in CheckedPcs => ~entry[req[p].target].locked
      BY <1>1, <2>1, <2>2 DEF RequestsFollow, Follows, StillTheAccount
    <2> QED
      BY <2>1, <2>3, <2>4 DEF Exists
  <1>10. RequestsFollow'
    BY <1>9 DEF RequestsFollow, Follows, StillTheAccount, Exists
  <1> QED
    BY <1>4, <1>6, <1>7, <1>8, <1>10 DEF Core

\* A request goes from one step to another, over rows that fit.
LEMMA StepKeepsCore ==
  ASSUME Core, NEW r \in Requests, NEW q \in Request, ShapeOf(q), Follows(q),
         req' = [req EXCEPT ![r] = q], ~At(r, "retire"),
         links' \in [Links -> Row \cup {None}],
         \A l \in Links : links'[l] = links[l] \/ RowFits(l),
         UNCHANGED <<entry, missed>>
  PROVE  Core'
  <1>1. TypeOK
    BY DEF Core
  <1>2. req' \in [Requests -> Request] /\ req'[r] = q
         /\ \A p \in Requests \ {r} : req'[p] = req[p]
    BY <1>1 DEF TypeOK
  <1>3. \A p \in Requests :
          SameRequest(req[p], req'[p]) \/ (ShapeOf(req'[p]) /\ Follows(req'[p]))
    BY <1>2 DEF SameRequest
  <1>4. \A l \in Links : RowFits(l)
    BY DEF RowFits, Usable, Stored
  <1>5. \A u \in Accounts : Pending(u) =>
          \E p \in Requests : req'[p].pc = "retire" /\ req'[p].target = u
    BY <1>2 DEF Pending, At
  <1>6. \A v \in Accounts : Exists(v) =>
           /\ entry'[v] # None /\ entry'[v].mail = entry[v].mail
           /\ ~entry[v].locked => ~entry'[v].locked
    BY DEF Exists
  <1>7. entry' \in [Accounts -> Entry \cup {None}] /\ missed' \in SUBSET Accounts
    BY <1>1 DEF TypeOK
  <1>8. \A u \in Accounts : u \in missed \/ Pending(u) =>
           \/ u \in missed' \/ \E p \in Requests : req'[p].pc = "retire" /\ req'[p].target = u
           \/ \A l \in Links : links'[l] # None /\ links'[l].user = u => links'[l].used # "no"
    BY <1>5
  <1> QED
    BY <1>2, <1>3, <1>4, <1>6, <1>7, <1>8, CalmKeepsCore

\* What a step of an issuance, a redemption or a change carries on to the next.
LEMMA AdvanceKeepsCore ==
  ASSUME Core, NEW r \in Requests, NEW pc, Go(r, pc),
         \/ req[r].pc \in IssuePcs /\ pc \in IssuePcs
         \/ At(r, "check") /\ pc = "confirmAudit" /\ StillTheAccount(req[r].target, req[r].mail)
         \/ At(r, "confirmAudit") /\ pc = "change"
         \/ At(r, "audit") /\ pc = "write",
         links' \in [Links -> Row \cup {None}],
         \A l \in Links : links'[l] = links[l] \/ RowFits(l),
         UNCHANGED <<entry, missed>>
  PROVE  Core'
  <1> DEFINE q == [req[r] EXCEPT !.pc = pc]
  <1>1. TypeOK /\ ShapeOf(req[r]) /\ Follows(req[r])
    BY DEF Core, Shapes, RequestsFollow
  <1>2. req[r] \in Request
    BY <1>1 DEF TypeOK
  <1>3. /\ q \in Request /\ q.pc = pc /\ q.target = req[r].target /\ q.mail = req[r].mail
        /\ q.actor = req[r].actor /\ q.link = req[r].link /\ q.op = req[r].op
        /\ q.to = req[r].to /\ q.overtaken = req[r].overtaken
    BY <1>2 DEF Request, IssuePcs
  <1>4. req' = [req EXCEPT ![r] = q] /\ ~At(r, "retire")
    BY DEF Go, At, IssuePcs
  <1> HIDE DEF q
  <1>5. ShapeOf(q)
    BY <1>1, <1>3 DEF ShapeOf, IssuePcs, CheckedPcs, At
  <1>6. Follows(q)
    BY <1>1, <1>3 DEF Follows, IssuePcs, CheckedPcs, At
  <1> QED
    BY <1>3, <1>4, <1>5, <1>6, StepKeepsCore

\* An answer: the slot is free again.
LEMMA StopKeepsCore ==
  ASSUME Core, NEW r \in Requests, Stop(r), ~At(r, "retire"),
         links' \in [Links -> Row \cup {None}],
         \A l \in Links : links'[l] = links[l] \/ RowFits(l),
         UNCHANGED <<entry, missed>>
  PROVE  Core'
  <1>1. Follows(Idle)
    BY IdleFacts DEF Follows, IssuePcs, CheckedPcs
  <1> QED
    BY <1>1, IdleFacts, StepKeepsCore DEF Stop

\* A statement that retires every usable link of an account.
LEMMA RevokeFacts ==
  ASSUME TypeOK, NEW u, RevokeForUser(u)
  PROVE  /\ links' \in [Links -> Row \cup {None}]
         /\ \A l \in Links :
              \/ links'[l] = links[l] /\ l \notin UsableOf(u)
              \/ /\ l \in UsableOf(u)
                 /\ links'[l] = [links[l] EXCEPT !.used = "retired"]
                 /\ links'[l] # None /\ links'[l].used = "retired"
         /\ \A l \in Links : links'[l] = links[l] \/ RowFits(l)
  <1>1. ASSUME NEW l \in Links, l \in UsableOf(u)
        PROVE  /\ links'[l] \in Row /\ links'[l] # None /\ links'[l].used = "retired"
               /\ links'[l] = [links[l] EXCEPT !.used = "retired"]
    <2>1. links[l] \in Row
      BY <1>1 DEF TypeOK, UsableOf, Usable, Stored
    <2>2. links'[l] = [links[l] EXCEPT !.used = "retired"]
      BY <1>1 DEF RevokeForUser
    <2>3. links'[l] \in Row /\ links'[l].used = "retired"
      BY <2>1, <2>2 DEF Row
    <2> QED
      BY <2>2, <2>3, NoneAssumption
  <1>2. ASSUME NEW l \in Links, l \notin UsableOf(u)
        PROVE  links'[l] = links[l]
    BY <1>2 DEF RevokeForUser
  <1>3. links' \in [Links -> Row \cup {None}]
    BY <1>1, <1>2 DEF RevokeForUser, TypeOK
  <1> QED
    BY <1>1, <1>2, <1>3 DEF RowFits

-----------------------------------------------------------------------------
(* Every action keeps the core. *)

LEMMA ArriveKeepsCore ==
  ASSUME Core, NEW r \in Requests, Arrive(r)
  PROVE  Core'
  <1> USE ConstantsAssumption
  <1>1. TypeOK
    BY DEF Core
  <1>2. CASE \E a \in Actors, u \in Accounts : BeginIssue(r, a, u)
    <2>1. PICK a \in Actors, u \in Accounts : BeginIssue(r, a, u)
      BY <1>2
    <2> DEFINE q == Issuing(a, u)
    <2>2. entry[u] \in Entry /\ entry[u].mail \in Mails
      BY <1>1, <2>1 DEF TypeOK, BeginIssue, Exists, Entry
    <2>3. q \in Request /\ q.pc = "countActor"
          /\ q.target = u /\ q.mail = entry[u].mail /\ q.actor = a
      BY <2>2 DEF Issuing, Idle, Request, AllOps
    <2>4. ShapeOf(q)
      BY <2>2, <2>3 DEF ShapeOf, CheckedPcs
    <2>5. Follows(q)
      BY <2>1, <2>3 DEF Follows, BeginIssue, CheckedPcs
    <2> HIDE DEF q
    <2> QED
      BY <1>1, <2>1, <2>3, <2>4, <2>5, StepKeepsCore DEF BeginIssue, At, TypeOK, q
  <1>3. CASE \E l \in Links : ConsumeToken(r, l)
    <2>1. PICK l \in Links : ConsumeToken(r, l)
      BY <1>3
    <2> DEFINE q == Redeeming(r, l)
    <2>2. links[l] \in Row
      BY <1>1, <2>1 DEF TypeOK, ConsumeToken, Usable, Stored
    <2>3. links[l].user \in Accounts /\ links[l].email \in Mails
      BY <2>2 DEF Row
    <2>4. q \in Request /\ q.pc = "check"
          /\ q.target = links[l].user /\ q.mail = links[l].email /\ q.link = l
      BY <2>3 DEF Redeeming, Idle, Request, AllOps
    <2>5. ShapeOf(q) /\ Follows(q)
      BY <2>3, <2>4 DEF ShapeOf, Follows, CheckedPcs, IssuePcs
    <2>6. links'[l] = [links[l] EXCEPT !.used = "claimed"]
          /\ \A k \in Links \ {l} : links'[k] = links[k]
      BY <1>1, <2>1 DEF ConsumeToken, TypeOK
    <2>7. links'[l] \in Row /\ links'[l].used = "claimed"
      BY <2>2, <2>6 DEF Row
    <2>8. links' \in [Links -> Row \cup {None}]
      BY <1>1, <2>1, <2>6, <2>7 DEF ConsumeToken, TypeOK
    <2>9. \A k \in Links : links'[k] = links[k] \/ RowFits(k)
      BY <2>6, <2>7 DEF RowFits
    <2> HIDE DEF q
    <2> QED
      BY <1>1, <2>1, <2>4, <2>5, <2>8, <2>9, StepKeepsCore DEF ConsumeToken, At, q
  <1>4. CASE \E op \in ChangeOps : BeginChange(r, op)
    <2>1. PICK op \in ChangeOps : BeginChange(r, op)
      BY <1>4
    <2>2. PICK u \in Accounts, to \in Accounts \cup {None}, m \in Mails \cup {None},
               b \in Mails \cup {None, "unread"} :
            /\ op = "rename" => to # None
            /\ req' = [req EXCEPT ![r] = Changing(op, u, to, m, b)]
      BY <2>1 DEF BeginChange
    <2> DEFINE q == Changing(op, u, to, m, b)
    <2>3. q \in Request /\ q.pc = "audit" /\ q.op = op /\ q.target = u /\ q.to = to
      BY DEF Changing, Idle, Request, AllOps
    <2>4. ShapeOf(q) /\ Follows(q)
      BY <2>2, <2>3 DEF ShapeOf, Follows, CheckedPcs, IssuePcs
    <2>5. req' = [req EXCEPT ![r] = q]
      BY <2>2
    <2> HIDE DEF q
    <2> QED
      BY <1>1, <2>1, <2>3, <2>4, <2>5, StepKeepsCore DEF BeginChange, At, TypeOK
  <1> QED
    BY <1>2, <1>3, <1>4 DEF Arrive

LEMMA IssueKeepsCore ==
  ASSUME Core, NEW r \in Requests, Issue(r)
  PROVE  Core'
  <1>1. TypeOK /\ ShapeOf(req[r]) /\ Follows(req[r])
    BY DEF Core, Shapes, RequestsFollow
  <1>2. CASE CountRecentByActor(r)
    BY <1>1, <1>2, AdvanceKeepsCore, StopKeepsCore DEF CountRecentByActor, At, TypeOK, IssuePcs
  <1>3. CASE CountRecentForUser(r)
    BY <1>1, <1>3, AdvanceKeepsCore, StopKeepsCore DEF CountRecentForUser, At, TypeOK, IssuePcs
  <1>4. CASE AuditIssue(r)
    BY <1>1, <1>4, AdvanceKeepsCore, StopKeepsCore DEF AuditIssue, At, TypeOK, IssuePcs
  <1>5. CASE Supersede(r)
    <2>1. CASE RevokeForUser(req[r].target) /\ Go(r, "insert")
      BY <1>1, <1>5, <2>1, RevokeFacts, AdvanceKeepsCore DEF Supersede, At, IssuePcs
    <2>2. CASE Stop(r) /\ UNCHANGED links
      BY <1>1, <1>5, <2>2, StopKeepsCore DEF Supersede, At, TypeOK
    <2> QED
      BY <1>5, <2>1, <2>2 DEF Supersede
  <1>6. CASE InsertLink(r)
    <2>1. CASE Stop(r) /\ UNCHANGED links
      BY <1>1, <1>6, <2>1, StopKeepsCore DEF InsertLink, At, TypeOK
    <2>2. CASE ~(Stop(r) /\ UNCHANGED links)
      <3> DEFINE u == req[r].target
                 row == NewRow(r)
      <3>1. PICK l \in Links : FreshLink(l) /\ links' = [links EXCEPT ![l] = row]
        BY <1>6, <2>2 DEF InsertLink
      <3>2. /\ At(r, "insert")
            /\ req' = [q \in Requests |->
                     IF q = r THEN Idle
                     ELSE [req[q] EXCEPT !.rival =
                             @ \/ (req[q].pc = "insert" /\ req[q].target = u)]]
            /\ UNCHANGED <<entry, missed>>
        BY <1>6, <2>2 DEF InsertLink
      <3>3. /\ u \in Accounts /\ req[r].mail \in Mails /\ req[r].actor \in Actors
            /\ req[r].rival \in BOOLEAN
            /\ ~req[r].overtaken => Exists(u) /\ entry[u].mail = req[r].mail
        BY <1>1, <3>2 DEF ShapeOf, Follows, At, IssuePcs, TypeOK, Request
      <3>4. row \in Row /\ row.user = u /\ row.email = req[r].mail
             /\ row.standing = IF req[r].overtaken THEN "late" ELSE "current"
        BY <3>3 DEF NewRow, Row
      <3>5. \A q \in Requests \ {r} : SameRequest(req[q], req'[q])
        <4> TAKE q \in Requests \ {r}
        <4>1. req[q] \in Request /\ req[q].rival \in BOOLEAN
          BY <1>1 DEF TypeOK, Request
        <4>2. req'[q] = [req[q] EXCEPT !.rival =
                             @ \/ (req[q].pc = "insert" /\ req[q].target = u)]
          BY <3>2
        <4> QED
          BY ZenonT(30), <4>1, <4>2 DEF SameRequest, Request
      <3>6. req'[r] = Idle /\ Follows(Idle)
        BY <3>2, IdleFacts DEF Follows, IssuePcs, CheckedPcs
      <3>7. req' \in [Requests -> Request]
        BY <3>2, <3>5, <3>6, IdleFacts DEF SameRequest
      <3>8. links'[l] = row /\ \A k \in Links \ {l} : links'[k] = links[k]
        BY <1>1, <3>1 DEF TypeOK
      <3> HIDE DEF row, u
      <3>9. links' \in [Links -> Row \cup {None}]
        BY <1>1, <3>1, <3>4 DEF TypeOK
      <3>10. \A k \in Links : RowFits(k)
        BY <3>3, <3>4, <3>8 DEF RowFits, Usable, Stored
      <3>11. \A v \in Accounts : Pending(v) =>
               \E p \in Requests : req'[p].pc = "retire" /\ req'[p].target = v
        BY <3>2, <3>5 DEF Pending, At, SameRequest
      <3>12. \A v \in Accounts : v \in missed \/ Pending(v) =>
               \/ v \in missed' \/ \E p \in Requests : req'[p].pc = "retire" /\ req'[p].target = v
               \/ \A k \in Links : links'[k] # None /\ links'[k].user = v => links'[k].used # "no"
        BY <3>2, <3>11
      <3>13. \A v \in Accounts : Exists(v) =>
               /\ entry'[v] # None /\ entry'[v].mail = entry[v].mail
               /\ ~entry[v].locked => ~entry'[v].locked
        BY <3>2 DEF Exists
      <3>14. entry' \in [Accounts -> Entry \cup {None}] /\ missed' \in SUBSET Accounts
        BY <1>1, <3>2 DEF TypeOK
      <3>15. \A p \in Requests :
               SameRequest(req[p], req'[p]) \/ (ShapeOf(req'[p]) /\ Follows(req'[p]))
        BY <3>5, <3>6, IdleFacts
      <3> QED
        BY <3>7, <3>9, <3>10, <3>12, <3>13, <3>14, <3>15, CalmKeepsCore
    <2> QED
      BY <2>1, <2>2
  <1> QED
    BY <1>2, <1>3, <1>4, <1>5, <1>6 DEF Issue

LEMMA ConfirmKeepsCore ==
  ASSUME Core, NEW r \in Requests, Confirm(r)
  PROVE  Core'
  <1>1. TypeOK /\ ShapeOf(req[r])
    BY DEF Core, Shapes
  <1>2. CASE resetTarget(r)
    BY <1>1, <1>2, AdvanceKeepsCore, StopKeepsCore DEF resetTarget, At, TypeOK
  <1>3. CASE AuditConfirm(r)
    BY <1>1, <1>3, AdvanceKeepsCore, StopKeepsCore DEF AuditConfirm, At, TypeOK
  <1>4. CASE ResetPassword(r)
    <2>1. CASE UNCHANGED links
      BY <1>1, <1>4, <2>1, StopKeepsCore DEF ResetPassword, At, TypeOK
    <2>2. CASE ~UNCHANGED links
      <3> DEFINE l == req[r].link
                 row == links[l]
                 new == WithReset(row)
      <3>1. links' = [links EXCEPT ![l] = new]
        BY <1>4, <2>2 DEF ResetPassword
      <3>2. l \in Links /\ links[l] \in Row \cup {None}
        BY <1>1, <1>4 DEF ResetPassword, ShapeOf, At, CheckedPcs, TypeOK
      <3>3. \A k \in Links \ {l} : links'[k] = links[k]
        BY <1>1, <3>1 DEF TypeOK
      <3>4. /\ links'[l] \in Row \cup {None}
            /\ links'[l] = links[l] \/ RowFits(l)
        <4> HIDE DEF new
        <4>1. links'[l] = new
          BY <1>1, <3>1, <3>2 DEF TypeOK
        <4>2. CASE new = row
          BY <3>2, <4>1, <4>2
        <4>3. CASE new # row
          <5> HIDE DEF row
          <5>1. row \in Row /\ row.resets # 2 /\ new = [row EXCEPT !.resets = row.resets + 1]
            BY <3>2, <4>3 DEF WithReset, new, row
          <5>2. row.resets + 1 \in 0 .. 2
            BY <5>1 DEF Row
          <5>3. /\ new \in Row /\ new.used = row.used /\ new.standing = row.standing
                /\ new.user = row.user /\ new.email = row.email
            BY <5>1, <5>2 DEF Row
          <5> QED
            BY <4>1, <5>1, <5>3, NoneAssumption DEF RowFits, Usable, Stored, row
        <4> QED
          BY <4>2, <4>3
      <3> HIDE DEF l
      <3>5. links' \in [Links -> Row \cup {None}]
        BY <1>1, <3>1, <3>3, <3>4 DEF TypeOK
      <3>6. \A k \in Links : links'[k] = links[k] \/ RowFits(k)
        BY <3>3, <3>4
      <3> QED
        BY <1>4, <3>5, <3>6, StopKeepsCore DEF ResetPassword, At
    <2> QED
      BY <2>1, <2>2
  <1> QED
    BY <1>2, <1>3, <1>4 DEF Confirm

\* A write that takes something away, and whether its handler goes on or stops.
TakeAway(r, u, new) ==
  /\ entry' = new
  /\ \/ Touch(u, Retiring(r)) /\ UNCHANGED missed
     \/ Touch(u, [req EXCEPT ![r] = Idle]) /\ missed' = missed \cup {u}

LEMMA TakeAwayKeepsCore ==
  ASSUME Core, NEW r \in Requests, At(r, "write"), NEW new,
         new \in [Accounts -> Entry \cup {None}],
         \A v \in Accounts \ {req[r].target} : Exists(v) => new[v] = entry[v],
         TakeAway(r, req[r].target, new)
  PROVE  Core'
  <1> DEFINE u == req[r].target
  <1>1. TypeOK /\ u \in Accounts /\ req[r] \in Request
    BY DEF Core, Shapes, ShapeOf, At, TypeOK
  <1>2. entry' = new
    BY DEF TakeAway
  <1>3. CASE Touch(u, Retiring(r)) /\ UNCHANGED missed
    <2>1. Retiring(r)[r] = [req[r] EXCEPT !.pc = "retire"] /\ Retiring(r)[r] \in Request
          /\ Retiring(r)[r].pc = "retire" /\ Retiring(r)[r].target = u
      BY <1>1 DEF Retiring, TypeOK, Request
    <2>2. Retiring(r) \in [Requests -> Request]
          /\ \A p \in Requests \ {r} : Retiring(r)[p] = req[p]
      BY <1>1, <2>1 DEF Retiring, TypeOK
    <2> HIDE DEF u
    <2> QED
      BY ZenonT(30), <1>1, <1>2, <1>3, <2>1, <2>2, TouchKeepsCore DEF TypeOK, u
  <1>4. CASE Touch(u, [req EXCEPT ![r] = Idle]) /\ missed' = missed \cup {u}
    <2> DEFINE next == [req EXCEPT ![r] = Idle]
    <2>1. next \in [Requests -> Request] /\ next[r] = Idle
          /\ \A p \in Requests \ {r} : next[p] = req[p]
      BY <1>1, IdleFacts DEF TypeOK
    <2>2. missed' \in SUBSET Accounts /\ missed \subseteq missed' /\ u \in missed'
      BY <1>1, <1>4 DEF TypeOK
    <2>3. Touch(u, next)
      BY <1>4
    <2> HIDE DEF u, next
    <2> QED
      BY <1>1, <1>2, <2>1, <2>2, <2>3, TouchKeepsCore DEF At, u
  <1> QED
    BY <1>3, <1>4 DEF TakeAway

LEMMA WriteThenRetireKeepsCore ==
  ASSUME Core, NEW r \in Requests, At(r, "write"), NEW new,
         new \in [Accounts -> Entry \cup {None}],
         \A v \in Accounts \ {req[r].target} : Exists(v) => new[v] = entry[v],
         WriteThenRetire(r, req[r].target, new)
  PROVE  Core'
  BY TakeAwayKeepsCore DEF WriteThenRetire, TakeAway

\* A write that takes nothing from an entry and changes no link.
LEMMA GiveKeepsCore ==
  ASSUME Core, NEW r \in Requests, At(r, "write"), NEW next \in Request,
         next = Idle \/ next = [req[r] EXCEPT !.pc = "retire"],
         req' = [req EXCEPT ![r] = next],
         entry' \in [Accounts -> Entry \cup {None}],
         \A v \in Accounts : Exists(v) =>
           /\ entry'[v] # None /\ entry'[v].mail = entry[v].mail
           /\ ~entry[v].locked => ~entry'[v].locked,
         UNCHANGED <<links, missed>>
  PROVE  Core'
  <1>1. TypeOK /\ ShapeOf(req[r]) /\ req[r] \in Request
    BY DEF Core, Shapes, TypeOK
  <1>2. req' \in [Requests -> Request] /\ req'[r] = next
        /\ \A p \in Requests \ {r} : req'[p] = req[p]
    BY <1>1 DEF TypeOK
  <1>3. ShapeOf(next) /\ Follows(next)
    BY <1>1, IdleFacts DEF ShapeOf, Follows, At, IssuePcs, CheckedPcs, Request
  <1>4. \A p \in Requests :
          SameRequest(req[p], req'[p]) \/ (ShapeOf(req'[p]) /\ Follows(req'[p]))
    BY <1>2, <1>3 DEF SameRequest
  <1>5. \A l \in Links : RowFits(l)
    BY DEF RowFits, Usable, Stored
  <1>6. \A v \in Accounts : v \in missed \/ Pending(v) =>
          v \in missed' \/ \E p \in Requests : req'[p].pc = "retire" /\ req'[p].target = v
    BY <1>2 DEF Pending, At
  <1>7. links' \in [Links -> Row \cup {None}] /\ missed' \in SUBSET Accounts
    BY <1>1 DEF TypeOK
  <1>8. \A u \in Accounts : u \in missed \/ Pending(u) =>
           \/ u \in missed' \/ \E p \in Requests : req'[p].pc = "retire" /\ req'[p].target = u
           \/ \A l \in Links : links'[l] # None /\ links'[l].user = u => links'[l].used # "no"
    BY <1>6
  <1> QED
    BY <1>2, <1>4, <1>5, <1>7, <1>8, CalmKeepsCore

LEMMA ChangeKeepsCore ==
  ASSUME Core, NEW r \in Requests, Change(r)
  PROVE  Core'
  <1> USE ConstantsAssumption, NoneAssumption
  <1> DEFINE u == req[r].target
             retiring == [req[r] EXCEPT !.pc = "retire"]
  <1>1. TypeOK /\ ShapeOf(req[r]) /\ req[r] \in Request /\ req[r].mail \in Mails \cup {None}
    BY DEF Core, Shapes, TypeOK, Request
  <1>2. At(r, "write") =>
          /\ u \in Accounts /\ req[r].op \in ChangeOps
          /\ req[r].op = "rename" => req[r].to \in Accounts
          /\ Exists(u) => entry[u] \in Entry
    BY <1>1 DEF ShapeOf, At, Exists, TypeOK
  <1>3. retiring \in Request
    BY <1>1 DEF Request
  <1>4. CASE AuditChange(r)
    BY <1>1, <1>4, AdvanceKeepsCore, StopKeepsCore DEF AuditChange, At, TypeOK
  <1>5. CASE Refused(r)
    BY <1>1, <1>5, StopKeepsCore DEF Refused, At, TypeOK
  <1>6. CASE LockUser(r)
    <2>1. [entry[u] EXCEPT !.locked = TRUE] \in Entry
      BY <1>2, <1>6 DEF LockUser, Writes, WriteThenRetire, Entry
    <2>2. [entry EXCEPT ![u].locked = TRUE] \in [Accounts -> Entry \cup {None}]
      BY <1>1, <1>2, <1>6, <2>1 DEF TypeOK
    <2>3. \A v \in Accounts \ {u} : [entry EXCEPT ![u].locked = TRUE][v] = entry[v]
      BY <1>1 DEF TypeOK
    <2> QED
      BY <1>6, <2>2, <2>3, WriteThenRetireKeepsCore DEF LockUser, Writes
  <1>7. CASE UnlockUser(r)
    <2>1. /\ At(r, "write") /\ Exists(u)
          /\ entry' = [entry EXCEPT ![u].locked = FALSE]
          /\ req' = [req EXCEPT ![r] = Idle] /\ UNCHANGED <<links, missed>>
      BY <1>7 DEF UnlockUser, Writes, Stop
    <2>2. /\ [entry[u] EXCEPT !.locked = FALSE] \in Entry
          /\ [entry[u] EXCEPT !.locked = FALSE].mail = entry[u].mail
          /\ ~[entry[u] EXCEPT !.locked = FALSE].locked
      BY <1>2, <2>1 DEF Entry
    <2>3. entry'[u] = [entry[u] EXCEPT !.locked = FALSE]
          /\ \A v \in Accounts \ {u} : entry'[v] = entry[v]
      BY <1>1, <1>2, <2>1 DEF TypeOK
    <2>4. entry' \in [Accounts -> Entry \cup {None}]
      BY <1>1, <2>1, <2>2, <2>3 DEF TypeOK
    <2>5. \A v \in Accounts : Exists(v) =>
            /\ entry'[v] # None /\ entry'[v].mail = entry[v].mail
            /\ ~entry[v].locked => ~entry'[v].locked
      BY <2>2, <2>3 DEF Exists
    <2> QED
      BY <2>1, <2>4, <2>5, IdleFacts, GiveKeepsCore
  <1>8. CASE DeleteUser(r)
    <2>1. [entry EXCEPT ![u] = None] \in [Accounts -> Entry \cup {None}]
          /\ \A v \in Accounts \ {u} : [entry EXCEPT ![u] = None][v] = entry[v]
      BY <1>1 DEF TypeOK
    <2> QED
      BY <1>8, <2>1, WriteThenRetireKeepsCore DEF DeleteUser, Writes
  <1>9. CASE RenameUser(r)
    <2> DEFINE new == [entry EXCEPT ![u] = None, ![req[r].to] = entry[u]]
    <2>1. /\ At(r, "write") /\ ~Exists(req[r].to) /\ Exists(u)
          /\ WriteThenRetire(r, u, new)
      BY <1>9 DEF RenameUser, Writes, WriteThenRetire
    <2>2. req[r].to \in Accounts
      BY <1>2, <1>9 DEF RenameUser, Writes
    <2>3. new \in [Accounts -> Entry \cup {None}]
          /\ \A v \in Accounts \ {u} : Exists(v) => new[v] = entry[v]
      BY <1>1, <1>2, <2>1, <2>2 DEF TypeOK, Exists
    <2> HIDE DEF new
    <2> QED
      BY <2>1, <2>3, WriteThenRetireKeepsCore
  <1>10. CASE ChangePassword(r)
    BY <1>1, <1>10, WriteThenRetireKeepsCore DEF ChangePassword, Writes, TypeOK
  <1>11. CASE UpdateMail(r)
    <2>1. /\ At(r, "write") /\ Exists(u) /\ entry[u] \in Entry
          /\ entry' = [entry EXCEPT ![u].mail = req[r].mail]
      BY <1>2, <1>11 DEF UpdateMail, Writes
    <2>2. [entry[u] EXCEPT !.mail = req[r].mail] \in Entry
          /\ [entry[u] EXCEPT !.mail = req[r].mail].mail = req[r].mail
          /\ [entry[u] EXCEPT !.mail = req[r].mail].locked = entry[u].locked
      BY <1>1, <2>1 DEF Entry
    <2>3. entry'[u] = [entry[u] EXCEPT !.mail = req[r].mail]
          /\ \A v \in Accounts \ {u} : entry'[v] = entry[v]
      BY <1>1, <1>2, <2>1 DEF TypeOK
    <2>4. entry' \in [Accounts -> Entry \cup {None}]
      BY <1>1, <2>1, <2>2, <2>3 DEF TypeOK
    <2>5. CASE entry[u].mail # req[r].mail
      <3> DEFINE new == [entry EXCEPT ![u].mail = req[r].mail]
      <3>1. TakeAway(r, u, new)
        BY <1>11, <2>5 DEF UpdateMail, TakeAway
      <3>2. new \in [Accounts -> Entry \cup {None}]
            /\ \A v \in Accounts \ {u} : new[v] = entry[v]
        BY <2>1, <2>3, <2>4
      <3> HIDE DEF new
      <3> QED
        BY <2>1, <3>1, <3>2, TakeAwayKeepsCore
    <2>6. CASE entry[u].mail = req[r].mail
      <3>1. \A v \in Accounts : Exists(v) =>
              /\ entry'[v] # None /\ entry'[v].mail = entry[v].mail
              /\ ~entry[v].locked => ~entry'[v].locked
        BY <2>2, <2>3, <2>6 DEF Exists
      <3>2. /\ UNCHANGED <<links, missed>>
            /\ req' = Retiring(r) \/ Stop(r)
        BY <1>11, <2>6 DEF UpdateMail
      <3>3. CASE req' = Retiring(r)
        <4>1. req' = [req EXCEPT ![r] = retiring]
          BY <1>1, <3>3 DEF Retiring, TypeOK
        <4> HIDE DEF retiring
        <4> QED
          BY <1>3, <2>1, <2>4, <3>1, <3>2, <4>1, GiveKeepsCore DEF retiring
      <3>4. CASE Stop(r)
        BY <2>1, <2>4, <3>1, <3>2, <3>4, IdleFacts, GiveKeepsCore DEF Stop
      <3> QED
        BY <3>2, <3>3, <3>4
    <2> QED
      BY <2>5, <2>6
  <1>12. CASE CreateUser(r)
    <2>1. /\ At(r, "write") /\ ~Exists(u)
          /\ entry' = [entry EXCEPT ![u] = [mail |-> req[r].mail, locked |-> FALSE]]
          /\ req' = [req EXCEPT ![r] = Idle] /\ UNCHANGED <<links, missed>>
      BY <1>12 DEF CreateUser, Writes, Stop
    <2>2. entry' \in [Accounts -> Entry \cup {None}]
      BY <1>1, <2>1 DEF TypeOK, Entry
    <2>3. \A v \in Accounts : Exists(v) => entry'[v] = entry[v]
      BY <1>1, <2>1 DEF TypeOK
    <2> QED
      BY <2>1, <2>2, <2>3, IdleFacts, GiveKeepsCore DEF Exists
  <1>13. CASE RetireLinks(r)
    <2>1. At(r, "retire") /\ Stop(r) /\ UNCHANGED entry
      BY <1>13 DEF RetireLinks
    <2>2. u \in Accounts
      BY <1>1, <2>1 DEF ShapeOf, At
    <2>3. /\ links' \in [Links -> Row \cup {None}] /\ missed' \in SUBSET Accounts
          /\ \A l \in Links : RowFits(l)
          /\ missed \ {u} \subseteq missed'
          /\ \/ u \in missed'
             \/ \A l \in Links : links'[l] # None /\ links'[l].user = u => links'[l].used # "no"
      <3>1. CASE RevokeForUser(u) /\ missed' = missed \ {u}
        <4>1. \A l \in Links : RowFits(l)
          BY <1>1, <3>1, RevokeFacts DEF RowFits, Usable, Stored
        <4>2. \A l \in Links : links'[l] # None /\ links'[l].user = u => links'[l].used # "no"
          <5> SUFFICES ASSUME NEW l \in Links, links'[l] # None, links'[l].user = u,
                              links'[l].used = "no"
                       PROVE  FALSE
            OBVIOUS
          <5>1. links'[l] = links[l] /\ l \notin UsableOf(u)
            BY <1>1, <3>1, RevokeFacts
          <5> QED
            BY <5>1 DEF UsableOf, Usable, Stored
        <4> QED
          BY <1>1, <3>1, <4>1, <4>2, RevokeFacts DEF TypeOK
      <3>2. CASE missed' = missed \cup {u} /\ UNCHANGED links
        BY <1>1, <2>2, <3>2 DEF TypeOK, RowFits, Usable, Stored
      <3> QED
        BY <1>13, <3>1, <3>2 DEF RetireLinks
    <2>4. req' \in [Requests -> Request] /\ req'[r] = Idle
          /\ \A p \in Requests \ {r} : req'[p] = req[p]
      BY <1>1, <2>1, IdleFacts DEF Stop, TypeOK
    <2>5. Follows(Idle)
      BY IdleFacts DEF Follows, IssuePcs, CheckedPcs
    <2>6. \A p \in Requests :
            SameRequest(req[p], req'[p]) \/ (ShapeOf(req'[p]) /\ Follows(req'[p]))
      BY <2>4, <2>5, IdleFacts DEF SameRequest
    <2>7. \A v \in Accounts \ {u} : v \in missed \/ Pending(v) =>
            v \in missed' \/ \E p \in Requests : req'[p].pc = "retire" /\ req'[p].target = v
      BY <2>3, <2>4 DEF Pending, At
    <2>8. \A v \in Accounts : v \in missed \/ Pending(v) =>
            \/ v \in missed' \/ \E p \in Requests : req'[p].pc = "retire" /\ req'[p].target = v
            \/ \A l \in Links : links'[l] # None /\ links'[l].user = v => links'[l].used # "no"
      BY <2>3, <2>7
    <2>9. entry' \in [Accounts -> Entry \cup {None}]
          /\ \A v \in Accounts : Exists(v) =>
               /\ entry'[v] # None /\ entry'[v].mail = entry[v].mail
               /\ ~entry[v].locked => ~entry'[v].locked
      BY <1>1, <2>1 DEF TypeOK, Exists
    <2> HIDE DEF u
    <2> QED
      BY <2>3, <2>4, <2>6, <2>8, <2>9, CalmKeepsCore
  <1> QED
    BY <1>4, <1>5, <1>6, <1>7, <1>8, <1>9, <1>10, <1>11, <1>12, <1>13 DEF Change

LEMMA WorldKeepsCore ==
  ASSUME Core,
         \/ \E l \in Links : WindowPasses(l) \/ Expire(l)
         \/ \E u \in Accounts : EditOutside(u)
         \/ Crash
  PROVE  Core'
  <1>1. TypeOK
    BY DEF Core
  <1>2. CASE \E l \in Links : WindowPasses(l) \/ Expire(l)
    <2>1. PICK l \in Links : WindowPasses(l) \/ Expire(l)
      BY <1>2
    <2>2. links[l] \in Row /\ UNCHANGED <<entry, req, missed>>
      BY <1>1, <2>1 DEF WindowPasses, Expire, Stored, TypeOK
    <2>3. /\ links' = [links EXCEPT ![l] = links'[l]]
          /\ links'[l] \in Row \cup {None} /\ RowFits(l)
      <3>1. CASE WindowPasses(l)
        <4>1. links'[l] = [links[l] EXCEPT !.recent = FALSE]
              /\ links' = [links EXCEPT ![l] = links'[l]]
          BY <1>1, <3>1 DEF WindowPasses, TypeOK
        <4>2. /\ links'[l] \in Row /\ links'[l].used = links[l].used
              /\ links'[l].standing = links[l].standing
              /\ links'[l].user = links[l].user /\ links'[l].email = links[l].email
          BY <2>2, <4>1 DEF Row
        <4> QED
          BY <2>2, <4>1, <4>2, NoneAssumption DEF RowFits, Usable, Stored
      <3>2. CASE Expire(l)
        BY <1>1, <3>2 DEF Expire, TypeOK, RowFits
      <3> QED
        BY <2>1, <3>1, <3>2
    <2>4. links' \in [Links -> Row \cup {None}] /\ \A k \in Links \ {l} : links'[k] = links[k]
      BY <1>1, <2>3 DEF TypeOK
    <2>5. \A k \in Links : RowFits(k)
      BY <2>3, <2>4 DEF RowFits, Usable, Stored
    <2>6. /\ entry' \in [Accounts -> Entry \cup {None}]
          /\ req' \in [Requests -> Request] /\ missed' \in SUBSET Accounts
      BY <1>1, <2>2 DEF TypeOK
    <2>7. \A p \in Requests : SameRequest(req[p], req'[p])
      BY <1>1, <2>2 DEF SameRequest, TypeOK
    <2>8. \A v \in Accounts : Pending(v) =>
            \E p \in Requests : req'[p].pc = "retire" /\ req'[p].target = v
      BY <2>2 DEF Pending, At
    <2>9. \A v \in Accounts : Exists(v) =>
            /\ entry'[v] # None /\ entry'[v].mail = entry[v].mail
            /\ ~entry[v].locked => ~entry'[v].locked
      BY <2>2 DEF Exists
    <2>10. \A v \in Accounts : v \in missed \/ Pending(v) =>
            \/ v \in missed' \/ \E p \in Requests : req'[p].pc = "retire" /\ req'[p].target = v
            \/ \A k \in Links : links'[k] # None /\ links'[k].user = v => links'[k].used # "no"
      BY <2>2, <2>8
    <2> QED
      BY <2>4, <2>5, <2>6, <2>7, <2>9, <2>10, CalmKeepsCore
  <1>3. CASE \E u \in Accounts : EditOutside(u)
    <2>1. PICK u \in Accounts : EditOutside(u)
      BY <1>3
    <2>2. PICK e \in Entry \cup {None} : entry' = [entry EXCEPT ![u] = e]
      BY <2>1 DEF EditOutside
    <2>3. entry' \in [Accounts -> Entry \cup {None}]
          /\ \A v \in Accounts \ {u} : entry'[v] = entry[v]
      BY <1>1, <2>2 DEF TypeOK
    <2>4. /\ Touch(u, req) /\ missed' = missed \cup {u}
          /\ missed' \in SUBSET Accounts /\ req \in [Requests -> Request]
      BY <1>1, <2>1 DEF EditOutside, TypeOK
    <2> QED
      BY <2>3, <2>4, TouchKeepsCore
  <1>4. CASE Crash
    <2>1. /\ req' = [r \in Requests |-> Idle]
          /\ missed' = missed \cup {u \in Accounts : Pending(u)}
          /\ entry' = entry /\ links' = links
      BY <1>4 DEF Crash
    <2>2. Follows(Idle)
      BY IdleFacts DEF Follows, IssuePcs, CheckedPcs
    <2>3. /\ entry' \in [Accounts -> Entry \cup {None}]
          /\ links' \in [Links -> Row \cup {None}]
          /\ req' \in [Requests -> Request] /\ missed' \in SUBSET Accounts
      BY <1>1, <2>1, IdleFacts DEF TypeOK
    <2>4. \A p \in Requests :
            SameRequest(req[p], req'[p]) \/ (ShapeOf(req'[p]) /\ Follows(req'[p]))
      BY <2>1, <2>2, IdleFacts
    <2>5. \A l \in Links : RowFits(l)
      BY <2>1 DEF RowFits, Usable, Stored
    <2>6. \A v \in Accounts : Exists(v) =>
            /\ entry'[v] # None /\ entry'[v].mail = entry[v].mail
            /\ ~entry[v].locked => ~entry'[v].locked
      BY <2>1 DEF Exists
    <2>7. \A v \in Accounts : v \in missed \/ Pending(v) => v \in missed'
      BY <2>1
    <2> QED
      BY <2>3, <2>4, <2>5, <2>6, <2>7, CalmKeepsCore
  <1> QED
    BY <1>2, <1>3, <1>4

LEMMA StutterKeepsCore == ASSUME Core, UNCHANGED vars PROVE Core'
  BY DEF Core, TypeOK, Shapes, ShapeOf, VoidLinksAreRetired, CurrentFollows, RequestsFollow,
         Follows, StillTheAccount, Exists, Pending, At, Usable, Stored, vars

LEMMA NextKeepsCore == ASSUME Core, [Next]_vars PROVE Core'
  BY ArriveKeepsCore, IssueKeepsCore, ConfirmKeepsCore, ChangeKeepsCore, WorldKeepsCore,
     StutterKeepsCore DEF Next

-----------------------------------------------------------------------------
(* The form of almost every step, as links and issuances are concerned. *)

RowKept(old, new) ==
  \/ new = None
  \/ /\ old # None /\ new # None
     /\ new.user = old.user /\ new.actor = old.actor
     /\ new.rival = old.rival /\ new.resets = old.resets
     /\ new.recent => old.recent
     /\ new.used = old.used \/ (old.used = "no" /\ new.used = "retired")

LinkKept(old, new) == new.link \in {None, old.link}

InsertKept(old, new) ==
  new.pc = "insert" => old.pc = "insert" /\ new.target = old.target /\ new.rival = old.rival

UserCountKept(old, new) ==
  new.pc \in PastUserCount => old.pc \in PastUserCount /\ new.target = old.target

ActorCountKept(old, new) ==
  new.pc \in PastActorCount => old.pc \in PastActorCount /\ new.actor = old.actor

RowsKept == \A l \in Links : RowKept(links[l], links'[l])

RequestKept(old, new) ==
  /\ LinkKept(old, new) /\ InsertKept(old, new)
  /\ UserCountKept(old, new) /\ ActorCountKept(old, new)

Frame == RowsKept /\ \A r \in Requests : RequestKept(req[r], req'[r])

\* The steps with an argument of their own.
OwnStep(r) ==
  \/ CountRecentByActor(r) \/ CountRecentForUser(r) \/ Supersede(r) \/ InsertLink(r)
  \/ \E l \in Links : ConsumeToken(r, l)
  \/ ResetPassword(r)

LEMMA SameIsKept ==
  /\ \A old : RequestKept(old, old)
  /\ \A old : RowKept(old, old)
  /\ \A old : RequestKept(old, Idle)
  BY IdleFacts
  DEF RequestKept, LinkKept, InsertKept, UserCountKept, ActorCountKept, RowKept,
      PastUserCount, PastActorCount

LEMMA FrameOfOne ==
  ASSUME TypeOK, NEW r \in Requests, NEW q, req' = [req EXCEPT ![r] = q],
         RequestKept(req[r], q), RowsKept
  PROVE  Frame
  BY SameIsKept DEF Frame, TypeOK

LEMMA RevokeIsKept == ASSUME TypeOK, NEW u, RevokeForUser(u) PROVE RowsKept
  <1> SUFFICES ASSUME NEW l \in Links PROVE RowKept(links[l], links'[l])
    BY DEF RowsKept
  <1>1. CASE links'[l] = links[l]
    BY <1>1, SameIsKept
  <1>2. CASE links'[l] # links[l]
    <2>1. links[l] \in Row /\ links[l] # None /\ links[l].used = "no"
      BY <1>2, RevokeFacts DEF TypeOK, UsableOf, Usable, Stored
    <2>2. links'[l] = [links[l] EXCEPT !.used = "retired"] /\ links'[l] # None
      BY <1>2, RevokeFacts
    <2> QED
      BY <2>1, <2>2 DEF RowKept, Row
  <1> QED
    BY <1>1, <1>2

LEMMA TouchIsFrame ==
  ASSUME TypeOK, NEW u, NEW next,
         \A p \in Requests :
           \/ next[p] = req[p] \/ next[p] = Idle
           \/ next[p] = [req[p] EXCEPT !.pc = "retire"],
         Touch(u, next)
  PROVE  Frame
  <1>1. ASSUME NEW l \in Links PROVE RowKept(links[l], links'[l])
    <2>1. CASE l \in UsableOf(u)
      <3>1. links[l] \in Row /\ links'[l] = [links[l] EXCEPT !.standing = "void"]
        BY <2>1 DEF Touch, UsableOf, Usable, Stored, TypeOK
      <3>2. links'[l] \in Row
        BY <3>1 DEF Row
      <3> QED
        BY <3>1, <3>2, NoneAssumption DEF RowKept, Row
    <2>2. CASE l \notin UsableOf(u)
      BY <2>2, SameIsKept DEF Touch
    <2> QED
      BY <2>1, <2>2
  <1>2. ASSUME NEW p \in Requests PROVE RequestKept(req[p], req'[p])
    <2>1. req[p] \in Request /\ next[p] \in Request
      <3>1. req[p] \in Request
        BY DEF TypeOK
      <3>2. [req[p] EXCEPT !.pc = "retire"] \in Request
        BY <3>1 DEF Request
      <3> QED
        BY <3>1, <3>2, IdleFacts
    <2>2. RequestKept(req[p], next[p])
      <3>1. CASE next[p] = req[p]
        BY <3>1, SameIsKept
      <3>2. CASE next[p] = Idle
        BY <3>2, SameIsKept
      <3>3. CASE next[p] = [req[p] EXCEPT !.pc = "retire"]
        <4>1. /\ next[p].pc = "retire" /\ next[p].link = req[p].link
              /\ next[p].rival = req[p].rival
          BY <2>1, <3>3 DEF Request
        <4>2. next[p].pc \notin PastUserCount /\ next[p].pc \notin PastActorCount
          BY <4>1 DEF PastUserCount, PastActorCount
        <4> QED
          BY <4>1, <4>2 DEF RequestKept, LinkKept, InsertKept, UserCountKept, ActorCountKept
      <3> QED
        BY <3>1, <3>2, <3>3
    <2>3. req'[p] = [next[p] EXCEPT !.overtaken = @ \/ GoesOnOldEntry(p, u)]
      BY DEF Touch
    <2>4. /\ req'[p].pc = next[p].pc /\ req'[p].link = next[p].link
          /\ req'[p].target = next[p].target /\ req'[p].actor = next[p].actor
          /\ req'[p].rival = next[p].rival
      BY <2>1, <2>3 DEF Request
    <2> QED
      BY <2>2, <2>4 DEF RequestKept, LinkKept, InsertKept, UserCountKept, ActorCountKept
  <1> QED
    BY <1>1, <1>2 DEF Frame, RowsKept

LEMMA WriteThenRetireIsFrame ==
  ASSUME TypeOK, NEW r \in Requests, NEW u, NEW new, WriteThenRetire(r, u, new)
  PROVE  Frame
  <1>1. \A p \in Requests :
          /\ Retiring(r)[p] = req[p] \/ Retiring(r)[p] = [req[p] EXCEPT !.pc = "retire"]
          /\ [req EXCEPT ![r] = Idle][p] \in {req[p], Idle}
    BY DEF Retiring, TypeOK
  <1>2. CASE Touch(u, Retiring(r))
    <2> DEFINE next == Retiring(r)
    <2>1. \A p \in Requests :
            next[p] = req[p] \/ next[p] = Idle \/ next[p] = [req[p] EXCEPT !.pc = "retire"]
      BY <1>1
    <2>2. Touch(u, next)
      BY <1>2
    <2> HIDE DEF next
    <2> QED
      BY <2>1, <2>2, TouchIsFrame
  <1>3. CASE Touch(u, [req EXCEPT ![r] = Idle])
    <2> DEFINE next == [req EXCEPT ![r] = Idle]
    <2>1. \A p \in Requests :
            next[p] = req[p] \/ next[p] = Idle \/ next[p] = [req[p] EXCEPT !.pc = "retire"]
      BY <1>1
    <2>2. Touch(u, next)
      BY <1>3
    <2> HIDE DEF next
    <2> QED
      BY <2>1, <2>2, TouchIsFrame
  <1> QED
    BY <1>2, <1>3 DEF WriteThenRetire

\* A request that moves within an issuance counted already, or outside any.
LEMMA GoIsKept ==
  ASSUME TypeOK, NEW r \in Requests, NEW pc, Go(r, pc), RowsKept,
         \/ pc \in {"confirmAudit", "change", "write", "retire"}
         \/ At(r, "issueAudit") /\ pc = "supersede"
  PROVE  Frame
  <1> DEFINE q == [req[r] EXCEPT !.pc = pc]
  <1>1. req[r] \in Request
    BY DEF TypeOK
  <1>2. q.pc = pc /\ q.link = req[r].link /\ q.target = req[r].target
        /\ q.actor = req[r].actor /\ q.rival = req[r].rival
    BY <1>1 DEF Request
  <1>3. req' = [req EXCEPT ![r] = q]
    BY DEF Go
  <1> HIDE DEF q
  <1>4. RequestKept(req[r], q)
    BY <1>2 DEF RequestKept, LinkKept, InsertKept, UserCountKept, ActorCountKept,
                PastUserCount, PastActorCount, At
  <1> QED
    BY <1>3, <1>4, FrameOfOne

LEMMA ArriveIsFrame ==
  ASSUME TypeOK, NEW r \in Requests, Arrive(r)
  PROVE  Frame \/ OwnStep(r)
  <1>1. CASE \E a \in Actors, u \in Accounts : BeginIssue(r, a, u)
    <2>1. PICK a \in Actors, u \in Accounts : BeginIssue(r, a, u)
      BY <1>1
    <2> DEFINE q == Issuing(a, u)
    <2>2. q.pc = "countActor" /\ q.link = None
      BY DEF Issuing, Idle
    <2>3. req' = [req EXCEPT ![r] = q] /\ links' = links
      BY <2>1 DEF BeginIssue
    <2> HIDE DEF q
    <2>4. RequestKept(req[r], q)
      BY <2>2 DEF RequestKept, LinkKept, InsertKept, UserCountKept, ActorCountKept,
                  PastUserCount, PastActorCount
    <2> QED
      BY <2>3, <2>4, SameIsKept, FrameOfOne DEF RowsKept
  <1>2. CASE \E l \in Links : ConsumeToken(r, l)
    BY <1>2 DEF OwnStep
  <1>3. CASE \E op \in ChangeOps : BeginChange(r, op)
    <2>1. PICK op \in ChangeOps : BeginChange(r, op)
      BY <1>3
    <2>2. PICK u \in Accounts, to \in Accounts \cup {None}, m \in Mails \cup {None},
               b \in Mails \cup {None, "unread"} :
            req' = [req EXCEPT ![r] = Changing(op, u, to, m, b)]
      BY <2>1 DEF BeginChange
    <2> DEFINE q == Changing(op, u, to, m, b)
    <2>3. q.pc = "audit" /\ q.link = None
      BY DEF Changing, Idle
    <2>4. req' = [req EXCEPT ![r] = q] /\ links' = links
      BY <2>1, <2>2 DEF BeginChange
    <2> HIDE DEF q
    <2>5. RequestKept(req[r], q)
      BY <2>3 DEF RequestKept, LinkKept, InsertKept, UserCountKept, ActorCountKept,
                  PastUserCount, PastActorCount
    <2> QED
      BY <2>4, <2>5, SameIsKept, FrameOfOne DEF RowsKept
  <1> QED
    BY <1>1, <1>2, <1>3 DEF Arrive

LEMMA ChangeIsFrame ==
  ASSUME TypeOK, NEW r \in Requests, Change(r)
  PROVE  Frame
  <1> DEFINE u == req[r].target
  <1>1. ASSUME Stop(r), RowsKept PROVE Frame
    BY <1>1, SameIsKept, FrameOfOne DEF Stop
  <1>2. links' = links => RowsKept
    BY SameIsKept DEF RowsKept
  <1>3. CASE AuditChange(r)
    BY <1>1, <1>2, <1>3, GoIsKept DEF AuditChange
  <1>4. CASE Refused(r) \/ UnlockUser(r) \/ CreateUser(r)
    BY <1>1, <1>2, <1>4 DEF Refused, UnlockUser, CreateUser
  <1>5. CASE LockUser(r) \/ DeleteUser(r) \/ RenameUser(r) \/ ChangePassword(r)
    BY <1>5, WriteThenRetireIsFrame DEF LockUser, DeleteUser, RenameUser, ChangePassword
  <1>6. CASE UpdateMail(r)
    <2>1. CASE Touch(u, Retiring(r)) \/ Touch(u, [req EXCEPT ![r] = Idle])
      <3>1. ASSUME NEW next, next = Retiring(r) \/ next = [req EXCEPT ![r] = Idle], Touch(u, next)
            PROVE  Frame
        <4>1. \A p \in Requests :
                next[p] = req[p] \/ next[p] = Idle \/ next[p] = [req[p] EXCEPT !.pc = "retire"]
          BY <3>1 DEF Retiring, TypeOK
        <4> QED
          BY <3>1, <4>1, TouchIsFrame
      <3> QED
        BY <2>1, <3>1
    <2>2. CASE req' = Retiring(r) /\ links' = links
      BY <1>2, <2>2, GoIsKept DEF Retiring, Go
    <2>3. CASE Stop(r) /\ links' = links
      BY <1>1, <1>2, <2>3
    <2> QED
      BY <1>6, <2>1, <2>2, <2>3 DEF UpdateMail
  <1>7. CASE RetireLinks(r)
    BY <1>1, <1>2, <1>7, RevokeIsKept DEF RetireLinks
  <1> QED
    BY <1>3, <1>4, <1>5, <1>6, <1>7 DEF Change

LEMMA WorldIsFrame ==
  ASSUME TypeOK,
         \/ \E l \in Links : WindowPasses(l) \/ Expire(l)
         \/ \E u \in Accounts : EditOutside(u)
         \/ Crash
         \/ UNCHANGED vars
  PROVE  Frame
  <1>1. CASE \E l \in Links : WindowPasses(l) \/ Expire(l)
    <2>1. PICK l \in Links : WindowPasses(l) \/ Expire(l)
      BY <1>1
    <2>2. links[l] \in Row /\ links[l] # None /\ req' = req
      BY <2>1 DEF WindowPasses, Expire, Stored, TypeOK
    <2>3. \A k \in Links \ {l} : links'[k] = links[k]
      BY <2>1 DEF WindowPasses, Expire, TypeOK
    <2>4. RowKept(links[l], links'[l])
      <3>1. CASE WindowPasses(l)
        <4>1. links'[l] = [links[l] EXCEPT !.recent = FALSE]
          BY <3>1 DEF WindowPasses, TypeOK
        <4>2. links'[l] \in Row
          BY <2>2, <4>1 DEF Row
        <4> QED
          BY <2>2, <4>1, <4>2, NoneAssumption DEF RowKept, Row
      <3>2. CASE Expire(l)
        BY <3>2 DEF Expire, TypeOK, RowKept
      <3> QED
        BY <2>1, <3>1, <3>2
    <2> QED
      BY <2>2, <2>3, <2>4, SameIsKept DEF Frame, RowsKept
  <1>2. CASE \E u \in Accounts : EditOutside(u)
    BY <1>2, TouchIsFrame DEF EditOutside
  <1>3. CASE Crash
    BY <1>3, SameIsKept DEF Crash, Frame, RowsKept
  <1>4. CASE UNCHANGED vars
    BY <1>4, SameIsKept DEF vars, Frame, RowsKept
  <1> QED
    BY <1>1, <1>2, <1>3, <1>4

LEMMA NextIsFrame ==
  ASSUME TypeOK, [Next]_vars
  PROVE  Frame \/ \E r \in Requests : OwnStep(r)
  <1>1. \A r \in Requests : Stop(r) /\ links' = links => Frame
    BY SameIsKept, FrameOfOne DEF Stop, RowsKept
  <1>2. ASSUME NEW r \in Requests, Issue(r) PROVE Frame \/ OwnStep(r)
    <2>1. CASE AuditIssue(r)
      BY <1>1, <2>1, GoIsKept, SameIsKept DEF AuditIssue, RowsKept
    <2> QED
      BY <1>2, <2>1 DEF Issue, OwnStep
  <1>3. ASSUME NEW r \in Requests, Confirm(r) PROVE Frame \/ OwnStep(r)
    <2>1. CASE resetTarget(r) \/ AuditConfirm(r)
      BY <1>1, <2>1, GoIsKept, SameIsKept DEF resetTarget, AuditConfirm, RowsKept
    <2> QED
      BY <1>3, <2>1 DEF Confirm, OwnStep
  <1> QED
    BY <1>2, <1>3, ArriveIsFrame, ChangeIsFrame, WorldIsFrame DEF Next

-----------------------------------------------------------------------------
(* What the steps that touch a row of the table do to it. *)

LEMMA InsertFacts ==
  ASSUME TypeOK, Shapes, NEW r \in Requests, InsertLink(r)
  PROVE  \/ Stop(r) /\ links' = links
         \/ /\ At(r, "insert") /\ req'[r] = Idle
            /\ \A p \in Requests : p # r =>
                 /\ req'[p].pc = req[p].pc /\ req'[p].target = req[p].target
                 /\ req'[p].actor = req[p].actor /\ req'[p].link = req[p].link
                 /\ ~req'[p].rival =>
                      ~req[p].rival /\ ~(req[p].pc = "insert" /\ req[p].target = req[r].target)
            /\ \E l \in Links :
                 /\ FreshLink(l) /\ links'[l] = NewRow(r) /\ NewRow(r) # None
                 /\ \A k \in Links \ {l} : links'[k] = links[k]
  <1> SUFFICES ASSUME ~(Stop(r) /\ links' = links)
               PROVE  /\ At(r, "insert") /\ req'[r] = Idle
                      /\ \A p \in Requests : p # r =>
                           /\ req'[p].pc = req[p].pc /\ req'[p].target = req[p].target
                           /\ req'[p].actor = req[p].actor /\ req'[p].link = req[p].link
                           /\ ~req'[p].rival => ~req[p].rival
                                /\ ~(req[p].pc = "insert" /\ req[p].target = req[r].target)
                      /\ \E l \in Links :
                           /\ FreshLink(l) /\ links'[l] = NewRow(r) /\ NewRow(r) # None
                           /\ \A k \in Links \ {l} : links'[k] = links[k]
    OBVIOUS
  <1>1. /\ At(r, "insert")
        /\ req' = [q \in Requests |->
                     IF q = r THEN Idle
                     ELSE [req[q] EXCEPT !.rival =
                             @ \/ (req[q].pc = "insert" /\ req[q].target = req[r].target)]]
    BY DEF InsertLink
  <1>2. ASSUME NEW p \in Requests, p # r
        PROVE  /\ req'[p].pc = req[p].pc /\ req'[p].target = req[p].target
               /\ req'[p].actor = req[p].actor /\ req'[p].link = req[p].link
               /\ ~req'[p].rival => ~req[p].rival
                    /\ ~(req[p].pc = "insert" /\ req[p].target = req[r].target)
    <2>1. req'[p] = [req[p] EXCEPT !.rival =
                       @ \/ (req[p].pc = "insert" /\ req[p].target = req[r].target)]
      BY <1>1, <1>2
    <2>2. req[p] \in Request /\ req[p].rival \in BOOLEAN
      BY DEF TypeOK, Request
    <2> QED
      BY <2>1, <2>2 DEF Request
  <1>3. PICK l \in Links : FreshLink(l) /\ links' = [links EXCEPT ![l] = NewRow(r)]
    BY DEF InsertLink
  <1>4. links'[l] = NewRow(r) /\ \A k \in Links \ {l} : links'[k] = links[k]
    BY <1>3 DEF TypeOK
  <1>5. req[r] \in Request /\ ShapeOf(req[r])
    BY DEF TypeOK, Shapes
  <1>6. NewRow(r) \in Row
    BY <1>1, <1>5 DEF NewRow, Row, Request, ShapeOf, At, IssuePcs
  <1> QED
    BY <1>1, <1>2, <1>3, <1>4, <1>6, NoneAssumption

LEMMA ConsumeFacts ==
  ASSUME TypeOK, NEW r \in Requests, NEW l \in Links, ConsumeToken(r, l)
  PROVE  /\ Usable(l)
         /\ links'[l] # None /\ links'[l].used = "claimed"
         /\ links'[l].user = links[l].user /\ links'[l].actor = links[l].actor
         /\ links'[l].rival = links[l].rival /\ links'[l].recent = links[l].recent
         /\ links'[l].resets = links[l].resets
         /\ \A k \in Links \ {l} : links'[k] = links[k]
         /\ req'[r].pc = "check" /\ req'[r].link = l
         /\ \A p \in Requests \ {r} : req'[p] = req[p]
  <1>1. Usable(l) /\ links[l] \in Row
    BY DEF ConsumeToken, Usable, Stored, TypeOK
  <1>2. links'[l] = [links[l] EXCEPT !.used = "claimed"]
        /\ \A k \in Links \ {l} : links'[k] = links[k]
    BY DEF ConsumeToken, TypeOK
  <1>3. links'[l] \in Row
    BY <1>1, <1>2 DEF Row
  <1>4. /\ links'[l].used = "claimed"
        /\ links'[l].user = links[l].user /\ links'[l].actor = links[l].actor
        /\ links'[l].rival = links[l].rival /\ links'[l].recent = links[l].recent
        /\ links'[l].resets = links[l].resets
    BY <1>1, <1>2 DEF Row
  <1>5. req'[r].pc = "check" /\ req'[r].link = l
        /\ \A p \in Requests \ {r} : req'[p] = req[p]
    BY DEF ConsumeToken, TypeOK, Redeeming, Idle
  <1> QED
    BY <1>1, <1>2, <1>3, <1>4, <1>5, NoneAssumption

LEMMA WithResetFacts ==
  ASSUME NEW row \in Row \cup {None}
  PROVE  /\ WithReset(row) = None <=> row = None
         /\ row # None =>
              /\ WithReset(row).used = row.used
              /\ WithReset(row).user = row.user /\ WithReset(row).actor = row.actor
              /\ WithReset(row).rival = row.rival /\ WithReset(row).recent = row.recent
              /\ row.resets = 0 => WithReset(row).resets = 1
  <1>1. CASE WithReset(row) = row /\ (row = None \/ row.resets = 2)
    BY <1>1
  <1>2. CASE row # None /\ row.resets # 2 /\ WithReset(row) = [row EXCEPT !.resets = row.resets + 1]
    <2>1. row \in Row /\ row.resets + 1 \in 0 .. 2
      BY <1>2 DEF Row
    <2>2. WithReset(row) \in Row
      BY <1>2, <2>1 DEF Row
    <2> QED
      BY <1>2, <2>1, <2>2, NoneAssumption DEF Row
  <1> QED
    BY <1>1, <1>2 DEF WithReset

LEMMA ResetFacts ==
  ASSUME TypeOK, Shapes, NEW r \in Requests, ResetPassword(r)
  PROVE  \/ Stop(r) /\ links' = links
         \/ /\ req[r].link \in Links
            /\ links'[req[r].link] = WithReset(links[req[r].link])
            /\ \A k \in Links \ {req[r].link} : links'[k] = links[k]
            /\ req'[r] = Idle /\ \A p \in Requests \ {r} : req'[p] = req[p]
  <1>1. CASE links' = links
    BY <1>1 DEF ResetPassword
  <1>2. CASE links' # links
    <2> DEFINE l == req[r].link
    <2>1. At(r, "change") /\ Stop(r) /\ links' = [links EXCEPT ![l] = WithReset(links[l])]
      BY <1>2 DEF ResetPassword
    <2>2. l \in Links
      BY <2>1 DEF Shapes, ShapeOf, At, CheckedPcs
    <2> QED
      BY <2>1, <2>2 DEF Stop, TypeOK
  <1> QED
    BY <1>1, <1>2

-----------------------------------------------------------------------------
(* Single use. *)

\* A link is one that no request carries when it is made, and claimed in the
\* statement that tests it: whoever carries it carries it alone.
LEMMA NextKeepsUsedOnce ==
  ASSUME Core, UsedOnce, [Next]_vars
  PROVE  UsedOnce'
  <1> USE ConstantsAssumption, NoneAssumption
  <1>1. TypeOK /\ Shapes
    BY DEF Core
  <1>2. \A r \in Requests : req[r] \in Request /\ req[r].link \in Links \cup {None}
    BY <1>1 DEF TypeOK, Request
  <1>3. ASSUME RowsKept, \A r \in Requests : LinkKept(req[r], req'[r])
        PROVE  UsedOnce'
    BY <1>1, <1>2, <1>3 DEF UsedOnce, SingleUse, Stored, RowsKept, RowKept, LinkKept, TypeOK, Row
  <1>4. ASSUME NEW r \in Requests, NEW pc, Go(r, pc), RowsKept PROVE UsedOnce'
    <2>1. \A p \in Requests : req'[p].link = req[p].link
      BY <1>1, <1>2, <1>4 DEF Go, TypeOK, Request
    <2> QED
      BY <1>3, <1>4, <2>1 DEF LinkKept
  <1>5. ASSUME NEW r \in Requests, Stop(r), RowsKept PROVE UsedOnce'
    BY <1>1, <1>3, <1>5, IdleFacts DEF Stop, LinkKept, TypeOK
  <1>6. links' = links => RowsKept
    BY SameIsKept DEF RowsKept
  <1>7. ASSUME NEW r \in Requests, OwnStep(r) PROVE UsedOnce'
    <2>1. CASE CountRecentByActor(r) \/ CountRecentForUser(r)
      BY <1>4, <1>5, <1>6, <2>1 DEF CountRecentByActor, CountRecentForUser
    <2>2. CASE Supersede(r)
      BY <1>1, <1>4, <1>5, <1>6, <2>2, RevokeIsKept DEF Supersede
    <2>3. CASE InsertLink(r)
      <3>1. CASE Stop(r) /\ links' = links
        BY <1>5, <1>6, <3>1
      <3>2. CASE ~(Stop(r) /\ links' = links)
        <4>1. PICK l \in Links :
                /\ FreshLink(l) /\ links'[l] = NewRow(r)
                /\ \A k \in Links \ {l} : links'[k] = links[k]
          BY <1>1, <2>3, <3>2, InsertFacts
        <4>2. \A p \in Requests : req'[p].link \in {None, req[p].link}
          BY <1>1, <2>3, <3>2, InsertFacts, IdleFacts
        <4>3. NewRow(r).resets = 0
          BY DEF NewRow
        <4>4. \A p \in Requests : req'[p].link # l
          BY <4>1, <4>2 DEF FreshLink
        <4> QED
          BY <1>2, <4>1, <4>2, <4>3, <4>4 DEF UsedOnce, SingleUse, Stored
      <3> QED
        BY <3>1, <3>2
    <2>4. CASE \E l \in Links : ConsumeToken(r, l)
      <3>1. PICK l \in Links : ConsumeToken(r, l)
        BY <2>4
      <3>2. links[l].resets = 0 /\ Stored(l) /\ links[l].used = "no"
        BY <1>1, <3>1, ConsumeFacts DEF Usable, UsedOnce
      <3>3. /\ links'[l] # None /\ links'[l].used = "claimed" /\ links'[l].resets = 0
            /\ \A k \in Links \ {l} : links'[k] = links[k]
            /\ req'[r].link = l /\ \A p \in Requests \ {r} : req'[p] = req[p]
        BY <1>1, <3>1, <3>2, ConsumeFacts
      <3>4. \A p \in Requests : req[p].link # l
        BY <3>2 DEF UsedOnce
      <3>5. \A p, q \in Requests : req'[p].link = req'[q].link /\ req'[q].link # None => p = q
        BY <3>3, <3>4 DEF UsedOnce
      <3>6. \A k \in Links : links'[k] # None =>
              links'[k].resets <= 1 /\ (links'[k].used # "claimed" => links'[k].resets = 0)
        BY <3>3 DEF UsedOnce, SingleUse, Stored
      <3>7. \A p \in Requests : req'[p].link # None /\ links'[req'[p].link] # None =>
              links'[req'[p].link].used = "claimed" /\ links'[req'[p].link].resets = 0
        BY <1>2, <3>3, <3>4 DEF UsedOnce, Stored
      <3> QED
        BY <3>5, <3>6, <3>7 DEF UsedOnce, SingleUse, Stored
    <2>5. CASE ResetPassword(r)
      <3>1. CASE Stop(r) /\ links' = links
        BY <1>5, <1>6, <3>1
      <3>2. CASE ~(Stop(r) /\ links' = links)
        <4> DEFINE l == req[r].link
        <4>1. /\ l \in Links /\ links'[l] = WithReset(links[l])
              /\ \A k \in Links \ {l} : links'[k] = links[k]
              /\ req'[r] = Idle /\ \A p \in Requests \ {r} : req'[p] = req[p]
          BY <1>1, <2>5, <3>2, ResetFacts
        <4>2. links'[l] # None => links'[l].used = "claimed" /\ links'[l].resets = 1
          BY <1>1, <4>1, WithResetFacts DEF UsedOnce, Stored, TypeOK
        <4>3. \A p \in Requests : req'[p].link # l
          BY <4>1, IdleFacts DEF UsedOnce
        <4>4. \A p, q \in Requests : req'[p].link = req'[q].link /\ req'[q].link # None => p = q
          BY <4>1, IdleFacts DEF UsedOnce
        <4>5. \A p \in Requests : req'[p].link # None =>
                req'[p].link = req[p].link /\ req'[p].link \in Links
          BY <1>2, <4>1, IdleFacts
        <4> HIDE DEF l
        <4>6. \A k \in Links : links'[k] # None =>
                links'[k].resets <= 1 /\ (links'[k].used # "claimed" => links'[k].resets = 0)
          BY <4>1, <4>2 DEF UsedOnce, SingleUse, Stored
        <4>7. \A p \in Requests : req'[p].link # None /\ links'[req'[p].link] # None =>
                links'[req'[p].link].used = "claimed" /\ links'[req'[p].link].resets = 0
          BY <4>1, <4>3, <4>5 DEF UsedOnce, Stored
        <4> QED
          BY <4>4, <4>6, <4>7 DEF UsedOnce, SingleUse, Stored
      <3> QED
        BY <3>1, <3>2
    <2> QED
      BY <1>7, <2>1, <2>2, <2>3, <2>4, <2>5 DEF OwnStep
  <1> QED
    BY <1>1, <1>3, <1>7, NextIsFrame DEF Frame, RequestKept

-----------------------------------------------------------------------------
(* Rivals. *)

\* Only an insertion adds a usable link, and whoever has superseded by then is
\* told of the rival.
LEMMA NextKeepsNoRivalYet ==
  ASSUME Core, NoRivalYet, [Next]_vars
  PROVE  NoRivalYet'
  <1>1. TypeOK /\ Shapes
    BY DEF Core
  <1>2. \A r \in Requests : req[r] \in Request
    BY <1>1 DEF TypeOK
  <1>3. ASSUME RowsKept
        PROVE  /\ \A u : UsableOf(u)' \subseteq UsableOf(u)
               /\ \A l \in Links : links'[l] # None /\ links'[l].used = "no" =>
                    /\ Usable(l)
                    /\ links'[l].user = links[l].user /\ links'[l].rival = links[l].rival
    BY <1>3 DEF RowsKept, RowKept, UsableOf, Usable, Stored
  <1> DEFINE NoTwo == \A k, l \in Links :
                 Usable(k) /\ Usable(l) /\ links[k].user = links[l].user
                   /\ ~links[k].rival /\ ~links[l].rival => k = l
  <1>4. RowsKept => NoTwo'
    BY <1>3 DEF NoRivalYet, Usable, Stored
  <1>5. ASSUME RowsKept, \A r \in Requests : InsertKept(req[r], req'[r])
        PROVE  NoRivalYet'
    <2>1. ASSUME NEW r \in Requests, req'[r].pc = "insert", ~req'[r].rival
          PROVE  \A l \in Links : ~(links'[l] # None /\ links'[l].used = "no"
                                       /\ links'[l].user = req'[r].target)
      <3>1. UsableOf(req[r].target) = {} /\ req'[r].target = req[r].target
        BY <1>5, <2>1 DEF InsertKept, NoRivalYet, At
      <3> QED
        BY <1>3, <1>5, <3>1 DEF UsableOf
    <2> QED
      BY <1>4, <1>5, <2>1 DEF NoRivalYet, At, UsableOf, Usable, Stored
  <1>6. ASSUME NEW r \in Requests, NEW pc, pc # "insert", Go(r, pc), links' = links
        PROVE  NoRivalYet'
    <2>1. \A p \in Requests : InsertKept(req[p], req'[p])
      BY <1>1, <1>2, <1>6 DEF Go, InsertKept, TypeOK, Request
    <2> QED
      BY <1>5, <1>6, <2>1, SameIsKept DEF RowsKept
  <1>7. ASSUME NEW r \in Requests, Stop(r), RowsKept PROVE NoRivalYet'
    BY <1>1, <1>5, <1>7, IdleFacts DEF Stop, InsertKept, TypeOK
  <1>8. links' = links => RowsKept
    BY SameIsKept DEF RowsKept
  <1>9. ASSUME NEW r \in Requests, OwnStep(r) PROVE NoRivalYet'
    <2>1. CASE CountRecentByActor(r) \/ CountRecentForUser(r)
      BY <1>6, <1>7, <1>8, <2>1 DEF CountRecentByActor, CountRecentForUser
    <2>2. CASE Supersede(r)
      <3>1. CASE Stop(r) /\ UNCHANGED links
        BY <1>7, <1>8, <3>1
      <3>2. CASE RevokeForUser(req[r].target) /\ Go(r, "insert")
        <4>1. RowsKept
          BY <1>1, <3>2, RevokeIsKept
        <4>2. req'[r].target = req[r].target /\ \A p \in Requests \ {r} : req'[p] = req[p]
          BY <1>1, <1>2, <3>2 DEF Go, TypeOK, Request
        <4>3. \A l \in Links : ~(links'[l] # None /\ links'[l].used = "no"
                                       /\ links'[l].user = req[r].target)
          <5> SUFFICES ASSUME NEW l \in Links, links'[l] # None, links'[l].used = "no",
                              links'[l].user = req[r].target
                       PROVE  FALSE
            OBVIOUS
          <5>1. links'[l] = links[l] /\ l \notin UsableOf(req[r].target)
            BY <1>1, <3>2, RevokeFacts
          <5> QED
            BY <5>1 DEF UsableOf, Usable, Stored
        <4>4. \A p \in Requests \ {r} : req'[p].pc = "insert" /\ ~req'[p].rival =>
                \A l \in Links : ~(links'[l] # None /\ links'[l].used = "no"
                                       /\ links'[l].user = req'[p].target)
          BY <1>3, <4>1, <4>2 DEF NoRivalYet, At, UsableOf
        <4> QED
          BY <1>4, <4>1, <4>2, <4>3, <4>4 DEF NoRivalYet, At, UsableOf, Usable, Stored
      <3> QED
        BY <2>2, <3>1, <3>2 DEF Supersede
    <2>3. CASE InsertLink(r)
      <3>1. CASE Stop(r) /\ links' = links
        BY <1>7, <1>8, <3>1
      <3>2. CASE ~(Stop(r) /\ links' = links)
        <4> DEFINE u == req[r].target
        <4>1. PICK l \in Links :
                /\ FreshLink(l) /\ links'[l] = NewRow(r)
                /\ \A k \in Links \ {l} : links'[k] = links[k]
          BY <1>1, <2>3, <3>2, InsertFacts
        <4>2. NewRow(r).user = u /\ NewRow(r).rival = req[r].rival
          BY DEF NewRow
        <4>3. /\ At(r, "insert") /\ req'[r] = Idle
              /\ \A p \in Requests : p # r =>
                   /\ req'[p].pc = req[p].pc /\ req'[p].target = req[p].target
                   /\ ~req'[p].rival =>
                        ~req[p].rival /\ ~(req[p].pc = "insert" /\ req[p].target = u)
          BY <1>1, <2>3, <3>2, InsertFacts
        <4>4. ~NewRow(r).rival => UsableOf(u) = {}
          BY <4>2, <4>3 DEF NoRivalYet
        <4> HIDE DEF u
        <4>5. \A p \in Requests : req'[p].pc = "insert" /\ ~req'[p].rival =>
                \A k \in Links : ~(links'[k] # None /\ links'[k].used = "no"
                                       /\ links'[k].user = req'[p].target)
          BY <4>1, <4>2, <4>3, IdleFacts DEF NoRivalYet, At, UsableOf, Usable, Stored
        <4>6. NoTwo'
          BY <4>1, <4>2, <4>4 DEF NoRivalYet, UsableOf, Usable, Stored
        <4> QED
          BY <4>5, <4>6 DEF NoRivalYet, At, UsableOf, Usable, Stored
      <3> QED
        BY <3>1, <3>2
    <2>4. CASE \/ \E l \in Links : ConsumeToken(r, l)
               \/ ResetPassword(r) /\ ~(Stop(r) /\ links' = links)
      <3>1. PICK l \in Links :
              /\ \A k \in Links \ {l} : links'[k] = links[k]
              /\ links'[l] # None /\ links'[l].used = "no" =>
                   /\ Usable(l) /\ links'[l].user = links[l].user
                   /\ links'[l].rival = links[l].rival
              /\ req'[r].pc # "insert" /\ \A p \in Requests \ {r} : req'[p] = req[p]
        <4>1. ASSUME NEW l \in Links, ConsumeToken(r, l)
              PROVE  /\ \A k \in Links \ {l} : links'[k] = links[k]
                     /\ links'[l].used # "no"
                     /\ req'[r].pc # "insert" /\ \A p \in Requests \ {r} : req'[p] = req[p]
          BY <1>1, <4>1, ConsumeFacts
        <4>2. ASSUME ResetPassword(r), ~(Stop(r) /\ links' = links)
              PROVE  /\ req[r].link \in Links
                     /\ \A k \in Links \ {req[r].link} : links'[k] = links[k]
                     /\ links'[req[r].link] = WithReset(links[req[r].link])
                     /\ req'[r].pc # "insert" /\ \A p \in Requests \ {r} : req'[p] = req[p]
          BY <1>1, <4>2, ResetFacts, IdleFacts
        <4>3. ASSUME NEW l \in Links, links'[l] = WithReset(links[l]),
                     links'[l] # None, links'[l].used = "no"
              PROVE  /\ Usable(l) /\ links'[l].user = links[l].user
                     /\ links'[l].rival = links[l].rival
          BY <1>1, <4>3, WithResetFacts DEF Usable, Stored, TypeOK
        <4> QED
          BY <2>4, <4>1, <4>2, <4>3
      <3>2. \A k \in Links : links'[k] # None /\ links'[k].used = "no" =>
              /\ Usable(k)
              /\ links'[k].user = links[k].user /\ links'[k].rival = links[k].rival
        BY <3>1 DEF Usable, Stored
      <3>3. \A p \in Requests : req'[p].pc = "insert" => req'[p] = req[p]
        BY <3>1
      <3>4. NoTwo'
        BY <3>2 DEF NoRivalYet, Usable, Stored
      <3>5. \A p \in Requests : req'[p].pc = "insert" /\ ~req'[p].rival =>
              \A k \in Links : ~(links'[k] # None /\ links'[k].used = "no"
                                     /\ links'[k].user = req'[p].target)
        BY <3>2, <3>3 DEF NoRivalYet, At, UsableOf
      <3> QED
        BY <3>4, <3>5 DEF NoRivalYet, At, UsableOf, Usable, Stored
    <2>5. CASE ResetPassword(r) /\ Stop(r) /\ links' = links
      BY <1>7, <1>8, <2>5
    <2> QED
      BY <1>9, <2>1, <2>2, <2>3, <2>4, <2>5 DEF OwnStep
  <1> QED
    BY <1>1, <1>5, <1>9, NextIsFrame DEF Frame, RequestKept

-----------------------------------------------------------------------------
(* The caps. *)

LEMMA SmallerSum ==
  ASSUME NEW A, NEW B, NEW C \in SUBSET A, NEW D \in SUBSET B,
         IsFiniteSet(A), IsFiniteSet(B), NEW n \in Int,
         Cardinality(A) + Cardinality(B) <= n
  PROVE  Cardinality(C) + Cardinality(D) <= n
  <1>1. /\ Cardinality(C) <= Cardinality(A) /\ Cardinality(D) <= Cardinality(B)
        /\ IsFiniteSet(C) /\ IsFiniteSet(D)
    BY FS_Subset
  <1>2. /\ Cardinality(A) \in Nat /\ Cardinality(B) \in Nat
        /\ Cardinality(C) \in Nat /\ Cardinality(D) \in Nat
    BY <1>1, FS_CardinalityType
  <1> QED
    BY <1>1, <1>2

\* A place is given up for the row: the sum stays.
LEMMA SameSum ==
  ASSUME NEW A, NEW B, NEW l, NEW r \in B, NEW C \in SUBSET (A \cup {l}),
         NEW D \in SUBSET (B \ {r}),
         IsFiniteSet(A), IsFiniteSet(B), NEW n \in Int,
         Cardinality(A) + Cardinality(B) <= n
  PROVE  Cardinality(C) + Cardinality(D) <= n
  <1>1. IsFiniteSet(A \cup {l}) /\ Cardinality(A \cup {l}) <= Cardinality(A) + 1
    <2>1. Cardinality(A) \in Nat
      BY FS_CardinalityType
    <2>2. /\ IsFiniteSet(A \cup {l})
          /\ Cardinality(A \cup {l}) = IF l \in A THEN Cardinality(A) ELSE Cardinality(A) + 1
      BY FS_AddElement
    <2> QED
      BY <2>1, <2>2
  <1>2. IsFiniteSet(B \ {r}) /\ Cardinality(B \ {r}) = Cardinality(B) - 1
    <2>1. /\ IsFiniteSet(B \ {r})
          /\ Cardinality(B \ {r}) = IF r \in B THEN Cardinality(B) - 1 ELSE Cardinality(B)
      BY FS_RemoveElement
    <2> QED
      BY <2>1
  <1>3. /\ Cardinality(A) \in Nat /\ Cardinality(B) \in Nat
        /\ Cardinality(A \cup {l}) \in Nat
    BY <1>1, FS_CardinalityType
  <1>4. Cardinality(A \cup {l}) + Cardinality(B \ {r}) <= n
    BY <1>1, <1>3, <1>2
  <1> QED
    BY <1>1, <1>4, <1>2, SmallerSum

LEMMA Finite ==
  /\ \A u : IsFiniteSet(RecentOfUser(u)) /\ IsFiniteSet(HoldingOfUser(u))
  /\ \A a : IsFiniteSet(RecentOfActor(a)) /\ IsFiniteSet(HoldingOfActor(a))
  /\ MaxPerUser + Cardinality(Requests) - 1 \in Int
  /\ MaxPerActor + Cardinality(Requests) - 1 \in Int
  BY FiniteAssumption, CapsAssumption, FS_Subset, FS_CardinalityType
  DEF RecentOfUser, RecentOfActor, HoldingOfUser, HoldingOfActor

\* Whoever is let past a count makes the sum what it may be at most.
LEMMA LetPast ==
  ASSUME NEW A, NEW C \in SUBSET A, NEW D \in SUBSET Requests, IsFiniteSet(A),
         NEW max \in Nat, Cardinality(A) < max
  PROVE  Cardinality(C) + Cardinality(D) <= max + Cardinality(Requests) - 1
  <1>1. /\ Cardinality(C) <= Cardinality(A) /\ Cardinality(D) <= Cardinality(Requests)
        /\ IsFiniteSet(C) /\ IsFiniteSet(D)
    BY FiniteAssumption, FS_Subset
  <1>2. /\ Cardinality(A) \in Nat /\ Cardinality(Requests) \in Nat
        /\ Cardinality(C) \in Nat /\ Cardinality(D) \in Nat
    BY <1>1, FiniteAssumption, FS_CardinalityType
  <1> QED
    BY <1>1, <1>2

RecentShrinks ==
  /\ \A u \in Accounts : RecentOfUser(u)' \subseteq RecentOfUser(u)
  /\ \A a \in Actors : RecentOfActor(a)' \subseteq RecentOfActor(a)

HoldsUserCount  == \A r \in Requests : UserCountKept(req[r], req'[r])
HoldsActorCount == \A r \in Requests : ActorCountKept(req[r], req'[r])

LEMMA RowsKeptShrinks == ASSUME RowsKept PROVE RecentShrinks
  BY DEF RowsKept, RowKept, RecentShrinks, RecentOfUser, RecentOfActor, Stored

LEMMA OneKeepsCounts ==
  ASSUME TypeOK, NEW r \in Requests, \A p \in Requests \ {r} : req'[p] = req[p],
         req'[r].pc \notin PastActorCount
  PROVE  HoldsUserCount /\ HoldsActorCount
  BY DEF HoldsUserCount, HoldsActorCount, UserCountKept, ActorCountKept,
         PastUserCount, PastActorCount

\* Only an insertion counts, and only the two counts let a request past.
LEMMA OwnStepCounts ==
  ASSUME TypeOK, Shapes, NEW r \in Requests, OwnStep(r)
  PROVE  \/ InsertLink(r) /\ ~(Stop(r) /\ links' = links)
         \/ CountRecentByActor(r) /\ Go(r, "countUser")
         \/ CountRecentForUser(r) /\ Go(r, "issueAudit")
         \/ RecentShrinks /\ HoldsUserCount /\ HoldsActorCount
  <1>1. links' = links => RecentShrinks
    BY SameIsKept, RowsKeptShrinks DEF RowsKept
  <1>2. Stop(r) => HoldsUserCount /\ HoldsActorCount
    BY OneKeepsCounts, IdleFacts DEF Stop, TypeOK, PastActorCount
  <1>3. CASE CountRecentByActor(r) \/ CountRecentForUser(r) \/ InsertLink(r)
    BY <1>1, <1>2, <1>3 DEF CountRecentByActor, CountRecentForUser
  <1>4. CASE Supersede(r)
    <2>1. RecentShrinks
      BY <1>1, <1>4, RevokeIsKept, RowsKeptShrinks DEF Supersede
    <2>2. CASE Go(r, "insert")
      <3>1. req[r] \in Request
        BY DEF TypeOK
      <3>2. /\ req'[r].target = req[r].target /\ req'[r].actor = req[r].actor
            /\ \A p \in Requests \ {r} : req'[p] = req[p]
        BY <2>2, <3>1 DEF Go, TypeOK, Request
      <3> QED
        BY <1>4, <2>1, <3>2 DEF Supersede, At, HoldsUserCount, HoldsActorCount,
           UserCountKept, ActorCountKept, PastUserCount, PastActorCount
    <2> QED
      BY <1>2, <1>4, <2>1, <2>2 DEF Supersede
  <1>5. CASE \E l \in Links : ConsumeToken(r, l)
    <2>1. PICK l \in Links : ConsumeToken(r, l)
      BY <1>5
    <2>2. /\ Stored(l)
          /\ links'[l].user = links[l].user /\ links'[l].actor = links[l].actor
          /\ links'[l].recent = links[l].recent
          /\ \A k \in Links \ {l} : links'[k] = links[k]
          /\ req'[r].pc = "check" /\ \A p \in Requests \ {r} : req'[p] = req[p]
      BY <2>1, ConsumeFacts DEF Usable
    <2>3. RecentShrinks
      BY <2>2 DEF RecentShrinks, RecentOfUser, RecentOfActor, Stored
    <2> QED
      BY <2>2, <2>3, OneKeepsCounts DEF PastActorCount
  <1>6. CASE ResetPassword(r)
    <2>1. CASE Stop(r) /\ links' = links
      BY <1>1, <1>2, <2>1
    <2>2. CASE ~(Stop(r) /\ links' = links)
      <3> DEFINE l == req[r].link
      <3>1. /\ l \in Links /\ links'[l] = WithReset(links[l])
            /\ \A k \in Links \ {l} : links'[k] = links[k]
            /\ req'[r] = Idle /\ \A p \in Requests \ {r} : req'[p] = req[p]
        BY <1>6, <2>2, ResetFacts
      <3>2. links'[l] # None =>
              /\ links[l] # None
              /\ links'[l].user = links[l].user /\ links'[l].actor = links[l].actor
              /\ links'[l].recent = links[l].recent
        BY <3>1, WithResetFacts DEF TypeOK
      <3> HIDE DEF l
      <3>3. RecentShrinks
        BY <3>1, <3>2 DEF RecentShrinks, RecentOfUser, RecentOfActor, Stored
      <3> QED
        BY <3>1, <3>3, OneKeepsCounts, IdleFacts DEF PastActorCount
    <2> QED
      BY <2>1, <2>2
  <1> QED
    BY <1>3, <1>4, <1>5, <1>6 DEF OwnStep

LEMMA NextKeepsUserCap ==
  ASSUME Core, UserCap, [Next]_vars
  PROVE  UserCap'
  <1>1. TypeOK /\ Shapes
    BY DEF Core
  <1>2. \A r \in Requests : req[r] \in Request
    BY <1>1 DEF TypeOK
  <1> SUFFICES ASSUME NEW u \in Accounts
               PROVE  Cardinality(RecentOfUser(u)') + Cardinality(HoldingOfUser(u)')
                        <= MaxPerUser + Cardinality(Requests) - 1
    BY DEF UserCap
  <1>3. Cardinality(RecentOfUser(u)) + Cardinality(HoldingOfUser(u))
          <= MaxPerUser + Cardinality(Requests) - 1
    BY DEF UserCap
  <1>4. ASSUME RecentOfUser(u)' \subseteq RecentOfUser(u), HoldingOfUser(u)' \subseteq HoldingOfUser(u)
        PROVE  Cardinality(RecentOfUser(u)') + Cardinality(HoldingOfUser(u)')
                 <= MaxPerUser + Cardinality(Requests) - 1
    BY <1>3, <1>4, SmallerSum, Finite
  <1>5. HoldsUserCount => HoldingOfUser(u)' \subseteq HoldingOfUser(u)
    BY DEF HoldsUserCount, UserCountKept, HoldingOfUser
  <1>6. CASE Frame
    BY <1>4, <1>5, <1>6, RowsKeptShrinks DEF Frame, RequestKept, HoldsUserCount, RecentShrinks
  <1>7. ASSUME NEW r \in Requests, OwnStep(r)
        PROVE  Cardinality(RecentOfUser(u)') + Cardinality(HoldingOfUser(u)')
                 <= MaxPerUser + Cardinality(Requests) - 1
    <2>1. CASE RecentShrinks /\ HoldsUserCount
      BY <1>4, <1>5, <2>1 DEF RecentShrinks
    <2>2. CASE InsertLink(r) /\ ~(Stop(r) /\ links' = links)
      <3>1. PICK l \in Links :
              links'[l] = NewRow(r) /\ \A k \in Links \ {l} : links'[k] = links[k]
        BY <1>1, <2>2, InsertFacts
      <3>2. NewRow(r).user = req[r].target
        BY DEF NewRow
      <3>3. /\ At(r, "insert") /\ req'[r] = Idle
            /\ \A p \in Requests \ {r} : req'[p].pc = req[p].pc /\ req'[p].target = req[p].target
        BY <1>1, <2>2, InsertFacts
      <3>4. HoldingOfUser(u)' \subseteq HoldingOfUser(u) \ {r}
        BY <3>3, IdleFacts DEF HoldingOfUser, PastUserCount
      <3>5. CASE u = req[r].target
        <4>1. RecentOfUser(u)' \subseteq RecentOfUser(u) \cup {l}
          BY <3>1 DEF RecentOfUser, Stored
        <4>2. r \in HoldingOfUser(u)
          BY <3>3, <3>5 DEF HoldingOfUser, PastUserCount, At
        <4> QED
          <5> DEFINE A == RecentOfUser(u)
                     B == HoldingOfUser(u)
                     C == RecentOfUser(u)'
                     D == HoldingOfUser(u)'
                     n == MaxPerUser + Cardinality(Requests) - 1
          <5>1. IsFiniteSet(A) /\ IsFiniteSet(B) /\ n \in Int
            BY Finite
          <5>2. C \in SUBSET (A \cup {l}) /\ r \in B /\ D \in SUBSET (B \ {r})
            BY <3>4, <4>1, <4>2
          <5>3. Cardinality(A) + Cardinality(B) <= n
            BY <1>3
          <5> HIDE DEF A, B, C, D, n
          <5>4. Cardinality(C) + Cardinality(D) <= n
            BY <5>1, <5>2, <5>3, SameSum
          <5> QED
            BY <5>4 DEF C, D, n
      <3>6. CASE u # req[r].target
        <4>1. RecentOfUser(u)' \subseteq RecentOfUser(u)
          BY <3>1, <3>2, <3>6 DEF RecentOfUser, Stored
        <4> QED
          BY <1>4, <3>4, <4>1
      <3> QED
        BY <3>5, <3>6
    <2>3. CASE CountRecentByActor(r) /\ Go(r, "countUser")
      <3>1. links' = links
        BY <2>3 DEF CountRecentByActor
      <3>2. /\ req'[r].pc = "countUser"
            /\ \A p \in Requests \ {r} : req'[p] = req[p]
        BY <1>1, <1>2, <2>3 DEF Go, TypeOK, Request
      <3>3. HoldingOfUser(u)' \subseteq HoldingOfUser(u)
        BY <3>2 DEF HoldingOfUser, PastUserCount
      <3> QED
        BY <1>4, <3>1, <3>3 DEF RecentOfUser, Stored
    <2>4. CASE CountRecentForUser(r) /\ Go(r, "issueAudit")
      <3>1. /\ links' = links
            /\ ~Stop(r) => Cardinality(RecentOfUser(req[r].target)) < MaxPerUser
        BY <2>4 DEF CountRecentForUser
      <3>2. /\ req'[r].pc = "issueAudit" /\ req'[r].target = req[r].target
            /\ \A p \in Requests \ {r} : req'[p] = req[p]
        BY <1>1, <1>2, <2>4 DEF Go, TypeOK, Request
      <3>3. ~Stop(r)
        BY <1>1, <3>2, IdleFacts DEF Stop, TypeOK
      <3>4. RecentOfUser(u)' \subseteq RecentOfUser(u)
        BY <3>1 DEF RecentOfUser, Stored
      <3>5. CASE u = req[r].target
        <4>1. HoldingOfUser(u)' \subseteq Requests
          BY DEF HoldingOfUser
        <4> QED
          BY <3>1, <3>3, <3>4, <3>5, <4>1, LetPast, Finite, CapsAssumption
      <3>6. CASE u # req[r].target
        <4>1. HoldingOfUser(u)' \subseteq HoldingOfUser(u)
          BY <3>2, <3>6 DEF HoldingOfUser
        <4> QED
          BY <1>4, <3>4, <4>1
      <3> QED
        BY <3>5, <3>6
    <2> QED
      BY <1>1, <1>7, <2>1, <2>2, <2>3, <2>4, OwnStepCounts
  <1> QED
    BY <1>1, <1>6, <1>7, NextIsFrame

LEMMA NextKeepsActorCap ==
  ASSUME Core, ActorCap, [Next]_vars
  PROVE  ActorCap'
  <1>1. TypeOK /\ Shapes
    BY DEF Core
  <1>2. \A r \in Requests : req[r] \in Request
    BY <1>1 DEF TypeOK
  <1> SUFFICES ASSUME NEW a \in Actors
               PROVE  Cardinality(RecentOfActor(a)') + Cardinality(HoldingOfActor(a)')
                        <= MaxPerActor + Cardinality(Requests) - 1
    BY DEF ActorCap
  <1>3. Cardinality(RecentOfActor(a)) + Cardinality(HoldingOfActor(a))
          <= MaxPerActor + Cardinality(Requests) - 1
    BY DEF ActorCap
  <1>4. ASSUME RecentOfActor(a)' \subseteq RecentOfActor(a), HoldingOfActor(a)' \subseteq HoldingOfActor(a)
        PROVE  Cardinality(RecentOfActor(a)') + Cardinality(HoldingOfActor(a)')
                 <= MaxPerActor + Cardinality(Requests) - 1
    BY <1>3, <1>4, SmallerSum, Finite
  <1>5. HoldsActorCount => HoldingOfActor(a)' \subseteq HoldingOfActor(a)
    BY DEF HoldsActorCount, ActorCountKept, HoldingOfActor
  <1>6. CASE Frame
    BY <1>4, <1>5, <1>6, RowsKeptShrinks DEF Frame, RequestKept, HoldsActorCount, RecentShrinks
  <1>7. ASSUME NEW r \in Requests, OwnStep(r)
        PROVE  Cardinality(RecentOfActor(a)') + Cardinality(HoldingOfActor(a)')
                 <= MaxPerActor + Cardinality(Requests) - 1
    <2>1. CASE RecentShrinks /\ HoldsActorCount
      BY <1>4, <1>5, <2>1 DEF RecentShrinks
    <2>2. CASE InsertLink(r) /\ ~(Stop(r) /\ links' = links)
      <3>1. PICK l \in Links :
              links'[l] = NewRow(r) /\ \A k \in Links \ {l} : links'[k] = links[k]
        BY <1>1, <2>2, InsertFacts
      <3>2. NewRow(r).actor = req[r].actor
        BY DEF NewRow
      <3>3. /\ At(r, "insert") /\ req'[r] = Idle
            /\ \A p \in Requests \ {r} : req'[p].pc = req[p].pc /\ req'[p].actor = req[p].actor
        BY <1>1, <2>2, InsertFacts
      <3>4. HoldingOfActor(a)' \subseteq HoldingOfActor(a) \ {r}
        BY <3>3, IdleFacts DEF HoldingOfActor, PastActorCount
      <3>5. CASE a = req[r].actor
        <4>1. RecentOfActor(a)' \subseteq RecentOfActor(a) \cup {l}
          BY <3>1 DEF RecentOfActor, Stored
        <4>2. r \in HoldingOfActor(a)
          BY <3>3, <3>5 DEF HoldingOfActor, PastActorCount, At
        <4> QED
          <5> DEFINE A == RecentOfActor(a)
                     B == HoldingOfActor(a)
                     C == RecentOfActor(a)'
                     D == HoldingOfActor(a)'
                     n == MaxPerActor + Cardinality(Requests) - 1
          <5>1. IsFiniteSet(A) /\ IsFiniteSet(B) /\ n \in Int
            BY Finite
          <5>2. C \in SUBSET (A \cup {l}) /\ r \in B /\ D \in SUBSET (B \ {r})
            BY <3>4, <4>1, <4>2
          <5>3. Cardinality(A) + Cardinality(B) <= n
            BY <1>3
          <5> HIDE DEF A, B, C, D, n
          <5>4. Cardinality(C) + Cardinality(D) <= n
            BY <5>1, <5>2, <5>3, SameSum
          <5> QED
            BY <5>4 DEF C, D, n
      <3>6. CASE a # req[r].actor
        <4>1. RecentOfActor(a)' \subseteq RecentOfActor(a)
          BY <3>1, <3>2, <3>6 DEF RecentOfActor, Stored
        <4> QED
          BY <1>4, <3>4, <4>1
      <3> QED
        BY <3>5, <3>6
    <2>3. CASE CountRecentByActor(r) /\ Go(r, "countUser")
      <3>1. /\ links' = links
            /\ ~Stop(r) => Cardinality(RecentOfActor(req[r].actor)) < MaxPerActor
        BY <2>3 DEF CountRecentByActor
      <3>2. /\ req'[r].pc = "countUser" /\ req'[r].actor = req[r].actor
            /\ \A p \in Requests \ {r} : req'[p] = req[p]
        BY <1>1, <1>2, <2>3 DEF Go, TypeOK, Request
      <3>3. ~Stop(r)
        BY <1>1, <3>2, IdleFacts DEF Stop, TypeOK
      <3>4. RecentOfActor(a)' \subseteq RecentOfActor(a)
        BY <3>1 DEF RecentOfActor, Stored
      <3>5. CASE a = req[r].actor
        <4>1. HoldingOfActor(a)' \subseteq Requests
          BY DEF HoldingOfActor
        <4> QED
          BY <3>1, <3>3, <3>4, <3>5, <4>1, LetPast, Finite, CapsAssumption
      <3>6. CASE a # req[r].actor
        <4>1. HoldingOfActor(a)' \subseteq HoldingOfActor(a)
          BY <3>2, <3>6 DEF HoldingOfActor
        <4> QED
          BY <1>4, <3>4, <4>1
      <3> QED
        BY <3>5, <3>6
    <2>4. CASE CountRecentForUser(r) /\ Go(r, "issueAudit")
      <3>1. links' = links /\ At(r, "countUser")
        BY <2>4 DEF CountRecentForUser
      <3>2. /\ req'[r].actor = req[r].actor
            /\ \A p \in Requests \ {r} : req'[p] = req[p]
        BY <1>1, <1>2, <2>4 DEF Go, TypeOK, Request
      <3>3. HoldingOfActor(a)' \subseteq HoldingOfActor(a)
        BY <3>1, <3>2 DEF HoldingOfActor, PastActorCount, At
      <3> QED
        BY <1>4, <3>1, <3>3 DEF RecentOfActor, Stored
    <2> QED
      BY <1>1, <1>7, <2>1, <2>2, <2>3, <2>4, OwnStepCounts
  <1> QED
    BY <1>1, <1>6, <1>7, NextIsFrame

-----------------------------------------------------------------------------
(* The theorems. *)

LEMMA NextKeepsIInv == ASSUME IInv, [Next]_vars PROVE IInv'
  BY NextKeepsCore, NextKeepsUsedOnce, NextKeepsNoRivalYet, NextKeepsUserCap,
     NextKeepsActorCap DEF IInv

\* The inductive invariant holds in every state of every behaviour of the
\* password-reset code.
THEOREM Invariance == Spec => []IInv
  <1>1. Init => IInv
    BY InitIInv
  <1>2. IInv /\ [Next]_vars => IInv'
    BY NextKeepsIInv
  <1> QED
    BY <1>1, <1>2, PTL DEF Spec

\* Links, requests and entries keep their types, whatever handlers run at once.
THEOREM TypeCorrectness == Spec => []TypeOK
  <1>1. IInv => TypeOK
    BY DEF IInv, Core
  <1> QED
    BY <1>1, Invariance, PTL

\* A link made unsafe by a lock, a delete, a rename, a new password or a new
\* address is retired or about to be, or its handler failed (revokeResetTokens).
THEOREM VoidLinksAreRetiredAlways == Spec => []VoidLinksAreRetired
  <1>1. IInv => VoidLinksAreRetired
    BY DEF IInv, Core
  <1> QED
    BY <1>1, Invariance, PTL

\* A link that can be redeemed was sent to the address its account has now, up
\* to the exceptions the property names.
THEOREM LinksFollowDirectoryAlways == Spec => []LinksFollowDirectory
  <1>1. ASSUME IInv PROVE LinksFollowDirectory
    <2> SUFFICES ASSUME NEW l \in Links, Usable(l), links[l].standing # "late"
                 PROVE  LET u == links[l].user IN
                        \/ Exists(u) /\ entry[u].mail = links[l].email
                        \/ Pending(u) \/ u \in missed
      BY DEF LinksFollowDirectory
    <2>1. links[l].standing \in {"current", "void"}
      BY <1>1 DEF IInv, Core, TypeOK, Row, Usable, Stored
    <2> QED
      BY <1>1, <2>1 DEF IInv, Core, VoidLinksAreRetired, CurrentFollows
  <1> QED
    BY <1>1, Invariance, PTL

\* Whatever has failed before, a reset writes the password of the account its
\* link was sent to (resetTarget), unless a change came after the check.
THEOREM ResetHitsItsAccountAlways == Spec => []ResetHitsItsAccount
  <1>1. IInv => ResetHitsItsAccount
    BY DEF IInv, Core, RequestsFollow, Follows, CheckedPcs, At, ResetHitsItsAccount
  <1> QED
    BY <1>1, Invariance, PTL

\* No link sets two passwords, however many requests carry it (ConsumeToken).
THEOREM SingleUseAlways == Spec => []SingleUse
  <1>1. IInv => SingleUse
    BY DEF IInv, UsedOnce
  <1> QED
    BY <1>1, Invariance, PTL

\* At most one usable link of an account was issued with no rival (CreateToken).
THEOREM OneUsableUnlessRivalsAlways == Spec => []OneUsableUnlessRivals
  <1>1. ASSUME IInv PROVE OneUsableUnlessRivals
    <2> SUFFICES ASSUME NEW u \in Accounts
                 PROVE  Cardinality({l \in UsableOf(u) : ~links[l].rival}) <= 1
      BY DEF OneUsableUnlessRivals
    <2> DEFINE S == {l \in UsableOf(u) : ~links[l].rival}
    <2>1. \A k, l \in S : k = l
      BY <1>1 DEF IInv, NoRivalYet, UsableOf
    <2> HIDE DEF S
    <2>2. CASE S = {}
      <3>1. Cardinality(S) = 0
        BY <2>2, FS_EmptySet
      <3> QED
        BY <3>1 DEF S
    <2>3. CASE S # {}
      <3>1. PICK l : S = {l}
        BY <2>1, <2>3
      <3>2. Cardinality(S) = 1
        BY <3>1, FS_Singleton
      <3> QED
        BY <3>2 DEF S
    <2> QED
      BY <2>2, <2>3
  <1> QED
    BY <1>1, Invariance, PTL

\* The caps on issuing are overrun by at most the requests that run at once
\* less one, for any caps and any number of requests.
THEOREM IssuanceIsCappedAlways == Spec => []IssuanceIsCapped
  <1>1. ASSUME IInv PROVE IssuanceIsCapped
    <2>1. \A u \in Accounts : /\ Cardinality(RecentOfUser(u)) \in Nat
                              /\ Cardinality(HoldingOfUser(u)) \in Nat
      BY Finite, FS_CardinalityType
    <2>2. \A a \in Actors : /\ Cardinality(RecentOfActor(a)) \in Nat
                            /\ Cardinality(HoldingOfActor(a)) \in Nat
      BY Finite, FS_CardinalityType
    <2>3. /\ MaxPerUser + Cardinality(Requests) - 1 \in Int
          /\ MaxPerActor + Cardinality(Requests) - 1 \in Int
      BY Finite
    <2>4. UserCap /\ ActorCap
      BY <1>1 DEF IInv
    <2> QED
      BY <2>1, <2>2, <2>3, <2>4 DEF UserCap, ActorCap, IssuanceIsCapped
  <1> QED
    BY <1>1, Invariance, PTL
=============================================================================
