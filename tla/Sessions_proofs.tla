--------------------------- MODULE Sessions_proofs ---------------------------
(***************************************************************************)
(* Type correctness and the safety of session revocation, for any sets of  *)
(* accounts, requests and tokens, any operations and any of the failures.  *)
(*                                                                         *)
(* Every write that takes something away has the form of Commit, so one    *)
(* lemma (CommitKeepsIInv) carries the argument, and each action only has  *)
(* to show what its own write does to the accounts.                        *)
(***************************************************************************)
EXTENDS Sessions, TLAPS

Unbacked == {"gone", "locked", "lockedOut", "noPassword"}

\* What a request holds at each of its steps.
ShapeOf(q) ==
  /\ q.pc \in {"idle", "bind", "role", "insert", "audit", "write"} => q.todo = {}
  /\ q.pc \in {"bind", "role", "insert"} => q.target \in Users
  /\ q.pc \in {"audit", "write"} =>
       /\ q.op # "updateGroup" => q.target \in Users
       /\ q.op = "rename" => q.to \in Users
  /\ q.pc = "members" =>
       /\ q.target \in Users
       /\ \/ q.op = "create" /\ q.todo = {}
          \/ q.op = "delete" /\ q.todo = {q.target}
          \/ q.op = "rename" /\ q.todo = {q.target} /\ q.to \in Users
  /\ q.pc = "replace" =>
       q.op = "rename" /\ q.target \in Users /\ q.to \in Users /\ q.todo = {q.target}
  /\ q.token # None => q.op = "ownPassword"

Shapes == \A r \in Requests : ShapeOf(req[r])

\* A session due to end is owed by a request that will not spare it, or missed.
\* (A change of one's own password spares the session it was asked from.)
RevokedIsOwed ==
  \A t \in Tokens : Live(t) /\ sessions[t].standing = "revoked" =>
    \/ sessions[t].user \in missed
    \/ \E r \in Requests : sessions[t].user \in req[r].todo /\ req[r].token # t

\* A group handler skips a uid that names no account.  It may, because a
\* revoked session of an account that is gone is left to the delete or the
\* rename that took the account away.
TakenAway(u) == \E r \in Requests : req[r].op \in {"delete", "rename"} /\ u \in req[r].todo

GoneIsCovered ==
  \A t \in Tokens :
    Live(t) /\ sessions[t].standing = "revoked" /\ ~Exists(sessions[t].user) =>
      sessions[t].user \in missed \/ TakenAway(sessions[t].user)

\* A session nothing was taken from is backed by the directory, and so is a
\* sign-in that nothing overtook.
CurrentIsBacked ==
  \A t \in Tokens : Live(t) /\ sessions[t].standing = "current" => Backed(t)

LoginIsBacked ==
  \A r \in Requests : ~req[r].overtaken =>
    /\ req[r].pc = "role" => Backs(req[r].target, "readonly")
    /\ req[r].pc = "insert" => Backs(req[r].target, req[r].role)

IInv ==
  /\ TypeOK
  /\ Shapes
  /\ RevokedIsOwed
  /\ GoneIsCovered
  /\ CurrentIsBacked
  /\ LoginIsBacked

-----------------------------------------------------------------------------
(* The initial state, and the facts every action uses. *)

LEMMA InitIInv == Init => IInv
  <1> USE ConstantsAssumption
  <1> SUFFICES ASSUME Init PROVE IInv
    OBVIOUS
  <1>1. Idle \in Request
    BY DEF Idle, Request, AllOps
  <1>2. TypeOK
    BY <1>1 DEF Init, TypeOK, Idle, Session, Standings, Request, Flags
  <1>3. Shapes
    BY DEF Init, Shapes, ShapeOf, Idle
  <1>4. RevokedIsOwed /\ GoneIsCovered /\ CurrentIsBacked
    BY DEF Init, RevokedIsOwed, GoneIsCovered, CurrentIsBacked, Live
  <1>5. LoginIsBacked
    BY DEF Init, LoginIsBacked, Idle
  <1> QED
    BY <1>2, <1>3, <1>4, <1>5 DEF IInv

\* An idle slot is well formed, and holds nothing.
LEMMA IdleFacts ==
  /\ Idle \in Request
  /\ ShapeOf(Idle)
  /\ Idle.pc = "idle" /\ Idle.todo = {} /\ Idle.op = None
  BY ConstantsAssumption DEF Idle, Request, AllOps, ShapeOf

\* Backs and TakenAway after a step, of an account named before it.
BacksNext(u, role) ==
  /\ flags'[u] \cap Unbacked = {}
  /\ role = "admin" => u \in admins'

TakenAwayNext(u) == \E r \in Requests : req'[r].op \in {"delete", "rename"} /\ u \in req'[r].todo

Owes(u, t) == \E r \in Requests : u \in req[r].todo /\ req[r].token # t

OwesNext(u, t) == \E r \in Requests : u \in req'[r].todo /\ req'[r].token # t

\* A directory write by request r that follows the form of Commit keeps the
\* invariant when: what r still owed stays owed or is lost; the accounts the
\* write takes something from are owed or lost; an account that goes is left to
\* a delete or a rename; and no other account loses its backing.
LEMMA CommitKeepsIInv ==
  ASSUME IInv, NEW r \in Requests, NEW us \in SUBSET Users, NEW passed,
         NEW next \in Request, NEW lost \in SUBSET Users,
         flags' \in [Users -> SUBSET Flags], admins' \in SUBSET Users,
         ShapeOf(next), next.pc \notin {"role", "insert"},
         next.pc = "revoke" => next.todo # {},
         us \subseteq next.todo \cup lost,
         next.todo # {} => next.token = req[r].token,
         req[r].todo = {} \/ (next.op = req[r].op /\ req[r].todo \subseteq next.todo),
         \A v \in Users : "gone" \in flags'[v] /\ (v \in us \/ Exists(v)) =>
           v \in lost \/ (next.op \in {"delete", "rename"} /\ v \in next.todo),
         \A v \in Users : v \notin us \/ req[r].token # None =>
           \A role \in {"admin", "readonly"} : Backs(v, role) => BacksNext(v, role),
         passed = PastBind \/ (passed = PastRole /\ flags' = flags),
         Commit(r, us, passed, next, lost)
  PROVE  IInv'
  <1> USE ConstantsAssumption
  <1> DEFINE keep == req[r].token
  <1>1. /\ sessions' = MarkRows(us, keep)
        /\ req' = [q \in Requests |->
                     IF q = r THEN next
                     ELSE [req[q] EXCEPT !.overtaken = @ \/ Overtaken(q, us, passed)]]
        /\ missed' = missed \cup lost
    BY DEF Commit
  <1>2. req'[r] = next /\ \A q \in Requests \ {r} :
          req'[q] = [req[q] EXCEPT !.overtaken = @ \/ Overtaken(q, us, passed)]
    BY <1>1
  <1>3. TypeOK /\ Shapes /\ RevokedIsOwed /\ GoneIsCovered /\ CurrentIsBacked /\ LoginIsBacked
    BY DEF IInv
  <1>4. \A q \in Requests \ {r} :
          /\ req'[q].pc = req[q].pc /\ req'[q].op = req[q].op
          /\ req'[q].todo = req[q].todo /\ req'[q].target = req[q].target
          /\ req'[q].role = req[q].role /\ req'[q].token = req[q].token
          /\ req'[q].to = req[q].to
          /\ req'[q].overtaken = (req[q].overtaken \/ Overtaken(q, us, passed))
          /\ req'[q] \in Request
    <2> TAKE q \in Requests \ {r}
    <2>1. req[q] \in Request
      BY <1>3 DEF TypeOK
    <2>2. Overtaken(q, us, passed) \in BOOLEAN
      BY DEF Overtaken
    <2>3. req'[q] = [req[q] EXCEPT !.overtaken = @ \/ Overtaken(q, us, passed)]
      BY <1>2
    <2>4. req[q].overtaken \in BOOLEAN
      BY <2>1 DEF Request
    <2> QED
      BY <2>1, <2>2, <2>3, <2>4 DEF Request
  <1>5. \A t \in Tokens :
          /\ sessions'[t] = None <=> sessions[t] = None
          /\ sessions[t] # None =>
               /\ sessions[t] \in Session /\ sessions'[t] \in Session
               /\ sessions'[t].user = sessions[t].user
               /\ sessions'[t].role = sessions[t].role
               /\ sessions'[t].standing =
                    IF t # keep /\ sessions[t].user \in us THEN "revoked"
                    ELSE sessions[t].standing
    <2> TAKE t \in Tokens
    <2>1. sessions[t] \in Session \cup {None}
      BY <1>3 DEF TypeOK
    <2>2. sessions'[t] = IF t # keep /\ Live(t) /\ sessions[t].user \in us
                         THEN [sessions[t] EXCEPT !.standing = "revoked"]
                         ELSE sessions[t]
      BY <1>1 DEF MarkRows
    <2>3. ASSUME sessions[t] = None PROVE sessions'[t] = None
      BY <2>2, <2>3 DEF Live
    <2>4. ASSUME sessions[t] # None
          PROVE  /\ sessions[t] \in Session /\ sessions'[t] \in Session
                 /\ sessions'[t] # None
                 /\ sessions'[t].user = sessions[t].user
                 /\ sessions'[t].role = sessions[t].role
                 /\ sessions'[t].standing =
                      IF t # keep /\ sessions[t].user \in us THEN "revoked"
                      ELSE sessions[t].standing
      <3>1. sessions[t] \in Session
        BY <2>1, <2>4
      <3>2. CASE t # keep /\ sessions[t].user \in us
        <4>1. sessions'[t] = [sessions[t] EXCEPT !.standing = "revoked"]
          BY <2>2, <2>4, <3>2 DEF Live
        <4>2. sessions'[t] \in Session
          BY <3>1, <4>1 DEF Session, Standings
        <4> QED
          BY <3>1, <3>2, <4>1, <4>2, NoneAssumption DEF Session
      <3>3. CASE ~(t # keep /\ sessions[t].user \in us)
        BY <2>2, <2>4, <3>1, <3>3 DEF Live
      <3> QED
        BY <3>2, <3>3
    <2> QED
      BY <2>3, <2>4
  <1>6. TypeOK'
    <2>1. sessions' \in [Tokens -> Session \cup {None}]
      BY <1>1, <1>5 DEF MarkRows
    <2>2. req' \in [Requests -> Request]
      BY <1>1, <1>2, <1>4
    <2>3. \A q \in Requests : req'[q].pc = "revoke" => req'[q].todo # {}
      BY <1>2, <1>3, <1>4 DEF TypeOK
    <2> QED
      BY <1>1, <1>3, <2>1, <2>2, <2>3 DEF TypeOK
  <1>7. Shapes'
    BY <1>2, <1>3, <1>4 DEF Shapes, ShapeOf
  <1>8. \A v \in Users, t \in Tokens : Owes(v, t) => OwesNext(v, t) \/ v \in missed'
    BY <1>1, <1>2, <1>4 DEF Owes, OwesNext
  <1>9. \A v \in us, t \in Tokens : t # keep => OwesNext(v, t) \/ v \in missed'
    BY <1>1, <1>2 DEF OwesNext
  <1>10. RevokedIsOwed'
    <2> SUFFICES ASSUME NEW t \in Tokens, sessions'[t] # None,
                        sessions'[t].standing = "revoked"
                 PROVE  OwesNext(sessions[t].user, t) \/ sessions[t].user \in missed'
      BY <1>5 DEF RevokedIsOwed, Live, OwesNext
    <2>1. sessions[t] # None /\ sessions[t].user \in Users
      BY <1>5 DEF Session
    <2>2. sessions[t].standing = "revoked" \/ (t # keep /\ sessions[t].user \in us)
      BY <1>5, <2>1
    <2> HIDE DEF keep
    <2>3. CASE sessions[t].standing = "revoked"
      <3>1. Owes(sessions[t].user, t) \/ sessions[t].user \in missed
        BY <1>3, <2>1, <2>3 DEF RevokedIsOwed, Live, Owes
      <3> QED
        BY <1>1, <1>8, <2>1, <3>1
    <2> QED
      BY <1>9, <2>2, <2>3
  <1>11. \A v \in Users : TakenAway(v) => TakenAwayNext(v)
    BY <1>2, <1>4 DEF TakenAway, TakenAwayNext
  <1>12. GoneIsCovered'
    <2> SUFFICES ASSUME NEW t \in Tokens, sessions'[t] # None,
                        sessions'[t].standing = "revoked",
                        "gone" \in flags'[sessions[t].user]
                 PROVE  sessions[t].user \in missed' \/ TakenAwayNext(sessions[t].user)
      BY <1>5 DEF GoneIsCovered, Live, Exists, TakenAway, TakenAwayNext
    <2> DEFINE v == sessions[t].user
    <2>1. sessions[t] # None /\ v \in Users
      BY <1>5 DEF Session
    <2>2. CASE v \in us \/ Exists(v)
      <3>1. v \in lost \/ (next.op \in {"delete", "rename"} /\ v \in next.todo)
        BY <2>1, <2>2
      <3> QED
        BY <1>1, <1>2, <3>1 DEF TakenAwayNext
    <2>3. CASE v \notin us /\ ~Exists(v)
      <3>1. sessions[t].standing = "revoked"
        BY <1>5, <2>1, <2>3
      <3> QED
        BY <1>1, <1>3, <1>11, <2>1, <2>3, <3>1 DEF GoneIsCovered, Live
    <2> QED
      BY <2>2, <2>3
  <1>13. CurrentIsBacked'
    <2> SUFFICES ASSUME NEW t \in Tokens, sessions'[t] # None,
                        sessions'[t].standing = "current"
                 PROVE  BacksNext(sessions[t].user, sessions[t].role)
      BY <1>5 DEF CurrentIsBacked, Backed, Live, Backs, BacksNext, Unbacked
    <2>1. sessions[t] # None /\ sessions[t] \in Session
      BY <1>5
    <2>2. sessions[t].standing = "current" /\ ~(t # keep /\ sessions[t].user \in us)
      BY <1>5, <2>1
    <2>3. Backs(sessions[t].user, sessions[t].role)
      BY <1>3, <2>1, <2>2 DEF CurrentIsBacked, Backed, Live
    <2>4. sessions[t].user \notin us \/ req[r].token # None
      BY <2>2
    <2>5. sessions[t].user \in Users /\ sessions[t].role \in {"admin", "readonly"}
      BY <2>1 DEF Session
    <2> HIDE DEF keep
    <2> QED
      BY <2>3, <2>4, <2>5
  <1>14. LoginIsBacked'
    <2> SUFFICES ASSUME NEW q \in Requests, ~req'[q].overtaken
                 PROVE  /\ req'[q].pc = "role" => BacksNext(req'[q].target, "readonly")
                        /\ req'[q].pc = "insert" => BacksNext(req'[q].target, req'[q].role)
      BY DEF LoginIsBacked, Backs, BacksNext, Unbacked
    <2>1. CASE q = r
      BY <1>2, <2>1
    <2>2. CASE q # r
      <3>1. ~req[q].overtaken /\ ~Overtaken(q, us, passed)
        BY <1>4, <2>2
      <3>2. /\ req[q].role \in {"admin", "readonly"}
            /\ req[q].pc \in {"role", "insert"} => req[q].target \in Users
        BY <1>3 DEF TypeOK, Shapes, ShapeOf, Request
      <3>3. ASSUME req[q].pc = "insert" PROVE BacksNext(req[q].target, req[q].role)
        <4>1. req[q].target \notin us
          BY <3>1, <3>3 DEF Overtaken, PastBind, PastRole
        <4>2. Backs(req[q].target, req[q].role)
          BY <1>3, <3>1, <3>3 DEF LoginIsBacked
        <4> QED
          BY <3>2, <3>3, <4>1, <4>2
      <3>4. ASSUME req[q].pc = "role" PROVE BacksNext(req[q].target, "readonly")
        <4>1. Backs(req[q].target, "readonly")
          BY <1>3, <3>1, <3>4 DEF LoginIsBacked
        <4>2. CASE passed = PastBind
          <5>1. req[q].target \notin us
            BY <3>1, <3>4, <4>2 DEF Overtaken, PastBind
          <5> QED
            BY <3>2, <3>4, <4>1, <5>1
        <4>3. CASE flags' = flags
          BY <4>1, <4>3 DEF Backs, BacksNext, Unbacked
        <4> QED
          BY <4>2, <4>3
      <3> QED
        BY <1>4, <2>2, <3>3, <3>4
    <2> QED
      BY <2>1, <2>2
  <1> QED
    BY <1>6, <1>7, <1>10, <1>12, <1>13, <1>14 DEF IInv

-----------------------------------------------------------------------------
(* The forms a write takes. *)

\* A write that a handler reports on, applied or lost.
LEMMA WriteKeepsIInv ==
  ASSUME IInv, NEW r \in Requests, NEW us \in SUBSET Users, NEW passed,
         NEW next \in Request, NEW lost \in SUBSET Users,
         flags' \in [Users -> SUBSET Flags], admins' \in SUBSET Users,
         ShapeOf(next), next.pc \notin {"role", "insert"},
         next.pc = "revoke" => next.todo # {},
         us \subseteq next.todo \cup lost,
         next.todo # {} => next.token = req[r].token,
         req[r].todo = {},
         \A v \in Users : "gone" \in flags'[v] /\ (v \in us \/ Exists(v)) =>
           v \in us /\ next.op \in {"delete", "rename"} /\ v \in next.todo,
         \A v \in Users : v \notin us \/ req[r].token # None =>
           \A role \in {"admin", "readonly"} : Backs(v, role) => BacksNext(v, role),
         passed = PastBind \/ (passed = PastRole /\ flags' = flags),
         Write(r, us, passed, next, lost)
  PROVE  IInv'
  <1>1. CASE Commit(r, us, passed, next, lost)
    BY <1>1, CommitKeepsIInv
  <1>2. CASE Commit(r, us, passed, Idle, us)
    <2>1. /\ us \subseteq Idle.todo \cup us
          /\ Idle.pc \notin {"role", "insert"} /\ Idle.pc # "revoke"
          /\ \A v \in Users : "gone" \in flags'[v] /\ (v \in us \/ Exists(v)) => v \in us
      BY IdleFacts
    <2> QED
      BY <1>2, <2>1, IdleFacts, CommitKeepsIInv
  <1> QED
    BY <1>1, <1>2 DEF Write

LEMMA RevokingFacts ==
  ASSUME IInv, NEW r \in Requests, NEW us \in SUBSET Users, us # {}
  PROVE  /\ Revoking(r, us) \in Request
         /\ ShapeOf(Revoking(r, us))
         /\ Revoking(r, us).pc = "revoke"
         /\ Revoking(r, us).todo = us
         /\ Revoking(r, us).token = req[r].token
         /\ Revoking(r, us).op = req[r].op
  <1>1. /\ req[r].op \in AllOps \cup {"login", None}
        /\ req[r].token \in Tokens \cup {None}
        /\ req[r].token # None => req[r].op = "ownPassword"
    BY DEF IInv, TypeOK, Shapes, ShapeOf, Request
  <1>3. Revoking(r, us) \in Request
    BY <1>1 DEF Revoking, Request
  <1>4. /\ Revoking(r, us).pc = "revoke" /\ Revoking(r, us).todo = us
        /\ Revoking(r, us).token = req[r].token /\ Revoking(r, us).op = req[r].op
    BY DEF Revoking
  <1>5. ShapeOf(Revoking(r, us))
    BY <1>1, <1>4 DEF ShapeOf
  <1> QED
    BY <1>3, <1>4, <1>5

LEMMA CleaningUpFacts ==
  ASSUME IInv, NEW r \in Requests, req[r].pc = "write", req[r].op \in {"delete", "rename"}
  PROVE  LET next == CleaningUp(r, req[r].target)
         IN  /\ next \in Request
             /\ ShapeOf(next)
             /\ next.pc = "members"
             /\ next.todo = {req[r].target}
             /\ next.token = req[r].token
             /\ next.op = req[r].op
  <1>1. req[r] \in Request /\ ShapeOf(req[r])
    BY DEF IInv, TypeOK, Shapes
  <1>2. req[r].target \in Users
    BY <1>1 DEF ShapeOf
  <1> QED
    BY <1>1, <1>2, ConstantsAssumption DEF CleaningUp, Request, ShapeOf

\* A handler at its write holds an account, and owes nothing yet.
LEMMA AtWrite ==
  ASSUME IInv, NEW r \in Requests, req[r].pc = "write"
  PROVE  /\ req[r] \in Request
         /\ req[r].op # "updateGroup" => req[r].target \in Users
         /\ req[r].op = "rename" => req[r].to \in Users
         /\ req[r].todo = {}
         /\ req[r].token # None => req[r].op = "ownPassword"
  BY DEF IInv, TypeOK, Shapes, ShapeOf

\* A write to one entry, after which the sessions of that account are owed.
LEMMA WriteEntryKeepsIInv ==
  ASSUME IInv, NEW r \in Requests, req[r].pc = "write",
         NEW u \in Users, NEW new \in SUBSET Flags, NEW next \in Request,
         ShapeOf(next), next.pc \in {"revoke", "members"}, next.todo = {u}, next.token = req[r].token,
         "gone" \in new => next.op \in {"delete", "rename"},
         req[r].token # None => new \cap Unbacked \subseteq flags[u],
         WriteEntry(r, u, new, next)
  PROVE  IInv'
  <1>1. flags \in [Users -> SUBSET Flags] /\ admins \in SUBSET Users
    BY DEF IInv, TypeOK
  <1>2. /\ flags' = [flags EXCEPT ![u] = new] /\ admins' = admins
        /\ Write(r, {u}, PastBind, next, {})
    BY DEF WriteEntry
  <1>3. flags' \in [Users -> SUBSET Flags] /\ admins' \in SUBSET Users
    BY <1>1, <1>2
  <1>4. \A v \in Users : "gone" \in flags'[v] /\ (v \in {u} \/ Exists(v)) =>
          v \in {u} /\ next.op \in {"delete", "rename"} /\ v \in next.todo
    BY <1>1, <1>2 DEF Exists
  <1>5. \A v \in Users : v \notin {u} \/ req[r].token # None =>
          \A role \in {"admin", "readonly"} : Backs(v, role) => BacksNext(v, role)
    BY <1>1, <1>2 DEF Backs, BacksNext, Unbacked
  <1>6. req[r].todo = {}
    BY AtWrite
  <1> HIDE DEF PastBind
  <1> QED
    BY <1>2, <1>3, <1>4, <1>5, <1>6, WriteKeepsIInv

\* A step of one request that takes nothing from anybody: the sessions stay as
\* they are, and so does what the request owes.
LEMMA RequestStepKeepsIInv ==
  ASSUME IInv, NEW r \in Requests, NEW next \in Request,
         ShapeOf(next), next.pc = "revoke" => next.todo # {},
         next.todo = req[r].todo,
         next.todo = {} \/ (next.op = req[r].op /\ next.token = req[r].token),
         next.pc \in {"role", "insert"} /\ ~next.overtaken =>
           BacksNext(next.target, IF next.pc = "role" THEN "readonly" ELSE next.role),
         req' = [req EXCEPT ![r] = next],
         sessions' = sessions, missed' = missed,
         flags' \in [Users -> SUBSET Flags], admins' \in SUBSET Users,
         \A v \in Users : "gone" \in flags'[v] => "gone" \in flags[v],
         \A v \in Users, role \in {"admin", "readonly"} : Backs(v, role) => BacksNext(v, role)
  PROVE  IInv'
  <1>1. TypeOK /\ Shapes /\ RevokedIsOwed /\ GoneIsCovered /\ CurrentIsBacked /\ LoginIsBacked
    BY DEF IInv
  <1>2. req'[r] = next /\ \A q \in Requests \ {r} : req'[q] = req[q]
    BY <1>1 DEF TypeOK
  <1>3. \A q \in Requests : req'[q].todo = req[q].todo
    BY <1>2
  <1>4. \A t \in Tokens : sessions[t] # None =>
          sessions[t].user \in Users /\ sessions[t].role \in {"admin", "readonly"}
    BY <1>1 DEF TypeOK, Session
  <1>5. TypeOK'
    BY <1>1, <1>2 DEF TypeOK
  <1>6. Shapes'
    BY <1>1, <1>2 DEF Shapes, ShapeOf
  <1>7. RevokedIsOwed'
    <2>1. \A q \in Requests : req'[q].todo # {} => req'[q].token = req[q].token
      BY <1>2
    <2> QED
      BY <1>1, <1>3, <2>1 DEF RevokedIsOwed, Live
  <1>8. \A v \in Users : TakenAway(v) => TakenAwayNext(v)
    BY <1>2 DEF TakenAway, TakenAwayNext
  <1>9. GoneIsCovered'
    BY <1>1, <1>4, <1>8 DEF GoneIsCovered, Live, Exists, TakenAway, TakenAwayNext
  <1>10. \A t \in Tokens : sessions[t] # None /\ sessions[t].standing = "current" =>
           BacksNext(sessions[t].user, sessions[t].role)
    BY <1>1, <1>4 DEF CurrentIsBacked, Backed, Live
  <1>11. CurrentIsBacked'
    BY <1>10 DEF CurrentIsBacked, Backed, Backs, BacksNext, Unbacked, Live
  <1>12. LoginIsBacked'
    <2> SUFFICES ASSUME NEW q \in Requests, ~req'[q].overtaken
                 PROVE  /\ req'[q].pc = "role" => BacksNext(req'[q].target, "readonly")
                        /\ req'[q].pc = "insert" => BacksNext(req'[q].target, req'[q].role)
      BY DEF LoginIsBacked, Backs, BacksNext, Unbacked
    <2>1. CASE q = r
      BY <1>2, <2>1
    <2>2. CASE q # r
      <3>1. req'[q] = req[q] /\ req[q] \in Request
        BY <1>1, <1>2, <2>2 DEF TypeOK
      <3>2. req[q].pc \in {"role", "insert"} => req[q].target \in Users
        BY <1>1 DEF Shapes, ShapeOf
      <3>3. /\ req[q].pc = "role" => Backs(req[q].target, "readonly")
            /\ req[q].pc = "insert" => Backs(req[q].target, req[q].role)
        BY <1>1, <3>1 DEF LoginIsBacked
      <3>4. req[q].role \in {"admin", "readonly"}
        BY <3>1 DEF Request
      <3> QED
        BY <3>1, <3>2, <3>3, <3>4
    <2> QED
      BY <2>1, <2>2
  <1> QED
    BY <1>5, <1>6, <1>7, <1>9, <1>11, <1>12 DEF IInv

\* The same, when the directory does not change either.
LEMMA QuietStepKeepsIInv ==
  ASSUME IInv, NEW r \in Requests, NEW next \in Request,
         ShapeOf(next), next.pc = "revoke" => next.todo # {},
         next.todo = req[r].todo,
         next.todo = {} \/ (next.op = req[r].op /\ next.token = req[r].token),
         next.pc \in {"role", "insert"} /\ ~next.overtaken =>
           Backs(next.target, IF next.pc = "role" THEN "readonly" ELSE next.role),
         req' = [req EXCEPT ![r] = next],
         UNCHANGED <<flags, admins, sessions, missed>>
  PROVE  IInv'
  <1>1. flags \in [Users -> SUBSET Flags] /\ admins \in SUBSET Users
    BY DEF IInv, TypeOK
  <1>2. \A v, role : Backs(v, role) => BacksNext(v, role)
    BY DEF Backs, BacksNext, Unbacked
  <1> QED
    BY <1>1, <1>2, RequestStepKeepsIInv

\* Rows that go, whoever deletes them, leave the rest as it was.
LEMMA DeletedRowsKeepIInv ==
  ASSUME IInv, NEW ts \in SUBSET Tokens, sessions' = DeleteRows(ts),
         UNCHANGED <<flags, admins, req, missed>>
  PROVE  IInv'
  <1>1. \A t \in Tokens : sessions'[t] = IF t \in ts THEN None ELSE sessions[t]
    BY DEF DeleteRows
  <1>2. TypeOK'
    BY DEF IInv, TypeOK, DeleteRows
  <1>3. Shapes' /\ LoginIsBacked'
    BY DEF IInv, Shapes, ShapeOf, LoginIsBacked, Backs
  <1>4. RevokedIsOwed'
    BY <1>1 DEF IInv, RevokedIsOwed, Live
  <1>5. GoneIsCovered'
    BY <1>1 DEF IInv, GoneIsCovered, Live, Exists, TakenAway
  <1>6. CurrentIsBacked'
    BY <1>1 DEF IInv, CurrentIsBacked, Live, Backed, Backs
  <1> QED
    BY <1>2, <1>3, <1>4, <1>5, <1>6 DEF IInv

\* Settling the account u: its sessions are deleted but for the one to spare,
\* or it is recorded as missed, or it is gone and someone else's to settle.
LEMMA SettleKeepsIInv ==
  ASSUME IInv, NEW r \in Requests, NEW u \in Users, NEW ts \in SUBSET Tokens,
         req[r].pc = "revoke", u \in req[r].todo, Settle(r, u),
         sessions' = DeleteRows(ts), UNCHANGED <<flags, admins>>,
         missed' \in SUBSET Users,
         \A v \in missed : v \in missed' \/
           (v = u /\ \A t \in Tokens : Live(t) /\ sessions[t].user = u => t \in ts),
         \/ u \in missed'
         \/ \A t \in Tokens \ {req[r].token} : Live(t) /\ sessions[t].user = u => t \in ts
         \/ ~Exists(u) /\ req[r].op \notin {"delete", "rename"}
  PROVE  IInv'
  <1> DEFINE next == IF req[r].todo = {u} THEN Idle ELSE [req[r] EXCEPT !.todo = @ \ {u}]
  <1>1. TypeOK /\ Shapes /\ RevokedIsOwed /\ GoneIsCovered /\ CurrentIsBacked /\ LoginIsBacked
    BY DEF IInv
  <1>2. req[r] \in Request /\ ShapeOf(req[r])
    BY <1>1 DEF TypeOK, Shapes
  <1>3. /\ next \in Request /\ ShapeOf(next) /\ next.pc \in {"idle", "revoke"}
        /\ next.todo = req[r].todo \ {u}
        /\ next.pc = "revoke" => next.todo # {}
        /\ next.todo # {} => next.op = req[r].op /\ next.token = req[r].token
    <2>1. CASE req[r].todo = {u}
      BY <2>1, IdleFacts
    <2>2. CASE req[r].todo # {u}
      BY <1>2, <2>2 DEF Request, ShapeOf
    <2> QED
      BY <2>1, <2>2
  <1>4. req'[r] = next /\ req' = [req EXCEPT ![r] = next]
    BY <1>1 DEF Settle, TypeOK
  <1> HIDE DEF next
  <1>5. \A q \in Requests \ {r} : req'[q] = req[q]
    BY <1>1, <1>4 DEF TypeOK
  <1>6. \A t \in Tokens : sessions'[t] = IF t \in ts THEN None ELSE sessions[t]
    BY DEF DeleteRows
  <1>7. TypeOK'
    <2>1. sessions' \in [Tokens -> Session \cup {None}]
      BY <1>1 DEF TypeOK, DeleteRows
    <2> QED
      BY <1>1, <1>3, <1>4, <1>5, <2>1 DEF TypeOK
  <1>8. Shapes'
    BY <1>1, <1>3, <1>4, <1>5 DEF Shapes, ShapeOf
  <1>9. \A t \in Tokens : Live(t) => sessions[t].user \in Users
    BY <1>1 DEF TypeOK, Live, Session
  <1>10. RevokedIsOwed'
    <2> SUFFICES ASSUME NEW t \in Tokens, t \notin ts, Live(t), sessions[t].standing = "revoked"
                 PROVE  sessions[t].user \in missed' \/ OwesNext(sessions[t].user, t)
      BY <1>6 DEF RevokedIsOwed, Live, OwesNext
    <2>1. sessions[t].user \in missed \/ Owes(sessions[t].user, t)
      BY <1>1 DEF RevokedIsOwed, Owes
    <2>2. CASE sessions[t].user # u
      BY <1>3, <1>4, <1>5, <1>9, <2>1, <2>2 DEF Owes, OwesNext
    <2>3. CASE sessions[t].user = u /\ u \in missed'
      BY <2>3
    <2>4. CASE sessions[t].user = u /\ t = req[r].token
      BY <1>5, <2>1, <2>4 DEF Owes, OwesNext
    <2>5. CASE sessions[t].user = u /\ ~Exists(u) /\ req[r].op \notin {"delete", "rename"}
      <3>1. u \in missed \/ TakenAway(u)
        BY <1>1, <2>5 DEF GoneIsCovered
      <3>2. \A q \in Requests : req[q].op \in {"delete", "rename"} => req[q].token # t
        BY <1>1, ConstantsAssumption DEF Shapes, ShapeOf
      <3> QED
        BY <1>5, <2>5, <3>1, <3>2 DEF TakenAway, OwesNext
    <2> QED
      BY <2>2, <2>3, <2>4, <2>5
  <1>11. GoneIsCovered'
    <2> SUFFICES ASSUME NEW t \in Tokens, t \notin ts, Live(t),
                        sessions[t].standing = "revoked", ~Exists(sessions[t].user)
                 PROVE  sessions[t].user \in missed' \/ TakenAwayNext(sessions[t].user)
      BY <1>6 DEF GoneIsCovered, Live, Exists, TakenAwayNext, TakenAway
    <2>1. sessions[t].user \in missed \/ TakenAway(sessions[t].user)
      BY <1>1 DEF GoneIsCovered
    <2>2. CASE sessions[t].user # u
      BY <1>3, <1>4, <1>5, <1>9, <2>1, <2>2 DEF TakenAway, TakenAwayNext
    <2>3. CASE sessions[t].user = u
      <3>1. u \in missed' \/ t = req[r].token \/ req[r].op \notin {"delete", "rename"}
        BY <2>3
      <3>2. t = req[r].token => req[r].op \notin {"delete", "rename"}
        BY <1>2, ConstantsAssumption DEF ShapeOf
      <3> QED
        BY <1>5, <2>1, <2>3, <3>1, <3>2 DEF TakenAway, TakenAwayNext
    <2> QED
      BY <2>2, <2>3
  <1>12. CurrentIsBacked'
    BY <1>1, <1>6 DEF CurrentIsBacked, Live, Backed, Backs
  <1>13. LoginIsBacked'
    BY <1>1, <1>3, <1>4, <1>5 DEF LoginIsBacked, Backs
  <1> QED
    BY <1>7, <1>8, <1>10, <1>11, <1>12, <1>13 DEF IInv

\* A change that no request made: the sessions it took something from count
\* as changed elsewhere, and the sign-ins it overtook as overtaken.  If the entry
\* goes, a revocation on its way is missed.
LEMMA ElsewhereKeepsIInv ==
  ASSUME IInv, NEW u \in Users, NEW passed, NEW slots,
         \A q \in Requests : slots[q] = req[q] \/ (slots[q] = Idle /\ req[q].todo = {}),
         flags' \in [Users -> SUBSET Flags], admins' \in SUBSET Users,
         missed' \in SUBSET Users, missed \subseteq missed',
         \A v \in Users \ {u} : flags'[v] = flags[v] /\ (v \in admins => v \in admins'),
         passed = PastBind \/ (passed = PastRole /\ flags' = flags),
         "gone" \in flags'[u] => (Pending(u) => u \in missed'),
         ChangedElsewhere(u, passed, slots)
  PROVE  IInv'
  <1> USE ConstantsAssumption
  <1>1. /\ sessions' = [t \in Tokens |->
              IF Live(t) /\ sessions[t].user = u /\ sessions[t].standing = "current"
              THEN [sessions[t] EXCEPT !.standing = "elsewhere"]
              ELSE sessions[t]]
        /\ req' = [q \in Requests |->
              [slots[q] EXCEPT !.overtaken = @ \/ Overtaken(q, {u}, passed)]]
    BY DEF ChangedElsewhere
  <1>2. TypeOK /\ Shapes /\ RevokedIsOwed /\ GoneIsCovered /\ CurrentIsBacked /\ LoginIsBacked
    BY DEF IInv
  <1>3. \A q \in Requests :
          /\ req'[q] \in Request
          /\ req'[q].pc = slots[q].pc /\ req'[q].op = slots[q].op
          /\ req'[q].todo = slots[q].todo /\ req'[q].target = slots[q].target
          /\ req'[q].role = slots[q].role /\ req'[q].token = slots[q].token
          /\ req'[q].to = slots[q].to
          /\ req'[q].overtaken = (slots[q].overtaken \/ Overtaken(q, {u}, passed))
    <2> TAKE q \in Requests
    <2>1. slots[q] \in Request
      BY <1>2, IdleFacts DEF TypeOK
    <2>2. Overtaken(q, {u}, passed) \in BOOLEAN
      BY DEF Overtaken
    <2>3. req'[q] = [slots[q] EXCEPT !.overtaken = @ \/ Overtaken(q, {u}, passed)]
      BY <1>1
    <2> QED
      BY <2>1, <2>2, <2>3 DEF Request
  <1>4. \A q \in Requests : req'[q].todo = req[q].todo
    BY <1>3, IdleFacts
  <1>5. \A q \in Requests : req[q].todo # {} => slots[q] = req[q]
    OBVIOUS
  <1>6. \A t \in Tokens :
          /\ sessions'[t] = None <=> sessions[t] = None
          /\ sessions[t] # None =>
               /\ sessions[t] \in Session /\ sessions'[t] \in Session
               /\ sessions'[t].user = sessions[t].user
               /\ sessions'[t].role = sessions[t].role
               /\ sessions'[t].standing = "revoked" => sessions[t].standing = "revoked"
               /\ sessions'[t].standing = "current" =>
                    sessions[t].standing = "current" /\ sessions[t].user # u
    <2> TAKE t \in Tokens
    <2>1. sessions[t] \in Session \cup {None}
      BY <1>2 DEF TypeOK
    <2>2. CASE Live(t) /\ sessions[t].user = u /\ sessions[t].standing = "current"
      <3>1. sessions'[t] = [sessions[t] EXCEPT !.standing = "elsewhere"]
        BY <1>1, <2>2
      <3>2. sessions[t] \in Session
        BY <2>1, <2>2 DEF Live
      <3>3. /\ sessions'[t] \in Session /\ sessions'[t].standing = "elsewhere"
            /\ sessions'[t].user = sessions[t].user /\ sessions'[t].role = sessions[t].role
        BY <3>1, <3>2 DEF Session, Standings
      <3> QED
        BY <2>2, <3>2, <3>3, NoneAssumption DEF Live
    <2>3. CASE ~(Live(t) /\ sessions[t].user = u /\ sessions[t].standing = "current")
      BY <1>1, <2>1, <2>3 DEF Live
    <2> QED
      BY <2>2, <2>3
  <1>7. TypeOK'
    <2>1. sessions' \in [Tokens -> Session \cup {None}]
      BY <1>1, <1>6
    <2>2. req' \in [Requests -> Request]
      BY <1>1, <1>3
    <2>3. \A q \in Requests : req'[q].pc = "revoke" => req'[q].todo # {}
      BY <1>2, <1>3, IdleFacts DEF TypeOK
    <2> QED
      BY <2>1, <2>2, <2>3 DEF TypeOK
  <1>8. Shapes'
    <2>1. \A q \in Requests : ShapeOf(slots[q])
      BY <1>2, IdleFacts DEF Shapes
    <2> QED
      BY <1>3, <2>1 DEF Shapes, ShapeOf
  <1>9. \A v \in Users, t \in Tokens : Owes(v, t) => OwesNext(v, t)
    BY <1>3, <1>4, <1>5 DEF Owes, OwesNext
  <1>10. \A v \in Users : TakenAway(v) => TakenAwayNext(v)
    BY <1>3, <1>4, <1>5 DEF TakenAway, TakenAwayNext
  <1>11. RevokedIsOwed'
    <2> SUFFICES ASSUME NEW t \in Tokens, sessions'[t] # None,
                        sessions'[t].standing = "revoked"
                 PROVE  OwesNext(sessions[t].user, t) \/ sessions[t].user \in missed'
      BY <1>6 DEF RevokedIsOwed, Live, OwesNext
    <2>1. sessions[t] # None /\ sessions[t].user \in Users /\ sessions[t].standing = "revoked"
      BY <1>6 DEF Session
    <2>2. Owes(sessions[t].user, t) \/ sessions[t].user \in missed
      BY <1>2, <2>1 DEF RevokedIsOwed, Live, Owes
    <2> QED
      BY <1>9, <2>1, <2>2
  <1>12. GoneIsCovered'
    <2> SUFFICES ASSUME NEW t \in Tokens, sessions'[t] # None,
                        sessions'[t].standing = "revoked",
                        "gone" \in flags'[sessions[t].user]
                 PROVE  sessions[t].user \in missed' \/ TakenAwayNext(sessions[t].user)
      BY <1>6 DEF GoneIsCovered, Live, Exists, TakenAway, TakenAwayNext
    <2>1. sessions[t] # None /\ sessions[t].user \in Users /\ sessions[t].standing = "revoked"
      BY <1>6 DEF Session
    <2>2. CASE sessions[t].user = u
      <3>1. u \in missed \/ Pending(u)
        BY <1>2, <2>1, <2>2 DEF RevokedIsOwed, Live, Pending
      <3> QED
        BY <2>2, <3>1
    <2>3. CASE sessions[t].user # u
      <3>1. ~Exists(sessions[t].user)
        BY <2>1, <2>3 DEF Exists
      <3> QED
        BY <1>2, <1>10, <2>1, <3>1 DEF GoneIsCovered, Live
    <2> QED
      BY <2>2, <2>3
  <1>13. \A v \in Users \ {u} : \A role : Backs(v, role) => BacksNext(v, role)
    BY DEF Backs, BacksNext, Unbacked
  <1>14. CurrentIsBacked'
    <2> SUFFICES ASSUME NEW t \in Tokens, sessions'[t] # None,
                        sessions'[t].standing = "current"
                 PROVE  BacksNext(sessions[t].user, sessions[t].role)
      BY <1>6 DEF CurrentIsBacked, Backed, Live, Backs, BacksNext, Unbacked
    <2>1. /\ sessions[t] # None /\ sessions[t].user \in Users \ {u}
          /\ sessions[t].standing = "current"
      BY <1>6 DEF Session
    <2>2. Backs(sessions[t].user, sessions[t].role)
      BY <1>2, <2>1 DEF CurrentIsBacked, Backed, Live
    <2> QED
      BY <1>13, <2>1, <2>2
  <1>15. LoginIsBacked'
    <2> SUFFICES ASSUME NEW q \in Requests, ~req'[q].overtaken
                 PROVE  /\ req'[q].pc = "role" => BacksNext(req'[q].target, "readonly")
                        /\ req'[q].pc = "insert" => BacksNext(req'[q].target, req'[q].role)
      BY DEF LoginIsBacked, Backs, BacksNext, Unbacked
    <2>1. CASE slots[q] = Idle
      BY <1>3, <2>1, IdleFacts
    <2>2. CASE slots[q] = req[q]
      <3>1. ~req[q].overtaken /\ ~Overtaken(q, {u}, passed)
        BY <1>3, <2>2
      <3>2. req[q].pc \in {"role", "insert"} => req[q].target \in Users
        BY <1>2 DEF Shapes, ShapeOf
      <3>3. ASSUME req[q].pc = "insert" PROVE BacksNext(req[q].target, req[q].role)
        <4>1. req[q].target \in Users \ {u}
          BY <3>1, <3>2, <3>3 DEF Overtaken, PastBind, PastRole
        <4>2. Backs(req[q].target, req[q].role)
          BY <1>2, <3>1, <3>3 DEF LoginIsBacked
        <4> QED
          BY <1>13, <4>1, <4>2
      <3>4. ASSUME req[q].pc = "role" PROVE BacksNext(req[q].target, "readonly")
        <4>1. Backs(req[q].target, "readonly")
          BY <1>2, <3>1, <3>4 DEF LoginIsBacked
        <4>2. CASE passed = PastBind
          <5>1. req[q].target \in Users \ {u}
            BY <3>1, <3>2, <3>4, <4>2 DEF Overtaken, PastBind
          <5> QED
            BY <1>13, <4>1, <5>1
        <4>3. CASE flags' = flags
          BY <4>1, <4>3 DEF Backs, BacksNext, Unbacked
        <4> QED
          BY <4>2, <4>3
      <3> QED
        BY <1>3, <2>2, <3>3, <3>4
    <2> QED
      BY <2>1, <2>2
  <1> QED
    BY <1>7, <1>8, <1>11, <1>12, <1>14, <1>15 DEF IInv

\* ppolicy's lock leaves the entry where it is.
LEMMA LockOutKeepsIInv ==
  ASSUME IInv, NEW u \in Users, NEW slots,
         \A q \in Requests : slots[q] = req[q] \/ (slots[q] = Idle /\ req[q].todo = {}),
         LockOut(u, slots), UNCHANGED <<admins, missed>>
  PROVE  IInv'
  <1>1. /\ flags \in [Users -> SUBSET Flags] /\ admins \in SUBSET Users
        /\ missed \in SUBSET Users
    BY DEF IInv, TypeOK
  <1>2. /\ flags' = [flags EXCEPT ![u] = flags[u] \cup {"lockedOut"}]
        /\ flags[u] \subseteq {"ending"}
        /\ ChangedElsewhere(u, PastBind, slots)
    BY DEF LockOut, LockedOut, Accepts
  <1>3. /\ flags' \in [Users -> SUBSET Flags] /\ "gone" \notin flags'[u]
        /\ \A v \in Users \ {u} : flags'[v] = flags[v]
    BY <1>1, <1>2 DEF Flags
  <1> HIDE DEF PastBind
  <1> QED
    BY <1>1, <1>2, <1>3, ElsewhereKeepsIInv

-----------------------------------------------------------------------------
(* Sign-in, sign-out and the life of a session. *)

LEMMA LoginKeepsIInv ==
  ASSUME IInv, NEW r \in Requests, Login(r) \/ \E u \in Users : BeginLogin(r, u)
  PROVE  IInv'
  <1>1. req[r] \in Request /\ ShapeOf(req[r]) /\ LoginIsBacked /\ TypeOK
    BY DEF IInv, TypeOK, Shapes
  <1>2. ASSUME NEW u \in Users, BeginLogin(r, u) PROVE IInv'
    <2> DEFINE next == [Idle EXCEPT !.pc = "bind", !.op = "login", !.target = u]
    <2>1. /\ next \in Request /\ ShapeOf(next) /\ next.pc = "bind"
          /\ next.todo = {} /\ req[r].todo = {}
      BY <1>2, IdleFacts DEF BeginLogin, Idle, Request, ShapeOf
    <2> QED
      BY <1>2, <2>1, QuietStepKeepsIInv DEF BeginLogin
  <1>3. ASSUME Bind(r) PROVE IInv'
    <2>1. CASE req' = [req EXCEPT ![r] = Idle] /\ UNCHANGED <<flags, sessions>>
      BY <1>1, <1>3, <2>1, IdleFacts, QuietStepKeepsIInv DEF Bind, ShapeOf
    <2>2. CASE /\ Accepts(req[r].target) /\ req' = [req EXCEPT ![r].pc = "role"]
               /\ UNCHANGED <<flags, sessions>>
      <3> DEFINE next == [req[r] EXCEPT !.pc = "role"]
      <3>1. /\ next \in Request /\ ShapeOf(next) /\ next.pc = "role"
            /\ next.todo = {} /\ req[r].todo = {} /\ next.target = req[r].target
        BY <1>1, <1>3 DEF Bind, Request, ShapeOf
      <3>2. Backs(req[r].target, "readonly")
        BY <1>1, <1>3, <2>2 DEF Bind, Accepts, Backs, TypeOK, ShapeOf
      <3>3. req' = [req EXCEPT ![r] = next]
        BY <2>2
      <3> QED
        BY <1>3, <2>2, <3>1, <3>2, <3>3, QuietStepKeepsIInv DEF Bind
    <2>3. CASE LockOut(req[r].target, [req EXCEPT ![r] = Idle])
      <3> DEFINE slots == [req EXCEPT ![r] = Idle]
      <3>1. req[r].target \in Users /\ req[r].todo = {}
        BY <1>1, <1>3 DEF Bind, ShapeOf
      <3>2. \A q \in Requests : slots[q] = req[q] \/ (slots[q] = Idle /\ req[q].todo = {})
        BY <1>1, <3>1 DEF TypeOK
      <3>3. UNCHANGED <<admins, missed>>
        BY <1>3 DEF Bind
      <3> HIDE DEF slots
      <3>4. LockOut(req[r].target, slots)
        BY <2>3 DEF slots
      <3> QED
        BY <3>1, <3>2, <3>3, <3>4, LockOutKeepsIInv
    <2> QED
      BY <1>3, <2>1, <2>2, <2>3 DEF Bind
  <1>4. ASSUME ReadRole(r) PROVE IInv'
    <2>1. PICK role \in {"readonly", IF req[r].target \in admins THEN "admin" ELSE "readonly"} :
            req' = [req EXCEPT ![r].pc = "insert", ![r].role = role]
      BY <1>4 DEF ReadRole
    <2> DEFINE next == [req[r] EXCEPT !.pc = "insert", !.role = role]
    <2>2. req' = [req EXCEPT ![r] = next]
      BY <1>1, <2>1 DEF TypeOK, Request
    <2>3. /\ next \in Request /\ ShapeOf(next) /\ next.pc = "insert"
          /\ next.todo = {} /\ req[r].todo = {} /\ next.target = req[r].target
          /\ next.role = role /\ next.overtaken = req[r].overtaken
      BY <1>1, <1>4 DEF ReadRole, Request, ShapeOf
    <2>4. ~req[r].overtaken => Backs(req[r].target, role)
      BY <1>1, <1>4 DEF ReadRole, LoginIsBacked, Backs
    <2> QED
      BY <1>4, <2>2, <2>3, <2>4, QuietStepKeepsIInv DEF ReadRole
  <1>5. ASSUME InsertSession(r) PROVE IInv'
    <2>1. /\ req[r].pc = "insert" /\ req' = [req EXCEPT ![r] = Idle]
          /\ UNCHANGED <<flags, admins, missed>>
      BY <1>5 DEF InsertSession
    <2>2. req[r].todo = {} /\ Idle.todo = {}
      BY <1>1, <2>1, IdleFacts DEF ShapeOf
    <2>3. CASE UNCHANGED sessions
      BY <2>1, <2>2, <2>3, IdleFacts, QuietStepKeepsIInv
    <2>4. CASE sessions' # sessions
      <3>1. PICK t \in Tokens :
              /\ FreeToken(t)
              /\ sessions' = [sessions EXCEPT ![t] =
                   [user |-> req[r].target, role |-> req[r].role,
                    standing |-> IF req[r].overtaken THEN "overtaken" ELSE "current"]]
        BY <1>5, <2>4 DEF InsertSession
      <3>2. /\ sessions'[t] \in Session
            /\ sessions'[t].user = req[r].target /\ sessions'[t].role = req[r].role
            /\ sessions'[t].standing # "revoked"
            /\ sessions'[t].standing = "current" => ~req[r].overtaken
            /\ sessions' \in [Tokens -> Session \cup {None}]
            /\ \A k \in Tokens \ {t} : sessions'[k] = sessions[k]
        <4>1. [user |-> req[r].target, role |-> req[r].role,
               standing |-> IF req[r].overtaken THEN "overtaken" ELSE "current"] \in Session
          BY <1>1, <2>1 DEF Session, Standings, Request, ShapeOf
        <4> QED
          BY <1>1, <3>1, <4>1 DEF TypeOK
      <3>3. \A q \in Requests :
              req'[q].todo = req[q].todo /\ (q # r => req'[q] = req[q])
        BY <1>1, <2>1, <2>2 DEF TypeOK
      <3>4. req'[r] = Idle
        BY <1>1, <2>1 DEF TypeOK
      <3>5. TypeOK'
        BY <1>1, <2>1, <3>2, <3>3, <3>4, IdleFacts DEF TypeOK
      <3>6. Shapes'
        <4>1. ASSUME NEW q \in Requests, q # r PROVE ShapeOf(req'[q])
          <5>1. req'[q] = req[q] /\ ShapeOf(req[q])
            BY <3>3, <4>1 DEF IInv, Shapes
          <5> QED
            BY <5>1
        <4>2. ShapeOf(req'[r])
          BY <3>4, IdleFacts
        <4> QED
          BY <4>1, <4>2 DEF Shapes, ShapeOf
      <3>7. RevokedIsOwed'
        BY <2>1, <2>2, <3>2, <3>3 DEF IInv, RevokedIsOwed, Live
      <3>8. GoneIsCovered'
        BY <2>1, <2>2, <3>2, <3>3 DEF IInv, GoneIsCovered, Live, Exists, TakenAway
      <3>9. CurrentIsBacked'
        BY <1>1, <2>1, <3>2 DEF IInv, CurrentIsBacked, LoginIsBacked, Live, Backed, Backs
      <3>10. LoginIsBacked'
        BY <1>1, <2>1, <3>3, <3>4, IdleFacts DEF LoginIsBacked, Backs
      <3> QED
        BY <3>5, <3>6, <3>7, <3>8, <3>9, <3>10 DEF IInv
    <2> QED
      BY <2>3, <2>4
  <1> QED
    BY <1>2, <1>3, <1>4, <1>5 DEF Login

LEMMA LogoutKeepsIInv ==
  ASSUME IInv, NEW t \in Tokens, Logout(t) \/ Expire(t)
  PROVE  IInv'
  BY DeletedRowsKeepIInv DEF Logout, Expire

-----------------------------------------------------------------------------
(* The handlers up to the write. *)

LEMMA RequestKeepsIInv ==
  ASSUME IInv, NEW r \in Requests,
         \/ \E t \in Tokens, op \in AllOps : BeginRequest(r, t, op)
         \/ \E u \in Users : BeginReset(r, u)
         \/ Audit(r) \/ Refused(r)
  PROVE  IInv'
  <1>1. req[r] \in Request /\ ShapeOf(req[r]) /\ TypeOK
    BY DEF IInv, TypeOK, Shapes
  <1>2. ASSUME NEW t, NEW op \in AllOps, NEW u \in Users \cup {None}, NEW to \in Users \cup {None},
               NEW wanted \in SUBSET Users,
               op = "ownPassword" => t \in Tokens,
               op # "updateGroup" => u \in Users,
               op = "rename" => to \in Users,
               req[r] = Idle,
               req' = [req EXCEPT ![r] = Started(t, op, u, to, wanted)],
               UNCHANGED <<flags, admins, sessions, missed>>
        PROVE  IInv'
    <2> DEFINE new == Started(t, op, u, to, wanted)
    <2>1. /\ new.pc = "audit" /\ new.todo = {} /\ new.target = u /\ new.to = to
          /\ new.op = op /\ new.token = (IF op = "ownPassword" THEN t ELSE None)
      BY DEF Idle, Started
    <2>2. new \in Request
      <3>1. admins \in SUBSET Users
        BY <1>1 DEF TypeOK
      <3> QED
        BY <1>2, <3>1 DEF Started, Idle, Request
    <2>3. ShapeOf(new)
      BY <1>2, <2>1 DEF ShapeOf
    <2>4. req[r].todo = {} /\ req' = [req EXCEPT ![r] = new]
      BY <1>2, IdleFacts
    <2> HIDE DEF new
    <2> QED
      BY <1>2, <2>1, <2>2, <2>3, <2>4, QuietStepKeepsIInv
  <1>3. ASSUME Audit(r) \/ Refused(r), req' = [req EXCEPT ![r] = Idle] PROVE IInv'
    BY <1>1, <1>3, IdleFacts, QuietStepKeepsIInv DEF Audit, Refused, ShapeOf
  <1>4. ASSUME Audit(r), req' = [req EXCEPT ![r].pc = "write"] PROVE IInv'
    <2> DEFINE next == [req[r] EXCEPT !.pc = "write"]
    <2>1. /\ next \in Request /\ ShapeOf(next) /\ next.pc = "write"
          /\ next.todo = {} /\ req[r].todo = {}
      BY <1>1, <1>4 DEF Audit, Request, ShapeOf
    <2>2. req' = [req EXCEPT ![r] = next]
      BY <1>4
    <2> HIDE DEF next
    <2> QED
      BY <1>4, <2>1, <2>2, QuietStepKeepsIInv DEF Audit
  <1>5. CASE \E t \in Tokens, op \in AllOps : BeginRequest(r, t, op)
    <2>1. PICK t \in Tokens, op \in AllOps : BeginRequest(r, t, op)
      BY <1>5
    <2>2. PICK u, to \in Users \cup {None}, wanted \in SUBSET Users :
            /\ IF op = "updateGroup" THEN u = None ELSE u \in Users /\ wanted = {}
            /\ IF op = "rename" THEN to \in Users /\ ~Exists(to) ELSE to = None
            /\ req' = [req EXCEPT ![r] = Started(t, op, u, to, wanted)]
      BY <2>1 DEF BeginRequest
    <2>3. req[r] = Idle /\ UNCHANGED <<flags, admins, sessions, missed>>
      BY <2>1 DEF BeginRequest
    <2> QED
      BY <1>2, <2>2, <2>3
  <1>6. CASE \E u \in Users : BeginReset(r, u)
    BY <1>2, <1>6 DEF BeginReset, AllOps
  <1> QED
    BY <1>3, <1>4, <1>5, <1>6 DEF Audit, Refused

-----------------------------------------------------------------------------
(* The writes to an entry. *)

LEMMA EntryWritesKeepIInv ==
  ASSUME IInv, NEW r \in Requests,
         \/ LockUser(r) \/ SetPassword(r) \/ ChangeMyPassword(r)
         \/ RemovePassword(r) \/ SetExpiration(r) \/ DeleteUser(r)
  PROVE  IInv'
  <1> DEFINE u == req[r].target
  <1>1. req[r].pc = "write" /\ req[r].op # "updateGroup"
    BY DEF LockUser, SetPassword, ChangeMyPassword, RemovePassword, SetExpiration, DeleteUser, At
  <1>2. u \in Users /\ (req[r].token # None => req[r].op = "ownPassword")
    BY <1>1, AtWrite
  <1>3. flags[u] \in SUBSET Flags
    BY <1>2 DEF IInv, TypeOK
  <1>4. /\ Revoking(r, {u}) \in Request /\ ShapeOf(Revoking(r, {u}))
        /\ Revoking(r, {u}).pc = "revoke" /\ Revoking(r, {u}).todo = {u}
        /\ Revoking(r, {u}).op = req[r].op /\ Revoking(r, {u}).token = req[r].token
    BY <1>2, RevokingFacts
  <1> HIDE DEF u
  <1>5. ASSUME NEW new \in SUBSET Flags, "gone" \notin new \/ new = flags[u],
               req[r].op = "ownPassword" => new \subseteq flags[u],
               WriteEntry(r, u, new, Revoking(r, {u}))
        PROVE  IInv'
    <2>1. "gone" \notin new
      BY <1>5 DEF WriteEntry, Exists
    <2> QED
      BY <1>1, <1>2, <1>4, <1>5, <2>1, WriteEntryKeepsIInv
  <1>6. ASSUME LockUser(r) PROVE IInv'
    <2>1. WriteEntry(r, u, Locked(u), Revoking(r, {u})) /\ req[r].op # "ownPassword"
      BY <1>6 DEF LockUser, At, u
    <2>2. Locked(u) \in SUBSET Flags /\ "gone" \notin Locked(u)
      BY <1>3, <2>1 DEF Locked, Flags, WriteEntry, Exists
    <2> QED
      BY <1>5, <2>1, <2>2
  <1>7. ASSUME SetPassword(r) \/ ChangeMyPassword(r) PROVE IInv'
    <2>1. WriteEntry(r, u, WithPassword(u), Revoking(r, {u}))
      BY <1>7 DEF SetPassword, ChangeMyPassword, u
    <2>2. /\ WithPassword(u) \in SUBSET Flags /\ "gone" \notin WithPassword(u)
          /\ WithPassword(u) \subseteq flags[u]
      BY <1>3, <2>1 DEF WithPassword, Flags, WriteEntry, Exists
    <2> QED
      BY <1>5, <2>1, <2>2
  <1>8. ASSUME RemovePassword(r) PROVE IInv'
    <2>1. WriteEntry(r, u, WithoutPassword(u), Revoking(r, {u})) /\ req[r].op # "ownPassword"
      BY <1>8 DEF RemovePassword, At, u
    <2>2. WithoutPassword(u) \in SUBSET Flags /\ "gone" \notin WithoutPassword(u)
      BY <1>3, <2>1 DEF WithoutPassword, Flags, WriteEntry, Exists
    <2> QED
      BY <1>5, <2>1, <2>2
  <1>9. ASSUME SetExpiration(r) PROVE IInv'
    <2>1. PICK past \in BOOLEAN : WriteEntry(r, u, Ending(u, past), Revoking(r, {u}))
      BY <1>9 DEF SetExpiration, u
    <2>2. Ending(u, past) \in SUBSET Flags /\ "gone" \notin Ending(u, past)
      BY <1>3, <2>1 DEF Ending, Flags, WriteEntry, Exists
    <2>3. req[r].op # "ownPassword"
      BY <1>9 DEF SetExpiration, At
    <2> QED
      BY <1>5, <2>1, <2>2, <2>3
  <1>10. ASSUME DeleteUser(r) PROVE IInv'
    <2>1. WriteEntry(r, u, {"gone"}, CleaningUp(r, u)) /\ req[r].op = "delete"
      BY <1>10 DEF DeleteUser, At, u
    <2>2. /\ CleaningUp(r, u) \in Request /\ ShapeOf(CleaningUp(r, u))
          /\ CleaningUp(r, u).pc = "members" /\ CleaningUp(r, u).todo = {u}
          /\ CleaningUp(r, u).op = "delete" /\ CleaningUp(r, u).token = req[r].token
      BY <1>1, <2>1, CleaningUpFacts DEF u
    <2>3. {"gone"} \in SUBSET Flags /\ req[r].token = None
      BY <1>2, <2>1 DEF Flags
    <2> QED
      BY <1>1, <1>2, <2>1, <2>2, <2>3, WriteEntryKeepsIInv
  <1> QED
    BY <1>6, <1>7, <1>8, <1>9, <1>10

\* Unlocking, clearing an expiry, creating an account: nobody loses anything.
LEMMA HarmlessWritesKeepIInv ==
  ASSUME IInv, NEW r \in Requests,
         UnlockUser(r) \/ ClearExpiration(r) \/ CreateUser(r) \/ JoinGroups(r)
  PROVE  IInv'
  <1> DEFINE u == req[r].target
  <1>1. req[r] \in Request /\ ShapeOf(req[r]) /\ TypeOK
    BY DEF IInv, TypeOK, Shapes
  <1>2. u \in Users /\ req[r].todo = {}
    BY <1>1 DEF UnlockUser, ClearExpiration, CreateUser, JoinGroups, At, ShapeOf
  <1>3. ASSUME UnlockUser(r) \/ ClearExpiration(r) PROVE IInv'
    <2>1. PICK new \in {Unlocked(u), NotEnding(u)} : WriteHarmless(r, u, new)
      BY <1>3 DEF UnlockUser, ClearExpiration
    <2>2. flags' = [flags EXCEPT ![u] = new] /\ new \subseteq flags[u]
      BY <2>1 DEF WriteHarmless, Unlocked, NotEnding
    <2>3. /\ flags' \in [Users -> SUBSET Flags] /\ admins' \in SUBSET Users
          /\ \A v \in Users : flags'[v] \subseteq flags[v]
          /\ admins' = admins
      BY <1>1, <1>2, <2>1, <2>2 DEF TypeOK, WriteHarmless
    <2>4. \A v \in Users, role \in {"admin", "readonly"} : Backs(v, role) => BacksNext(v, role)
      BY <2>3 DEF Backs, BacksNext, Unbacked
    <2> QED
      BY <1>2, <2>1, <2>3, <2>4, IdleFacts, RequestStepKeepsIInv DEF WriteHarmless
  <1>4. ASSUME CreateUser(r) PROVE IInv'
    <2>1. PICK new \in {{}, {"noPassword"}} : flags' = [flags EXCEPT ![u] = new]
      BY <1>4 DEF CreateUser
    <2> DEFINE next == [req[r] EXCEPT !.pc = "members"]
    <2>2. /\ flags' \in [Users -> SUBSET Flags] /\ admins' \in SUBSET Users
          /\ \A v \in Users : "gone" \in flags'[v] => "gone" \in flags[v]
      BY <1>1, <1>2, <1>4, <2>1 DEF TypeOK, Flags, CreateUser
    <2>3. "gone" \in flags[u] /\ admins' = admins
      BY <1>4 DEF CreateUser, Exists
    <2>4. \A v \in Users, role \in {"admin", "readonly"} : Backs(v, role) => BacksNext(v, role)
      BY <1>1, <1>2, <2>1, <2>3 DEF TypeOK, Backs, BacksNext, Unbacked
    <2>5. /\ next \in Request /\ ShapeOf(next) /\ next.pc = "members" /\ next.todo = {}
      BY <1>1, <1>2, <1>4 DEF CreateUser, At, Request, ShapeOf
    <2>6. req' = [req EXCEPT ![r] = next]
      BY <1>4 DEF CreateUser
    <2> HIDE DEF next
    <2> QED
      BY <1>2, <1>4, <2>2, <2>4, <2>5, <2>6, RequestStepKeepsIInv DEF CreateUser
  <1>5. ASSUME JoinGroups(r) PROVE IInv'
    <2>1. flags' = flags /\ admins \subseteq admins' /\ admins' \in SUBSET Users
      BY <1>1, <1>2, <1>5 DEF JoinGroups, TypeOK
    <2>2. \A v \in Users, role \in {"admin", "readonly"} : Backs(v, role) => BacksNext(v, role)
      BY <2>1 DEF Backs, BacksNext, Unbacked
    <2> QED
      BY <1>1, <1>2, <1>5, <2>1, <2>2, IdleFacts, RequestStepKeepsIInv DEF JoinGroups, TypeOK
  <1> QED
    BY <1>3, <1>4, <1>5

-----------------------------------------------------------------------------
(* The writes to the admin group, and what follows a delete or a rename. *)

\* Only those who leave the group, and exist, lose anything.
LEMMA MembersFacts ==
  ASSUME IInv, NEW us \in SUBSET Users, flags' = flags, admins' \in SUBSET Users,
         \A v \in admins \ admins' : Exists(v) => v \in us,
         \A v \in us : Exists(v)
  PROVE  /\ flags' \in [Users -> SUBSET Flags]
         /\ \A v \in Users : ~("gone" \in flags'[v] /\ (v \in us \/ Exists(v)))
         /\ \A v \in Users : v \notin us =>
              \A role \in {"admin", "readonly"} : Backs(v, role) => BacksNext(v, role)
  <1>1. flags \in [Users -> SUBSET Flags]
    BY DEF IInv, TypeOK
  <1> QED
    BY <1>1 DEF Exists, Backs, BacksNext, Unbacked

LEMMA MemberWritesKeepIInv ==
  ASSUME IInv, NEW r \in Requests,
         AddGroupMember(r) \/ RemoveGroupMember(r) \/ UpdateGroup(r)
  PROVE  IInv'
  <1> DEFINE u == req[r].target
             due == membershipChanges(r)
  <1>1. /\ req[r].pc = "write" /\ req[r].op \in {"addMember", "removeMember", "updateGroup"}
        /\ flags' = flags
    BY DEF AddGroupMember, RemoveGroupMember, UpdateGroup, At
  <1>2. /\ req[r] \in Request /\ req[r].todo = {} /\ req[r].token = None
        /\ req[r].op # "updateGroup" => u \in Users
    BY <1>1, AtWrite
  <1>3. admins \in SUBSET Users /\ req[r].list \in SUBSET Users /\ req[r].wanted \in SUBSET Users
    BY <1>2 DEF IInv, TypeOK, Request
  <1>4. ASSUME AddGroupMember(r) \/ RemoveGroupMember(r) PROVE IInv'
    <2>1. u \in Users
      BY <1>2, <1>4 DEF AddGroupMember, RemoveGroupMember, At
    <2>2. PICK us \in SUBSET {u} :
            /\ Write(r, us, PastRole, Revoking(r, {u}), {})
            /\ \A v \in admins \ admins' : Exists(v) => v \in us
            /\ \A v \in us : Exists(v)
      <3>1. CASE AddGroupMember(r)
        BY <3>1 DEF AddGroupMember
      <3>2. CASE RemoveGroupMember(r)
        BY <3>2 DEF RemoveGroupMember
      <3> QED
        BY <1>4, <3>1, <3>2
    <2>3. us \in SUBSET Users /\ admins' \in SUBSET Users
      BY <1>3, <1>4, <2>1 DEF AddGroupMember, RemoveGroupMember
    <2>4. /\ flags' \in [Users -> SUBSET Flags]
          /\ \A v \in Users : ~("gone" \in flags'[v] /\ (v \in us \/ Exists(v)))
          /\ \A v \in Users : v \notin us =>
               \A role \in {"admin", "readonly"} : Backs(v, role) => BacksNext(v, role)
      BY <1>1, <2>2, <2>3, MembersFacts
    <2>5. /\ Revoking(r, {u}) \in Request /\ ShapeOf(Revoking(r, {u}))
          /\ Revoking(r, {u}).pc = "revoke" /\ Revoking(r, {u}).todo = {u}
          /\ Revoking(r, {u}).op = req[r].op /\ Revoking(r, {u}).token = req[r].token
      BY <2>1, RevokingFacts
    <2> HIDE DEF u
    <2> QED
      BY <1>1, <1>2, <2>2, <2>3, <2>4, <2>5, WriteKeepsIInv
  <1>5. ASSUME UpdateGroup(r) PROVE IInv'
    <2> DEFINE us == {v \in Changed(admins, req[r].wanted) : Exists(v)}
               next == IF due = {} THEN Idle ELSE Revoking(r, due)
    <2>1. /\ Write(r, us, PastRole, next, us \ due) /\ admins' = req[r].wanted
      BY <1>5 DEF UpdateGroup
    <2>2. /\ us \in SUBSET Users /\ due \in SUBSET Users /\ admins' \in SUBSET Users
          /\ \A v \in admins \ admins' : Exists(v) => v \in us
          /\ \A v \in us : Exists(v)
      BY <1>3, <2>1 DEF Changed, membershipChanges
    <2> HIDE DEF us, due
    <2>3. /\ flags' \in [Users -> SUBSET Flags]
          /\ \A v \in Users : ~("gone" \in flags'[v] /\ (v \in us \/ Exists(v)))
          /\ \A v \in Users : v \notin us =>
               \A role \in {"admin", "readonly"} : Backs(v, role) => BacksNext(v, role)
      BY <1>1, <2>2, MembersFacts
    <2>4. /\ next \in Request /\ ShapeOf(next)
          /\ next.pc \notin {"role", "insert"} /\ next.todo = due
          /\ next.pc = "revoke" => next.todo # {}
          /\ next.todo # {} => next.token = req[r].token
      <3>1. CASE due = {}
        BY <3>1, IdleFacts
      <3>2. CASE due # {}
        BY <2>2, <3>2, RevokingFacts
      <3> QED
        BY <3>1, <3>2
    <2> HIDE DEF next
    <2>5. us \subseteq next.todo \cup (us \ due) /\ us \ due \in SUBSET Users
      BY <2>2, <2>4
    <2> QED
      BY <1>1, <1>2, <2>1, <2>2, <2>3, <2>4, <2>5, WriteKeepsIInv
  <1> QED
    BY <1>4, <1>5

LEMMA CleanUpKeepsIInv ==
  ASSUME IInv, NEW r \in Requests,
         DeleteMemberships(r) \/ ReadMemberships(r) \/ ReplaceMembers(r)
  PROVE  IInv'
  <1> DEFINE u == req[r].target
  <1>1. /\ req[r] \in Request /\ u \in Users /\ req[r].todo = {u}
        /\ req[r].op \in {"delete", "rename"} /\ req[r].token = None
        /\ req[r].pc = "replace" \/ req[r].op = "rename" => req[r].to \in Users
    BY DEF IInv, TypeOK, Shapes, ShapeOf, DeleteMemberships, ReadMemberships, ReplaceMembers
  <1>2. admins \in SUBSET Users /\ req[r].list \in SUBSET Users
    BY <1>1 DEF IInv, TypeOK, Request
  <1>3. /\ Revoking(r, {u}) \in Request /\ ShapeOf(Revoking(r, {u}))
        /\ Revoking(r, {u}).pc = "revoke" /\ Revoking(r, {u}).todo = {u}
        /\ Revoking(r, {u}).op = req[r].op /\ Revoking(r, {u}).token = req[r].token
    BY <1>1, RevokingFacts
  <1> HIDE DEF u
  <1>4. ASSUME NEW us \in SUBSET Users, NEW lost \in SUBSET Users,
               flags' = flags, admins' \in SUBSET Users,
               \A v \in admins \ admins' : Exists(v) => v \in us,
               \A v \in us : Exists(v),
               us \subseteq {u} \cup lost,
               Commit(r, us, PastRole, Revoking(r, {u}), lost)
        PROVE  IInv'
    <2>1. /\ flags' \in [Users -> SUBSET Flags]
          /\ \A v \in Users : ~("gone" \in flags'[v] /\ (v \in us \/ Exists(v)))
          /\ \A v \in Users : v \notin us =>
               \A role \in {"admin", "readonly"} : Backs(v, role) => BacksNext(v, role)
      BY <1>4, MembersFacts
    <2> QED
      BY ZenonT(30), <1>1, <1>3, <1>4, <2>1, CommitKeepsIInv
  <1>5. ASSUME DeleteMemberships(r) PROVE IInv'
    <2>1. PICK left \in {admins, admins \ {u}} :
            /\ admins' = left
            /\ Commit(r, {v \in Changed(admins, left) : Exists(v)}, PastRole,
                      Revoking(r, {u}), {})
      BY <1>5 DEF DeleteMemberships, u
    <2> DEFINE us == {v \in Changed(admins, left) : Exists(v)}
    <2>2. /\ us \in SUBSET Users /\ us \subseteq {u} /\ admins' \in SUBSET Users
          /\ \A v \in admins \ admins' : Exists(v) => v \in us
          /\ \A v \in us : Exists(v)
      BY <1>1, <1>2, <2>1 DEF Changed
    <2>3. flags' = flags
      BY <1>5 DEF DeleteMemberships
    <2> HIDE DEF us
    <2>4. Commit(r, us, PastRole, Revoking(r, {u}), {})
      BY <2>1 DEF us
    <2> QED
      BY <1>4, <2>2, <2>3, <2>4
  <1>6. ASSUME ReplaceMembers(r) PROVE IInv'
    <2>1. PICK left \in {admins, (req[r].list \ {u}) \cup {req[r].to}} :
            LET us == {v \in Changed(admins, left) \ {req[r].to} : Exists(v)} IN
            /\ admins' = left
            /\ Commit(r, us, PastRole, Revoking(r, {u}), us \ {u})
      BY <1>6 DEF ReplaceMembers, u
    <2> DEFINE us == {v \in Changed(admins, left) \ {req[r].to} : Exists(v)}
    <2>2. req[r].to \in Users
      BY <1>1, <1>6 DEF ReplaceMembers
    <2>3. /\ us \in SUBSET Users /\ us \ {u} \in SUBSET Users /\ admins' \in SUBSET Users
          /\ us \subseteq {u} \cup (us \ {u})
          /\ \A v \in admins \ admins' : Exists(v) => v \in us
          /\ \A v \in us : Exists(v)
      BY <1>2, <2>1, <2>2 DEF Changed
    <2>4. flags' = flags
      BY <1>6 DEF ReplaceMembers
    <2>5. Commit(r, us, PastRole, Revoking(r, {u}), us \ {u})
      BY <2>1
    <2> HIDE DEF us
    <2> QED
      BY <1>4, <2>3, <2>4, <2>5
  <1>7. ASSUME ReadMemberships(r) PROVE IInv'
    <2>1. UNCHANGED <<flags, admins, sessions, missed>>
      BY <1>7 DEF ReadMemberships
    <2>2. CASE req' = [req EXCEPT ![r].pc = "replace", ![r].list = admins]
      <3> DEFINE next == [req[r] EXCEPT !.pc = "replace", !.list = admins]
      <3>1. /\ next \in Request /\ ShapeOf(next) /\ next.pc = "replace"
            /\ next.todo = req[r].todo /\ next.op = req[r].op /\ next.token = req[r].token
        BY <1>1, <1>2, <1>7 DEF ReadMemberships, Request, ShapeOf, u
      <3>2. req' = [req EXCEPT ![r] = next]
        BY <1>1, <2>2 DEF IInv, TypeOK, Request
      <3> HIDE DEF next
      <3> QED
        BY <2>1, <3>1, <3>2, QuietStepKeepsIInv
    <2>3. CASE req' = [req EXCEPT ![r] = Revoking(r, @.todo)]
      <3>1. req' = [req EXCEPT ![r] = Revoking(r, {u})]
        BY <1>1, <2>3
      <3> QED
        BY <1>1, <1>3, <2>1, <3>1, QuietStepKeepsIInv
    <2> QED
      BY <1>7, <2>2, <2>3 DEF ReadMemberships
  <1> QED
    BY <1>5, <1>6, <1>7

LEMMA RenameKeepsIInv ==
  ASSUME IInv, NEW r \in Requests, RenameUser(r)
  PROVE  IInv'
  <1> DEFINE u == req[r].target
             to == req[r].to
             next == CleaningUp(r, u)
  <1>1. /\ req[r].pc = "write" /\ req[r].op = "rename" /\ Exists(u) /\ ~Exists(to)
        /\ flags' = [flags EXCEPT ![u] = {"gone"}, ![to] = flags[u]]
        /\ Write(r, {u}, PastBind, next, {})
        /\ admins' = admins
    BY DEF RenameUser, At
  <1>2. u \in Users /\ to \in Users /\ req[r].todo = {} /\ req[r].token = None /\ u # to
    BY <1>1, AtWrite
  <1>3. /\ next \in Request /\ ShapeOf(next) /\ next.pc = "members"
        /\ next.todo = {u} /\ next.op = "rename" /\ next.token = req[r].token
    BY <1>1, CleaningUpFacts
  <1> HIDE DEF u, to, next
  <1>4. flags \in [Users -> SUBSET Flags] /\ admins \in SUBSET Users
    BY DEF IInv, TypeOK
  <1>5. /\ flags' \in [Users -> SUBSET Flags] /\ admins' \in SUBSET Users
        /\ \A v \in Users \ {u, to} : flags'[v] = flags[v]
        /\ flags'[to] = flags[u] /\ flags'[u] = {"gone"}
    BY <1>1, <1>2, <1>4 DEF Flags
  <1>6. \A v \in Users : "gone" \in flags'[v] /\ (v \in {u} \/ Exists(v)) =>
          v \in {u} /\ next.op \in {"delete", "rename"} /\ v \in next.todo
    BY <1>1, <1>3, <1>5 DEF Exists
  <1>7. \A v \in Users : v \notin {u} =>
          \A role \in {"admin", "readonly"} : Backs(v, role) => BacksNext(v, role)
    <2>1. \A role : ~Backs(to, role)
      BY <1>1 DEF Backs, Exists
    <2> QED
      BY <1>1, <1>5, <2>1 DEF Backs, BacksNext, Unbacked
  <1> QED
    BY <1>1, <1>2, <1>3, <1>5, <1>6, <1>7, WriteKeepsIInv

-----------------------------------------------------------------------------
(* Ending sessions, and the rest of the world. *)

LEMMA EndSessionsKeepsIInv ==
  ASSUME IInv, NEW r \in Requests, NEW u \in Users,
         InvalidateSessions(r, u) \/ SkipUnknown(r, u)
  PROVE  IInv'
  <1>1. /\ req[r].pc = "revoke" /\ u \in req[r].todo /\ Settle(r, u)
        /\ UNCHANGED <<flags, admins>>
    BY DEF InvalidateSessions, SkipUnknown
  <1>2. missed \in SUBSET Users /\ (req[r].token # None => req[r].op = "ownPassword")
    BY DEF IInv, TypeOK, Shapes, ShapeOf
  <1>3. UNCHANGED sessions => sessions' = DeleteRows({})
    BY DEF IInv, TypeOK, DeleteRows
  <1>4. ASSUME UNCHANGED sessions, missed' = missed \cup {u} PROVE IInv'
    BY <1>1, <1>2, <1>3, <1>4, SettleKeepsIInv
  <1>5. ASSUME UNCHANGED <<sessions, missed>>, ~Exists(u), req[r].op \in GroupOps PROVE IInv'
    <2>1. req[r].op \notin {"delete", "rename"}
      BY <1>5 DEF GroupOps
    <2> QED
      BY <1>1, <1>2, <1>3, <1>5, <2>1, SettleKeepsIInv
  <1>6. ASSUME InvalidateSessions(r, u),
               sessions' = DeleteRows(TokensOf(u) \ {req[r].token}),
               missed' = IF req[r].op = "ownPassword" THEN missed ELSE missed \ {u}
        PROVE  IInv'
    <2> DEFINE ts == TokensOf(u) \ {req[r].token}
    <2>1. /\ ts \in SUBSET Tokens
          /\ \A t \in Tokens \ {req[r].token} : Live(t) /\ sessions[t].user = u => t \in ts
      BY DEF TokensOf
    <2>2. CASE req[r].op = "ownPassword"
      <3>1. missed' = missed
        BY <1>6, <2>2
      <3> HIDE DEF ts
      <3> QED
        BY <1>1, <1>2, <1>6, <2>1, <3>1, SettleKeepsIInv DEF ts
    <2>3. CASE req[r].op # "ownPassword"
      <3>1. missed' = missed \ {u} /\ req[r].token = None
        BY <1>2, <1>6, <2>3
      <3>2. \A t \in Tokens : Live(t) /\ sessions[t].user = u => t \in ts
        BY <2>1, <3>1, ConstantsAssumption
      <3>3. missed' \in SUBSET Users /\ sessions' = DeleteRows(ts)
        BY <1>2, <1>6, <3>1
      <3> HIDE DEF ts
      <3> QED
        BY <1>1, <2>1, <3>1, <3>2, <3>3, SettleKeepsIInv
    <2> QED
      BY <2>2, <2>3
  <1> QED
    BY <1>4, <1>5, <1>6 DEF InvalidateSessions, SkipUnknown

\* A step of ppolicy that leaves what backs an account, or adds to it.
LEMMA FlagsKeepIInv ==
  ASSUME IInv, NEW u \in Users, NEW new \in SUBSET Flags,
         new \cap Unbacked \subseteq flags[u],
         flags' = [flags EXCEPT ![u] = new], UNCHANGED <<admins, sessions, req, missed>>
  PROVE  IInv'
  <1>1. TypeOK /\ Shapes /\ RevokedIsOwed /\ GoneIsCovered /\ CurrentIsBacked /\ LoginIsBacked
    BY DEF IInv
  <1>2. /\ flags' \in [Users -> SUBSET Flags]
        /\ \A v \in Users : flags'[v] \cap Unbacked \subseteq flags[v] \cap Unbacked
        /\ \A v \in Users : "gone" \in flags'[v] => "gone" \in flags[v]
    BY <1>1 DEF TypeOK, Unbacked
  <1>3. TypeOK' /\ Shapes'
    BY <1>1, <1>2 DEF TypeOK, Shapes, ShapeOf
  <1>4. RevokedIsOwed'
    BY <1>1 DEF RevokedIsOwed, Live
  <1>5. \A t \in Tokens : Live(t) => sessions[t].user \in Users
    BY <1>1 DEF TypeOK, Live, Session
  <1>6. GoneIsCovered'
    BY <1>1, <1>2, <1>5 DEF GoneIsCovered, Live, Exists, TakenAway
  <1>7. CurrentIsBacked'
    BY <1>1, <1>2, <1>5 DEF CurrentIsBacked, Live, Backed, Backs, Unbacked
  <1>8. \A q \in Requests : req[q].pc \in {"role", "insert"} => req[q].target \in Users
    BY <1>1 DEF Shapes, ShapeOf
  <1>9. LoginIsBacked'
    BY <1>1, <1>2, <1>8 DEF LoginIsBacked, Backs, Unbacked
  <1> QED
    BY <1>3, <1>4, <1>6, <1>7, <1>9 DEF IInv

LEMMA PolicyKeepsIInv ==
  ASSUME IInv, NEW u \in Users, Policy(u)
  PROVE  IInv'
  <1>1. flags[u] \in SUBSET Flags
    BY DEF IInv, TypeOK
  <1>2. ASSUME EndTimePasses(u) PROVE IInv'
    <2>1. Ending(u, TRUE) \in SUBSET Flags /\ Ending(u, TRUE) \cap Unbacked \subseteq flags[u]
      BY <1>1 DEF Ending, Flags, Unbacked
    <2> QED
      BY <1>2, <2>1, FlagsKeepIInv DEF EndTimePasses
  <1>3. ASSUME LockoutLapses(u) PROVE IInv'
    <2>1. flags' = [flags EXCEPT ![u] = flags[u] \ {"lockedOut"}]
      BY <1>3 DEF LockoutLapses
    <2>2. flags[u] \ {"lockedOut"} \in SUBSET Flags
      BY <1>1
    <2> QED
      BY <1>3, <2>1, <2>2, FlagsKeepIInv DEF LockoutLapses
  <1>4. ASSUME FailedBind(u) PROVE IInv'
    BY <1>4, LockOutKeepsIInv DEF FailedBind
  <1> QED
    BY <1>2, <1>3, <1>4 DEF Policy

LEMMA OutsideKeepsIInv ==
  ASSUME IInv, NEW u \in Users, EditOutside(u)
  PROVE  IInv'
  <1>1. /\ flags \in [Users -> SUBSET Flags] /\ admins \in SUBSET Users
        /\ missed \in SUBSET Users
    BY DEF IInv, TypeOK
  <1>2. /\ missed' = missed \cup {v \in {u} : "gone" \in flags'[v] /\ Pending(v)}
        /\ missed' \in SUBSET Users /\ missed \subseteq missed'
        /\ "gone" \in flags'[u] => (Pending(u) => u \in missed')
    BY <1>1 DEF EditOutside
  <1>3. CASE /\ \E e \in Entries : flags' = [flags EXCEPT ![u] = e]
             /\ ChangedElsewhere(u, PastBind, req) /\ UNCHANGED admins
    <2>1. Entries \subseteq SUBSET Flags
      BY DEF Entries, Flags
    <2>2. /\ flags' \in [Users -> SUBSET Flags]
          /\ \A v \in Users \ {u} : flags'[v] = flags[v]
      BY <1>1, <1>3, <2>1
    <2> HIDE DEF PastBind
    <2> QED
      BY <1>1, <1>2, <1>3, <2>2, ElsewhereKeepsIInv
  <1>4. CASE /\ admins' = Changed(admins, {u})
             /\ ChangedElsewhere(u, PastRole, req) /\ UNCHANGED flags
    <2>1. admins' \in SUBSET Users /\ \A v \in Users \ {u} : v \in admins => v \in admins'
      BY <1>1, <1>4 DEF Changed
    <2> HIDE DEF PastRole
    <2> QED
      BY <1>1, <1>2, <1>4, <2>1, ElsewhereKeepsIInv
  <1> QED
    BY <1>3, <1>4 DEF EditOutside

LEMMA CrashKeepsIInv ==
  ASSUME IInv, Crash \/ UNCHANGED vars
  PROVE  IInv'
  <1>1. TypeOK /\ Shapes /\ RevokedIsOwed /\ GoneIsCovered /\ CurrentIsBacked /\ LoginIsBacked
    BY DEF IInv
  <1>2. CASE UNCHANGED vars
    BY <1>1, <1>2 DEF vars, IInv, TypeOK, Shapes, ShapeOf, RevokedIsOwed, GoneIsCovered, Live,
       Exists, TakenAway, CurrentIsBacked, LoginIsBacked, Backed, Backs
  <1>3. ASSUME Crash PROVE IInv'
    <2>1. /\ req' = [r \in Requests |-> Idle]
          /\ missed' = missed \cup {u \in Users : Pending(u)}
          /\ UNCHANGED <<flags, admins, sessions>>
      BY <1>3 DEF Crash
    <2>2. TypeOK'
      BY <1>1, <2>1, IdleFacts DEF TypeOK
    <2>3. Shapes'
      <3>1. \A r \in Requests : req'[r] = Idle
        BY <2>1
      <3> QED
        BY <3>1 DEF Shapes, ShapeOf, Idle
    <2>4. \A t \in Tokens : Live(t) => sessions[t].user \in Users
      BY <1>1 DEF TypeOK, Live, Session
    <2>5. \A t \in Tokens : Live(t) /\ sessions[t].standing = "revoked" =>
            sessions[t].user \in missed'
      BY <1>1, <2>1, <2>4 DEF RevokedIsOwed, Pending
    <2>6. RevokedIsOwed' /\ GoneIsCovered'
      BY <2>1, <2>5 DEF RevokedIsOwed, GoneIsCovered, Live, Exists
    <2>7. CurrentIsBacked'
      BY <1>1, <2>1 DEF CurrentIsBacked, Live, Backed, Backs
    <2>8. LoginIsBacked'
      BY <2>1 DEF LoginIsBacked, Idle
    <2> QED
      BY <2>2, <2>3, <2>6, <2>7, <2>8 DEF IInv
  <1> QED
    BY <1>2, <1>3

-----------------------------------------------------------------------------
(* The theorems. *)

LEMMA NextKeepsIInv == IInv /\ [Next]_vars => IInv'
  <1> SUFFICES ASSUME IInv, [Next]_vars PROVE IInv'
    OBVIOUS
  <1>1. ASSUME NEW r \in Requests, Arrive(r) PROVE IInv'
    BY <1>1, LoginKeepsIInv, RequestKeepsIInv DEF Arrive
  <1>2. ASSUME NEW r \in Requests, WriteDirectory(r) PROVE IInv'
    BY <1>2, EntryWritesKeepIInv, HarmlessWritesKeepIInv, MemberWritesKeepIInv,
       CleanUpKeepsIInv, RenameKeepsIInv DEF WriteDirectory
  <1>3. ASSUME NEW r \in Requests, Handle(r) PROVE IInv'
    BY <1>2, <1>3, LoginKeepsIInv, RequestKeepsIInv, EndSessionsKeepsIInv
    DEF Handle, EndSessions
  <1>4. ASSUME NEW t \in Tokens, Logout(t) \/ Expire(t) PROVE IInv'
    BY <1>4, LogoutKeepsIInv
  <1>5. ASSUME NEW u \in Users, Policy(u) \/ EditOutside(u) PROVE IInv'
    BY <1>5, PolicyKeepsIInv, OutsideKeepsIInv
  <1>6. ASSUME Crash \/ UNCHANGED vars PROVE IInv'
    BY <1>6, CrashKeepsIInv
  <1> QED
    BY <1>1, <1>3, <1>4, <1>5, <1>6 DEF Next, Serve

\* The inductive invariant: types, the shape of a request at each step, and who
\* owes the end of a session that has to end.
THEOREM Invariance == Spec => []IInv
  <1> QED
    BY InitIInv, NextKeepsIInv, PTL DEF Spec

\* Every variable keeps its type, and a handler that is ending sessions has
\* some left to end (the request structure of internal/api).
THEOREM TypeCorrect == Spec => []TypeOK
  <1>1. IInv => TypeOK
    BY DEF IInv
  <1> QED
    BY <1>1, Invariance, PTL

LEMMA IInvNoSurvivor == IInv => NoSurvivor
  BY DEF IInv, RevokedIsOwed, NoSurvivor, Pending

\* No session outlives a lock, delete, rename, password, expiry or membership
\* change that was carried out to its end (internal/api handlers, revokeAccess
\* and invalidateIfAdminGroupChange).
THEOREM RevocationIsSound == Spec => []NoSurvivor
  <1> QED
    BY IInvNoSurvivor, Invariance, PTL

\* Whoever is signed in is still backed by the directory, or is being signed
\* out, or profits from a failure, from a sign-in the change overtook, or from a
\* change nobody revokes for: a lock by ppolicy, an edit by another program.
THEOREM SessionsAreBacked == Spec => []SessionsFollowDirectory
  <1>1. IInv => SessionsFollowDirectory
    <2> SUFFICES ASSUME IInv, NEW t \in Tokens, Live(t)
                 PROVE  \/ Backed(t)
                        \/ Pending(sessions[t].user)
                        \/ sessions[t].user \in missed
                        \/ sessions[t].standing \in {"overtaken", "elsewhere"}
      BY DEF SessionsFollowDirectory
    <2>1. sessions[t].standing \in {"current", "revoked", "overtaken", "elsewhere"}
      BY DEF IInv, TypeOK, Live, Session, Standings
    <2> QED
      BY <2>1, IInvNoSurvivor DEF IInv, CurrentIsBacked, NoSurvivor
  <1> QED
    BY <1>1, Invariance, PTL

-----------------------------------------------------------------------------
(* Without failures, and without the two operations that write a whole      *)
(* member list, no revocation is ever missed.                               *)

NothingMissed ==
  /\ missed = {}
  /\ \A r \in Requests : req[r].op \notin {"updateGroup", "rename"}

LEMMA NothingMissedStep ==
  ASSUME Faults = {}, Ops \cap {"updateGroup", "rename"} = {},
         IInv, NothingMissed, [Next]_vars
  PROVE  NothingMissed'
  <1>1. /\ missed = {}
        /\ \A r \in Requests : req[r].op \notin {"updateGroup", "rename"}
        /\ req \in [Requests -> Request]
        /\ \A r \in Requests : ShapeOf(req[r])
    BY DEF NothingMissed, IInv, TypeOK, Shapes
  <1>2. ASSUME NEW r \in Requests, NEW next, req' = [req EXCEPT ![r] = next],
               next.op \in {req[r].op, None, "login"} \cup Ops,
               missed' = {}
        PROVE  NothingMissed'
    <2>1. next.op \notin {"updateGroup", "rename"}
      BY <1>1, <1>2, ConstantsAssumption DEF AllOps
    <2>2. \A q \in Requests : req'[q] = IF q = r THEN next ELSE req[q]
      BY <1>1, <1>2
    <2> QED
      BY <1>1, <1>2, <2>1, <2>2 DEF NothingMissed
  <1>3. ASSUME NEW r \in Requests, NEW us, NEW passed, NEW next,
               next.op \in {req[r].op, None}, Commit(r, us, passed, next, {})
        PROVE  NothingMissed'
    <2>1. missed' = {} /\ next.op \notin {"updateGroup", "rename"}
      BY <1>1, <1>3, ConstantsAssumption DEF Commit, AllOps
    <2>2. \A q \in Requests :
            req'[q] = IF q = r THEN next
                      ELSE [req[q] EXCEPT !.overtaken = @ \/ Overtaken(q, us, passed)]
      BY <1>3 DEF Commit
    <2>3. \A q \in Requests : req'[q].op \notin {"updateGroup", "rename"}
      <3> SUFFICES ASSUME NEW q \in Requests
                   PROVE  req'[q].op \notin {"updateGroup", "rename"}
        OBVIOUS
      <3>1. CASE q = r
        BY <2>1, <2>2, <3>1
      <3>2. CASE q # r
        <4>1. req'[q] = [req[q] EXCEPT !.overtaken = @ \/ Overtaken(q, us, passed)]
          BY <2>2, <3>2
        <4>2. req[q] \in Request
          BY <1>1
        <4>3. req'[q].op = req[q].op
          BY <4>1, <4>2 DEF Request
        <4> QED
          BY <1>1, <4>3
      <3> QED
        BY <3>1, <3>2
    <2> QED
      BY <2>1, <2>3 DEF NothingMissed
  <1>4. ASSUME NEW r \in Requests, NEW us, NEW passed, NEW next,
               next.op \in {req[r].op, None}, Write(r, us, passed, next, {})
        PROVE  NothingMissed'
    BY <1>3, <1>4 DEF Write, AnswerMayBeLost
  <1>5. \A r \in Requests : \A us, u :
          /\ Revoking(r, us).op = req[r].op
          /\ CleaningUp(r, u).op = req[r].op
          /\ Idle.op = None
    BY <1>1 DEF Revoking, CleaningUp, Idle, Request
  <1>6. ASSUME NEW r \in Requests, Arrive(r) PROVE NothingMissed'
    <2>1. CASE \E u \in Users : BeginLogin(r, u)
      BY <1>1, <1>2, <2>1 DEF BeginLogin, Idle
    <2>2. CASE \E t \in Tokens, op \in AllOps : BeginRequest(r, t, op)
      <3>1. PICK t \in Tokens, op \in AllOps : BeginRequest(r, t, op)
        BY <2>2
      <3>2. PICK u, to \in Users \cup {None}, wanted \in SUBSET Users :
              req' = [req EXCEPT ![r] = Started(t, op, u, to, wanted)]
        BY <3>1 DEF BeginRequest
      <3>3. op \in Ops /\ missed' = missed
        BY <3>1 DEF BeginRequest
      <3>4. Started(t, op, u, to, wanted).op = op
        BY DEF Started, Idle
      <3> QED
        BY <1>1, <1>2, <3>2, <3>3, <3>4
    <2>3. CASE \E u \in Users : BeginReset(r, u)
      <3>1. PICK u \in Users :
              /\ "resetPassword" \in Ops /\ missed' = missed
              /\ req' = [req EXCEPT ![r] = Started(None, "resetPassword", u, None, {})]
        BY <2>3 DEF BeginReset
      <3>2. Started(None, "resetPassword", u, None, {}).op = "resetPassword"
        BY DEF Started, Idle
      <3> QED
        BY <1>1, <1>2, <3>1, <3>2
    <2> QED
      BY <1>6, <2>1, <2>2, <2>3 DEF Arrive
  <1>13. ASSUME NEW u, NEW slots, ChangedElsewhere(u, PastBind, slots), missed' = {},
                \A q \in Requests : slots[q] \in Request /\ slots[q].op \in {req[q].op, None}
         PROVE  NothingMissed'
    <2>1. ASSUME NEW q \in Requests PROVE req'[q].op = slots[q].op
      <3>1. req'[q] = [slots[q] EXCEPT !.overtaken = @ \/ Overtaken(q, {u}, PastBind)]
        BY <1>13 DEF ChangedElsewhere
      <3> QED
        BY <1>13, <3>1 DEF Request
    <2> QED
      BY <1>1, <1>13, <2>1, ConstantsAssumption DEF NothingMissed, AllOps
  <1>7. ASSUME NEW r \in Requests, Login(r) \/ Audit(r) \/ Refused(r) PROVE NothingMissed'
    <2>1. missed' = {}
      BY <1>1, <1>7 DEF Login, Bind, ReadRole, InsertSession, Audit, Refused
    <2>2. CASE req' = [req EXCEPT ![r] = Idle]
      BY <1>2, <1>5, <2>1, <2>2
    <2>3. CASE Bind(r) /\ req' = [req EXCEPT ![r].pc = "role"]
      <3>1. req' = [req EXCEPT ![r] = [req[r] EXCEPT !.pc = "role"]]
        BY <2>3
      <3> QED
        BY <1>1, <1>2, <2>1, <3>1 DEF Request
    <2>4. CASE Audit(r) /\ req' = [req EXCEPT ![r].pc = "write"]
      <3>1. req' = [req EXCEPT ![r] = [req[r] EXCEPT !.pc = "write"]]
        BY <2>4
      <3> QED
        BY <1>1, <1>2, <2>1, <3>1 DEF Request
    <2>5. CASE ReadRole(r)
      <3>1. PICK role : req' = [req EXCEPT ![r].pc = "insert", ![r].role = role]
        BY <2>5 DEF ReadRole
      <3>2. req' = [req EXCEPT ![r] = [req[r] EXCEPT !.pc = "insert", !.role = role]]
        BY <1>1, <3>1 DEF Request
      <3> QED
        BY <1>1, <1>2, <2>1, <3>2 DEF Request
    <2>6. CASE LockOut(req[r].target, [req EXCEPT ![r] = Idle])
      <3>1. \A q \in Requests :
              /\ [req EXCEPT ![r] = Idle][q] \in Request
              /\ [req EXCEPT ![r] = Idle][q].op \in {req[q].op, None}
        BY <1>1, IdleFacts
      <3> QED
        BY <1>13, <2>1, <2>6, <3>1 DEF LockOut
    <2> QED
      BY <1>7, <2>2, <2>3, <2>4, <2>5, <2>6 DEF Login, Bind, InsertSession, Audit, Refused
  <1>8. ASSUME NEW r \in Requests, WriteDirectory(r) PROVE NothingMissed'
    <2>1. CASE \/ LockUser(r) \/ SetPassword(r) \/ ChangeMyPassword(r) \/ RemovePassword(r)
               \/ SetExpiration(r) \/ DeleteUser(r)
      BY <1>4, <1>5, <2>1 DEF LockUser, SetPassword, ChangeMyPassword, RemovePassword,
         SetExpiration, DeleteUser, WriteEntry
    <2>2. CASE UnlockUser(r) \/ ClearExpiration(r) \/ JoinGroups(r)
      BY <1>1, <1>2, <1>5, <2>2 DEF UnlockUser, ClearExpiration, JoinGroups, WriteHarmless
    <2>3. CASE CreateUser(r)
      <3>1. req' = [req EXCEPT ![r] = [req[r] EXCEPT !.pc = "members"]] /\ missed' = missed
        BY <2>3 DEF CreateUser
      <3> QED
        BY <1>1, <1>2, <3>1 DEF Request
    <2>4. CASE DeleteMemberships(r)
      BY <1>3, <1>5, <2>4 DEF DeleteMemberships
    <2>5. CASE AddGroupMember(r) \/ RemoveGroupMember(r)
      BY <1>4, <1>5, <2>5 DEF AddGroupMember, RemoveGroupMember
    <2>6. ~(RenameUser(r) \/ ReadMemberships(r) \/ ReplaceMembers(r) \/ UpdateGroup(r))
      BY <1>1 DEF RenameUser, ReadMemberships, ReplaceMembers, UpdateGroup, At, ShapeOf
    <2> QED
      BY <1>8, <2>1, <2>2, <2>3, <2>4, <2>5, <2>6 DEF WriteDirectory
  <1>9. ASSUME NEW r \in Requests, NEW u \in Users, InvalidateSessions(r, u) \/ SkipUnknown(r, u)
        PROVE  NothingMissed'
    <2> DEFINE next == IF req[r].todo = {u} THEN Idle ELSE [req[r] EXCEPT !.todo = @ \ {u}]
    <2>1. missed' = {} /\ req' = [req EXCEPT ![r] = next]
      BY <1>1, <1>9 DEF InvalidateSessions, SkipUnknown, Settle
    <2>2. next.op \in {req[r].op, None}
      BY <1>1, <1>5 DEF Request
    <2> HIDE DEF next
    <2> QED
      BY <1>2, <2>1, <2>2
  <1>10. ASSUME NEW r \in Requests, Handle(r) PROVE NothingMissed'
    BY <1>7, <1>8, <1>9, <1>10 DEF Handle, EndSessions
  <1>11. ASSUME NEW t \in Tokens, Logout(t) \/ Expire(t) PROVE NothingMissed'
    BY <1>11 DEF Logout, Expire, NothingMissed
  <1>12. ASSUME NEW u \in Users, Policy(u) PROVE NothingMissed'
    <2>1. CASE FailedBind(u)
      <3>1. \A q \in Requests : req[q].op = req[q].op /\ req[q] \in Request
        BY <1>1
      <3> QED
        BY <1>1, <1>13, <2>1, <3>1 DEF FailedBind, LockOut
    <2>2. CASE EndTimePasses(u) \/ LockoutLapses(u)
      BY <1>1, <2>2 DEF EndTimePasses, LockoutLapses, NothingMissed
    <2> QED
      BY <1>12, <2>1, <2>2 DEF Policy
  <1>14. ASSUME \/ Crash \/ (\E u \in Users : EditOutside(u)) \/ UNCHANGED vars
         PROVE  NothingMissed'
    BY <1>14 DEF Crash, EditOutside, vars, NothingMissed
  <1> QED
    BY <1>6, <1>10, <1>11, <1>12, <1>14 DEF Next, Serve

\* Without failures and whole-list writes, a session due to end always has a
\* handler that is about to end it (revokeAccess follows every such write).
THEOREM RevocationIsNeverMissed ==
  ASSUME Faults = {}, Ops \cap {"updateGroup", "rename"} = {}
  PROVE  Spec => []RevocationAlwaysPending
  <1>1. Init => NothingMissed
    BY ConstantsAssumption DEF Init, Idle, NothingMissed, AllOps
  <1>2. IInv /\ NothingMissed /\ [Next]_vars => NothingMissed'
    BY NothingMissedStep
  <1>3. IInv /\ NothingMissed => RevocationAlwaysPending
    BY IInvNoSurvivor DEF NothingMissed, NoSurvivor, RevocationAlwaysPending
  <1> QED
    BY <1>1, <1>2, <1>3, Invariance, PTL DEF Spec
=============================================================================
