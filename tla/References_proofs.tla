--------------------------- MODULE References_proofs ---------------------------
(***************************************************************************)
(* For any names, requests and failures: a value of a list is lost only    *)
(* when two changes of the list overlapped (or with the triples of a form  *)
(* that did not send them), and a name that no entry has stays in a list   *)
(* only if somebody knows.  For any finite directory: following the        *)
(* nesting of netgroups, down or up, finds what the paths of the graph     *)
(* lead to.                                                                *)
(*                                                                         *)
(* Two facts about requests carry the first two.  A list a request read to *)
(* write it back is still as it was read, or the request's history says    *)
(* that it changed; and the lists in which the old name is still to be     *)
(* found are the ones the request has ahead of it.  The graphs are dealt   *)
(* with at the end, by counting rounds up to the number of netgroups.      *)
(***************************************************************************)
EXTENDS References, SequenceTheorems, FiniteSetTheorems, TLAPS

-----------------------------------------------------------------------------
(* The invariant *)

Typed ==
  /\ \A e \in edits : e[1] \in Lists /\ e[2] \in Ref /\ Holds(e[1], e[2])
  /\ things \subseteq Thing
  /\ lists \in [Lists -> SUBSET Ref] /\ \A l \in Lists : Fits(l, lists[l])
  /\ req \in [Requests -> Request]

\* What a request at its place is about.
Named(q) ==
  /\ q.pc \in {"move", "remove", "read", "write", "primary", "leftovers"} => q.what \in Thing
  /\ q.pc \in {"move", "primary"} \/ (q.pc \in {"read", "write"} /\ q.op # "delete") =>
       q.to \in Thing /\ q.to[1] = q.what[1] /\ q.to # q.what
  /\ q.pc = "move" => \/ q.op = "rename" /\ q.what[1] = "user"
                      \/ q.op = "renameGroup" /\ q.what[1] = "group"
  /\ q.pc = "primary" => q.op = "rename" /\ q.what[1] = "user"
  /\ q.pc \in {"read", "write"} =>
       \/ q.op \in {"rename", "delete"} /\ q.what[1] = "user"
       \/ q.op = "renameGroup" /\ q.what[1] = "group" /\ q.stage = 2
  /\ q.pc = "leftovers" => q.op # "delete" /\ q.what[1] # "user"
  /\ q.pc = "remove" => (q.op = "delete" <=> q.what[1] = "user")
  /\ q.pc \in {"move", "leftovers", "remove", "read"} => q.todo = {}

\* The values it is about to write are what their lists may hold.
Writable(q) ==
  /\ \A l \in Lists : Fits(l, q.read[l])
  /\ q.pc = "write" => \A l \in q.todo : l[1] = "manager" => q.what \in q.read[l]
  /\ q.pc \in {"form", "save"} /\ q.new # None =>
       \A l \in q.todo : \A ref \in q.new : Holds(l, ref)
  /\ q.pc \in {"form", "save"} => Single(q.todo)
  /\ q.pc = "save" /\ q.unread => \A l \in q.todo : Holds(l, Unreadable)

\* A list it has read is f as it is, unless it knows better.
Fresh(q, f) ==
  /\ q.pc = "write" => \A l \in q.todo \ q.since : q.read[l] = f[l]
  /\ q.pc \in {"form", "save"} =>
       \A l \in q.todo \ q.since : q.read[l] = f[l] \ {Unreadable}
  /\ q.pc = "save" => \A l \in q.todo \ q.since : q.unread <=> Unreadable \in f[l]

\* Whoever refers to what is about to be deleted was named, or came later.
LeftAreNamed(q, f) ==
  q.pc = "remove" /\ q.op # "delete" =>
    \A l \in Lists : q.what \in f[l] => l \in q.named \cup q.since

Sound(q, f) == Named(q) /\ Writable(q) /\ Fresh(q, f) /\ LeftAreNamed(q, f)

\* The request has the list l ahead of it.
Later(l, k) == \E i \in 1..4 : l[1] = Attributes[i] /\ k <= i

Owes(q, l, ref) ==
  /\ q.pc \in {"read", "write"} /\ ref = q.what
  /\ Later(l, IF q.pc = "read" THEN q.stage ELSE q.stage + 1) \/ l \in q.todo

Covered(l, ref) == <<l, ref>> \in known \/ \E r \in Requests : Owes(req[r], l, ref)

AllCovered ==
  \A l \in Lists : \A ref \in lists[l] : ref \in Thing \ things => Covered(l, ref)

Requested == Typed /\ \A r \in Requests : Sound(req[r], lists)

\* A list is what its changes make of it, or a form cleared its triples.
Faithful ==
  /\ intended = [l \in Lists |-> intended[l]]
  /\ \A l \in Lists \ cleared : lists[l] = intended[l]
  /\ \A l \in cleared : l \in Lists /\ l[1] = "triple"

IInv == Requested /\ Faithful /\ AllCovered

-----------------------------------------------------------------------------
(* Names, lists and values *)

LEMMA StagesTyped ==
  /\ Len(Attributes) = 4 /\ Manager = 4
  /\ Attributes[1] = "memberUid" /\ Attributes[2] = "sudoUser"
  /\ Attributes[3] = "triple" /\ Attributes[4] = "manager"
  BY DEF Attributes, Manager

LEMMA ThingsTyped ==
  /\ \A t \in Thing : t \notin {Anyone, Nothing, Unreadable}
  /\ \A t \in Thing : t[1] \in {"user", "group", "role", "netgroup"}
  /\ \A t \in Thing : t[1] # "role" => t \in Ref
  /\ Unreadable \in Ref
  /\ \A ref \in Ref : ref[1] # "role"
  BY DEF Thing, Ref, Anyone, Nothing, Unreadable

LEMMA IdleIsSound ==
  /\ Idle \in Request /\ Idle.pc = "idle" /\ Idle.todo = {} /\ Idle.since = {}
  /\ Idle.stage = 1 /\ Idle.new = None /\ Idle.read = NoLists
  /\ NoLists \in [Lists -> SUBSET Ref] /\ \A l \in Lists : Fits(l, NoLists[l])
  /\ \A f : Sound(Idle, f)
  /\ \A l, ref : ~Owes(Idle, l, ref)
<1>1. NoLists \in [Lists -> SUBSET Ref] /\ \A l \in Lists : NoLists[l] = {}
  BY DEF NoLists
<1>2. /\ Idle \in Request /\ Idle.pc = "idle" /\ Idle.todo = {} /\ Idle.since = {}
      /\ Idle.stage = 1 /\ Idle.new = None /\ Idle.read = NoLists
  BY <1>1, StagesTyped DEF Idle, Request
<1>3. \A l \in Lists : Fits(l, NoLists[l])
  BY <1>1 DEF Fits, Single
<1>4. \A f : Sound(Idle, f)
  BY <1>2, <1>3 DEF Sound, Named, Writable, Fresh, LeftAreNamed
<1>5. \A l, ref : ~Owes(Idle, l, ref)
  BY <1>2 DEF Owes
<1> QED
  BY <1>1, <1>2, <1>3, <1>4, <1>5

\* A list that may hold an account is one RenameUser and DeleteUser go through; one
\* that may hold a group is a sudo role's.
LEMMA StagesCover ==
  ASSUME NEW l \in Lists, NEW ref, Holds(l, ref)
  PROVE  /\ ref[1] = "user" => Later(l, 1)
         /\ ref[1] = "group" => l[1] = "sudoUser" /\ Later(l, 2) /\ ~Later(l, 3)
<1>1. CASE ref[1] = "user"
  <2>1. l[1] \in {"manager", "memberUid", "sudoUser", "triple"}
    BY <1>1 DEF Holds
  <2> QED
    BY <1>1, <2>1, StagesTyped DEF Later
<1>2. CASE ref[1] = "group"
  <2>1. l[1] = "sudoUser"
    BY <1>2 DEF Holds
  <2> QED
    BY <1>2, <2>1, StagesTyped DEF Later
<1> QED
  BY <1>1, <1>2

LEMMA LaterSplits ==
  ASSUME NEW l, NEW k \in 1..4
  PROVE  /\ Later(l, k) => l[1] = Attributes[k] \/ Later(l, k + 1)
         /\ ~Later(l, 5)
  BY DEF Later

\* What is owed is what the model calls due.
LEMMA OwedIsDue ==
  ASSUME Typed, NEW r \in Requests, NEW l \in Lists, NEW ref \in lists[l], Owes(req[r], l, ref)
  PROVE  <<l, ref>> \in Due(r)
<1>1. <<l, ref>> \in AllVoid(req[r].what, lists)
  BY DEF AllVoid, Owes
<1>2. req[r].stage \in 1..4 /\ req[r].pc \in {"read", "write"}
  BY StagesTyped DEF Typed, Request, Owes
<1>3. CASE l \in req[r].todo
  BY <1>1, <1>2, <1>3 DEF Due
<1>4. CASE Later(l, IF req[r].pc = "read" THEN req[r].stage ELSE req[r].stage + 1)
  <2>1. PICK i \in 1..4 :
          l[1] = Attributes[i] /\ (IF req[r].pc = "read" THEN req[r].stage ELSE req[r].stage + 1) <= i
    BY <1>4 DEF Later
  <2>2. i \in 1..Len(Attributes) /\ i >= req[r].stage + (IF req[r].pc = "read" THEN 0 ELSE 1)
    BY <1>2, <2>1, StagesTyped
  <2> QED
    BY <1>1, <1>2, <2>1, <2>2 DEF Due
<1> QED
  BY <1>3, <1>4 DEF Owes

LEMMA CoveredIsKnown == Typed /\ AllCovered => DanglingIsKnown
<1> SUFFICES ASSUME Typed, AllCovered, NEW l \in Lists, NEW ref \in lists[l],
                    ref \in Thing \ things
             PROVE  <<l, ref>> \in known \cup UNION {Due(r) : r \in Requests}
  BY DEF DanglingIsKnown
<1>1. CASE <<l, ref>> \in known
  BY <1>1
<1>2. CASE \E r \in Requests : Owes(req[r], l, ref)
  BY <1>2, OwedIsDue
<1> QED
  BY <1>1, <1>2 DEF AllCovered, Covered

-----------------------------------------------------------------------------
(* Steps of one request, as the others see them *)

LEMMA OthersStay ==
  ASSUME Typed, NEW r, NEW next, NEW ls, GoUnseen(r, next, ls), NEW q \in Requests, q # r
  PROVE  /\ req'[q] \in Request
         /\ req'[q].pc = req[q].pc /\ req'[q].op = req[q].op /\ req'[q].what = req[q].what
         /\ req'[q].to = req[q].to /\ req'[q].stage = req[q].stage
         /\ req'[q].todo = req[q].todo /\ req'[q].read = req[q].read
         /\ req'[q].new = req[q].new /\ req'[q].unread = req[q].unread
         /\ req'[q].named = req[q].named
         /\ req'[q].since = req[q].since \cup (ls \cap Relies(req[q]))
<1> DEFINE since == req[q].since \cup (ls \cap Relies(req[q]))
<1>1. req[q] \in Request
  BY DEF Typed
<1>2. Relies(req[q]) \subseteq Lists
  <2>1. req[q].todo \subseteq Lists
    BY <1>1 DEF Request
  <2> QED
    BY <2>1 DEF Relies
<1>3. since \in SUBSET Lists
  <2>1. req[q].since \subseteq Lists
    BY <1>1 DEF Request
  <2> QED
    BY <1>2, <2>1
<1>4. req'[q] = [req[q] EXCEPT !.since = since]
  BY DEF GoUnseen
<1> HIDE DEF since
<1>5. /\ req'[q] \in Request
      /\ req'[q].pc = req[q].pc /\ req'[q].op = req[q].op /\ req'[q].what = req[q].what
      /\ req'[q].to = req[q].to /\ req'[q].stage = req[q].stage
      /\ req'[q].todo = req[q].todo /\ req'[q].read = req[q].read
      /\ req'[q].new = req[q].new /\ req'[q].unread = req[q].unread
      /\ req'[q].named = req[q].named /\ req'[q].since = since
  BY <1>1, <1>3, <1>4 DEF Request
<1> QED
  BY <1>5 DEF since

LEMMA OthersAreSound ==
  ASSUME Requested, NEW r, NEW next, NEW ls, GoUnseen(r, next, ls), NEW q \in Requests, q # r,
         NEW f, \A l \in Lists \ ls : f[l] = lists[l]
  PROVE  Sound(req'[q], f)
<1> DEFINE new == req'[q]
           old == req[q]
<1>1. Typed /\ Sound(old, lists) /\ old \in Request
  BY DEF Requested, Typed
<1>2. /\ new.pc = old.pc /\ new.op = old.op /\ new.what = old.what
      /\ new.to = old.to /\ new.stage = old.stage
      /\ new.todo = old.todo /\ new.read = old.read
      /\ new.new = old.new /\ new.unread = old.unread
      /\ new.named = old.named /\ new.since = old.since \cup (ls \cap Relies(old))
  BY <1>1, OthersStay
<1>3. old.todo \subseteq Lists
  BY <1>1 DEF Request
<1> HIDE DEF new, old
<1>4. Named(new)
  BY <1>1, <1>2 DEF Sound, Named
<1>5. Writable(new)
  BY <1>1, <1>2 DEF Sound, Writable
<1>6. Fresh(new, f)
  <2>1. old.pc \in {"write", "form", "save"} => Relies(old) = old.todo
    BY DEF Relies
  <2>2. ASSUME old.pc \in {"write", "form", "save"}, NEW l \in new.todo \ new.since
        PROVE  l \in old.todo \ old.since /\ f[l] = lists[l]
    BY <1>2, <1>3, <2>1, <2>2
  <2> QED
    BY <1>1, <1>2, <2>2 DEF Sound, Fresh
<1>7. LeftAreNamed(new, f)
  <2>1. old.pc = "remove" /\ old.op # "delete" => Relies(old) = Lists
    BY DEF Relies
  <2> QED
    BY <1>1, <1>2, <2>1 DEF Sound, LeftAreNamed
<1> QED
  BY <1>4, <1>5, <1>6, <1>7 DEF Sound, new

LEMMA OthersOwe ==
  ASSUME Typed, NEW r, NEW next, NEW ls, GoUnseen(r, next, ls), NEW q \in Requests, q # r,
         NEW l, NEW ref
  PROVE  Owes(req'[q], l, ref) <=> Owes(req[q], l, ref)
<1>1. /\ req'[q].pc = req[q].pc /\ req'[q].what = req[q].what
      /\ req'[q].stage = req[q].stage /\ req'[q].todo = req[q].todo
  BY OthersStay
<1> QED
  BY <1>1 DEF Owes

\* A step that writes in the lists ls at most, and lets the others know.
LEMMA UnseenRequested ==
  ASSUME Requested, NEW r, NEW next, NEW ls, GoUnseen(r, next, ls),
         r \in Requests => next \in Request /\ Sound(next, lists'),
         UNCHANGED edits, things' \subseteq Thing,
         lists' \in [Lists -> SUBSET Ref], \A l \in Lists : Fits(l, lists'[l]),
         \A l \in Lists \ ls : lists'[l] = lists[l]
  PROVE  Requested'
<1>1. \A q \in Requests : req'[q] \in Request /\ Sound(req'[q], lists')
  <2> TAKE q \in Requests
  <2>1. CASE q = r
    BY <2>1 DEF GoUnseen
  <2>2. CASE q # r
    BY <2>2, OthersStay, OthersAreSound DEF Requested
  <2> QED
    BY <2>1, <2>2
<1>2. req' \in [Requests -> Request]
  BY <1>1 DEF GoUnseen
<1>3. Typed'
  BY <1>2 DEF Requested, Typed
<1> QED
  BY <1>1, <1>3 DEF Requested

(***************************************************************************)
(* A step that writes nothing: what it no longer owes is known.            *)
(***************************************************************************)
LEMMA QuietKeeps ==
  ASSUME IInv, NEW r \in Requests, NEW next \in Request, Go(r, next), Sound(next, lists),
         UNCHANGED <<edits, things, lists, intended, cleared>>, known \subseteq known',
         \A l \in Lists : \A ref \in lists[l] :
           Owes(req[r], l, ref) => Owes(next, l, ref) \/ <<l, ref>> \in known'
  PROVE  IInv'
<1>1. req' \in [Requests -> Request] /\ req'[r] = next
      /\ \A q \in Requests \ {r} : req'[q] = req[q]
  BY DEF Go, IInv, Requested, Typed
<1>2. \A q \in Requests : Sound(req'[q], lists)
  BY <1>1 DEF IInv, Requested
<1>3. Requested'
  <2>1. Typed'
    BY <1>1 DEF IInv, Requested, Typed
  <2> QED
    BY <1>2, <2>1 DEF Requested
<1>4. AllCovered'
  <2> SUFFICES ASSUME NEW l \in Lists, NEW ref \in lists[l], ref \in Thing \ things,
                      <<l, ref>> \notin known'
               PROVE  \E q \in Requests : Owes(req'[q], l, ref)
    BY DEF AllCovered, Covered
  <2>1. PICK q \in Requests : Owes(req[q], l, ref)
    BY DEF IInv, AllCovered, Covered
  <2> QED
    BY <1>1, <2>1
<1> QED
  BY <1>3, <1>4 DEF IInv, Faithful

\* To or from a place where nothing is owed.
LEMMA PlainKeeps ==
  ASSUME IInv, NEW r \in Requests, NEW next \in Request, Go(r, next), Sound(next, lists),
         req[r].pc \notin {"read", "write"},
         UNCHANGED <<edits, things, lists, intended, cleared, known>>
  PROVE  IInv'
  BY QuietKeeps DEF Owes

(***************************************************************************)
(* One list is written: what is void in it afterwards is known.            *)
(***************************************************************************)
LEMMA WriteKeeps ==
  ASSUME IInv, NEW r \in Requests, NEW next \in Request, NEW l \in Lists,
         NEW vs \in SUBSET Ref, NEW delta, WriteList(r, l, vs, delta, next),
         Fits(l, vs), l \notin req[r].since \cup cleared' => vs = delta,
         cleared \subseteq cleared', cleared' \subseteq cleared \cup {l},
         l \in cleared' => l[1] = "triple",
         Sound(next, [lists EXCEPT ![l] = vs]),
         UNCHANGED <<edits, things>>, known' = known \cup Void(l, vs, things),
         \A m \in Lists \ {l} : \A ref \in lists[m] : Owes(req[r], m, ref) => Owes(next, m, ref)
  PROVE  IInv'
<1>1. /\ lists' = [lists EXCEPT ![l] = vs] /\ GoUnseen(r, next, {l})
      /\ intended' = [intended EXCEPT ![l] = IF l \in req[r].since THEN vs ELSE delta]
  BY DEF WriteList
<1>2. lists \in [Lists -> SUBSET Ref] /\ \A m \in Lists : Fits(m, lists[m])
  BY DEF IInv, Requested, Typed
<1>3. /\ lists' \in [Lists -> SUBSET Ref] /\ lists'[l] = vs
      /\ \A m \in Lists \ {l} : lists'[m] = lists[m]
  BY <1>1, <1>2
<1>4. Requested'
  <2>1. Sound(next, lists')
    BY <1>1
  <2>2. things' \subseteq Thing /\ \A m \in Lists : Fits(m, lists'[m])
    BY <1>2, <1>3 DEF IInv, Requested, Typed
  <2> QED
    BY <1>1, <1>3, <2>1, <2>2, UnseenRequested DEF IInv
<1>5. AllCovered'
  <2> SUFFICES ASSUME NEW m \in Lists, NEW ref \in lists'[m], ref \in Thing \ things,
                      <<m, ref>> \notin known'
               PROVE  \E q \in Requests : Owes(req'[q], m, ref)
    BY DEF AllCovered, Covered
  <2>1. m # l
    BY <1>3 DEF Void
  <2>2. ref \in lists[m] /\ <<m, ref>> \notin known
    BY <1>3, <2>1
  <2>3. PICK q \in Requests : Owes(req[q], m, ref)
    BY <2>2 DEF IInv, AllCovered, Covered
  <2>4. CASE q = r
    BY <1>1, <2>1, <2>2, <2>3, <2>4 DEF GoUnseen
  <2>5. CASE q # r
    BY <1>1, <2>3, <2>5, OthersOwe DEF IInv, Requested
  <2> QED
    BY <2>4, <2>5
<1>6. Faithful'
  <2> DEFINE ws == IF l \in req[r].since THEN vs ELSE delta
  <2>1. l \notin cleared' => ws = vs
    OBVIOUS
  <2>2. intended' = [intended EXCEPT ![l] = ws]
    BY <1>1
  <2> HIDE DEF ws
  <2> QED
    BY <1>3, <2>1, <2>2 DEF IInv, Faithful
<1> QED
  BY <1>4, <1>5, <1>6 DEF IInv

(***************************************************************************)
(* An entry gets another name: its lists go with it, and with them what is *)
(* known of them and what others still had to write there.                 *)
(***************************************************************************)
LEMMA Counterpart ==
  ASSUME NEW t \in Thing, NEW t2 \in Thing, t[1] = t2[1], NEW l \in Lists, Owner(l) = t2
  PROVE  /\ <<l[1], t[2]>> \in Lists /\ Owner(<<l[1], t[2]>>) = t
         /\ l = <<l[1], t2[2]>>
<1> DEFINE m == <<l[1], t[2]>>
<1>1. m[1] = l[1] /\ m[2] = t[2]
  OBVIOUS
<1>2. t = <<t[1], t[2]>> /\ t2 = <<t2[1], t2[2]>> /\ l = <<l[1], l[2]>>
  BY DEF Thing, Lists
<1>3. l[2] = t2[2]
  BY DEF Owner
<1>4. Owner(m) = t
  BY <1>1, <1>2 DEF Owner
<1>5. m \in Lists
  BY DEF Owner, Thing, Lists
<1> QED
  BY <1>2, <1>3, <1>4, <1>5

LEMMA MovedAreTyped ==
  ASSUME Typed, NEW t \in Thing, NEW t2 \in Thing, t[1] = t2[1]
  PROVE  /\ Moved(lists, t, t2) \in [Lists -> SUBSET Ref]
         /\ \A l \in Lists : Fits(l, Moved(lists, t, t2)[l])
         /\ \A l \in Lists \ (ListsOf(t) \cup ListsOf(t2)) : Moved(lists, t, t2)[l] = lists[l]
<1> DEFINE new == Moved(lists, t, t2)
<1>1. ASSUME NEW l \in Lists
      PROVE  /\ new[l] = IF Owner(l) = t THEN {}
                         ELSE IF Owner(l) = t2 THEN lists[<<l[1], t[2]>>] ELSE lists[l]
             /\ new[l] \in SUBSET Ref /\ Fits(l, new[l])
  <2>1. new[l] = IF Owner(l) = t THEN {}
                 ELSE IF Owner(l) = t2 THEN lists[<<l[1], t[2]>>] ELSE lists[l]
    BY DEF Moved
  <2> HIDE DEF new
  <2>2. CASE Owner(l) = t
    BY <2>1, <2>2 DEF Fits, Single
  <2>3. CASE Owner(l) # t /\ Owner(l) = t2
    <3> DEFINE m == <<l[1], t[2]>>
    <3>1. m \in Lists /\ m[1] = l[1] /\ new[l] = lists[m]
      BY <2>1, <2>3, Counterpart
    <3> HIDE DEF m
    <3> QED
      BY <2>1, <2>3, <3>1 DEF m, Typed, Fits, Holds
  <2>4. CASE Owner(l) # t /\ Owner(l) # t2
    BY <2>1, <2>4 DEF Typed
  <2> QED
    BY <2>1, <2>2, <2>3, <2>4
<1>2. new = [l \in Lists |-> new[l]]
  BY DEF Moved
<1>3. \A l \in Lists \ (ListsOf(t) \cup ListsOf(t2)) : new[l] = lists[l]
  BY <1>1 DEF ListsOf
<1> HIDE DEF new
<1>4. new \in [Lists -> SUBSET Ref]
  BY <1>1, <1>2
<1> QED
  BY <1>1, <1>3, <1>4 DEF new

LEMMA MovedPairsHold ==
  ASSUME NEW t, NEW t2, NEW l, NEW ref,
         \/ <<l, ref>> \in known /\ ref # t2
         \/ \E q \in Requests : req[q].pc = "write" /\ l \in ListsOf(t) \cap req[q].todo
                                /\ ref = req[q].what
  PROVE  /\ Owner(l) = t => <<<<l[1], t2[2]>>, ref>> \in MovedPairs(t, t2)
         /\ Owner(l) # t => <<l, ref>> \in MovedPairs(t, t2)
<1> DEFINE p == <<l, ref>>
           pairs == {q \in known : q[2] # t2} \cup
                      UNION {{<<m, req[r].what>> : m \in ListsOf(t) \cap req[r].todo} :
                               r \in {q \in Requests : req[q].pc = "write"}}
<1>1. p[1] = l /\ p[2] = ref
  OBVIOUS
<1>2. p \in pairs
  <2>1. CASE <<l, ref>> \in known /\ ref # t2
    BY <1>1, <2>1
  <2>2. CASE \E q \in Requests : req[q].pc = "write" /\ l \in ListsOf(t) \cap req[q].todo
                                 /\ ref = req[q].what
    BY <2>2
  <2> QED
    BY <2>1, <2>2
<1>3. <<IF Owner(p[1]) = t THEN <<p[1][1], t2[2]>> ELSE p[1], p[2]>> \in MovedPairs(t, t2)
  BY <1>2 DEF MovedPairs
<1> QED
  BY <1>1, <1>3

LEMMA MovingKeeps ==
  ASSUME IInv, NEW r \in Requests, NEW next \in Request, NEW t \in things,
         NEW t2 \in Thing \ things, t[1] = t2[1], t[1] \in {"user", "group"},
         things' = (things \ {t}) \cup {t2}, UNCHANGED <<edits, cleared>>,
         lists' = Moved(lists, t, t2), intended' = Moved(intended, t, t2),
         GoUnseen(r, next, ListsOf(t) \cup ListsOf(t2)), MovedPairs(t, t2) \subseteq known',
         req[r].pc \notin {"read", "write"}, Sound(next, lists'),
         \A l \in Lists : t \in lists'[l] => <<l, t>> \in known' \/ Owes(next, l, t)
  PROVE  IInv'
<1>1. Typed /\ t \in Thing /\ t2 \in Thing /\ t # t2
  BY DEF IInv, Requested, Typed
<1>2. /\ lists' \in [Lists -> SUBSET Ref] /\ \A l \in Lists : Fits(l, lists'[l])
      /\ \A l \in Lists \ (ListsOf(t) \cup ListsOf(t2)) : lists'[l] = lists[l]
  BY <1>1, MovedAreTyped
<1>3. Requested'
  <2>1. things' \subseteq Thing
    BY <1>1 DEF Typed
  <2> QED
    BY <1>2, <2>1, UnseenRequested DEF IInv
<1>4. AllCovered'
  <2> SUFFICES ASSUME NEW l \in Lists, NEW ref \in lists'[l], ref \in Thing \ things',
                      <<l, ref>> \notin known'
               PROVE  \E q \in Requests : Owes(req'[q], l, ref)
    BY DEF AllCovered, Covered
  <2>1. CASE ref = t
    <3>1. req'[r] = next
      BY DEF GoUnseen
    <3> QED
      BY <2>1, <3>1
  <2>2. CASE ref # t
    <3>1. ref \in Thing \ things /\ ref # t2
      BY <2>2
    <3>2. PICK m \in Lists : /\ ref \in lists[m] /\ m[1] = l[1]
                             /\ \/ m = l /\ Owner(m) # t
                                \/ Owner(m) = t /\ l = <<m[1], t2[2]>>
      <4>1. lists'[l] = IF Owner(l) = t THEN {}
                        ELSE IF Owner(l) = t2 THEN lists[<<l[1], t[2]>>] ELSE lists[l]
        BY DEF Moved
      <4>2. CASE Owner(l) = t2
        <5> DEFINE m == <<l[1], t[2]>>
        <5>1. m \in Lists /\ Owner(m) = t /\ l = <<l[1], t2[2]>> /\ m[1] = l[1]
          BY <1>1, <4>2, Counterpart
        <5>2. ref \in lists[m]
          BY <1>1, <4>1, <4>2
        <5> HIDE DEF m
        <5> QED
          BY <5>1, <5>2
      <4>3. CASE Owner(l) # t2
        BY <4>1, <4>3
      <4> QED
        BY <4>2, <4>3
    <3>3. <<m, ref>> \in known => <<l, ref>> \in MovedPairs(t, t2)
      BY <3>1, <3>2, MovedPairsHold
    <3>4. PICK q \in Requests : Owes(req[q], m, ref)
      BY <3>1, <3>2, <3>3 DEF IInv, AllCovered, Covered
    <3>5. q # r
      BY <3>4 DEF Owes
    <3>6. CASE m = l
      BY <1>1, <3>4, <3>5, <3>6, OthersOwe
    <3>7. CASE m # l
      <4>1. m \in ListsOf(t) /\ Owner(m) = t
        BY <3>2, <3>7 DEF ListsOf
      <4>2. m \notin req[q].todo
        <5> SUFFICES ASSUME m \in req[q].todo PROVE FALSE
          OBVIOUS
        <5>1. req[q].pc = "write" /\ ref = req[q].what
          BY <3>4 DEF Owes, IInv, Requested, Sound, Named
        <5>2. <<l, ref>> \in MovedPairs(t, t2)
          BY <3>2, <3>7, <4>1, <5>1, MovedPairsHold
        <5> QED
          BY <5>2
      <4>3. Owes(req[q], l, ref)
        BY <3>2, <3>4, <4>2 DEF Owes, Later
      <4> QED
        BY <1>1, <3>5, <4>3, OthersOwe
    <3> QED
      BY <3>6, <3>7
  <2> QED
    BY <2>1, <2>2
<1>5. Faithful'
  <2> SUFFICES ASSUME NEW l \in Lists \ cleared
               PROVE  Moved(lists, t, t2)[l] = Moved(intended, t, t2)[l]
    BY DEF Moved, IInv, Faithful
  <2>1. CASE Owner(l) = t2
    <3> DEFINE m == <<l[1], t[2]>>
    <3>1. m \in Lists /\ Owner(m) = t /\ m[1] = l[1]
      BY <1>1, <2>1, Counterpart
    <3>2. m \notin cleared
      <4>1. t2[1] # "netgroup"
        OBVIOUS
      <4> QED
        BY <2>1, <3>1, <4>1 DEF Owner, IInv, Faithful
    <3>3. lists[m] = intended[m]
      BY <3>1, <3>2 DEF IInv, Faithful
    <3> QED
      BY <2>1, <3>3 DEF Moved
  <2>2. CASE Owner(l) # t2
    BY <2>2 DEF Moved, IInv, Faithful
  <2> QED
    BY <2>1, <2>2
<1> QED
  BY <1>3, <1>4, <1>5 DEF IInv

(***************************************************************************)
(* An entry goes, and its lists with it.                                   *)
(***************************************************************************)
LEMMA RemovingKeeps ==
  ASSUME IInv, NEW r, NEW next, NEW t \in things,
         things' = things \ {t}, UNCHANGED <<edits, cleared>>,
         lists' = Without(lists, t), intended' = Without(intended, t),
         GoUnseen(r, next, ListsOf(t)),
         {p \in known : Owner(p[1]) # t} \subseteq known',
         r \in Requests => /\ req[r].pc \notin {"read", "write"} /\ next \in Request
                           /\ Sound(next, lists'),
         \A l \in Lists : t \in lists'[l] =>
            <<l, t>> \in known' \/ (r \in Requests /\ Owes(next, l, t))
  PROVE  IInv'
<1>1. Typed
  BY DEF IInv, Requested
<1>2. \A l \in Lists : lists'[l] = IF Owner(l) = t THEN {} ELSE lists[l]
  BY DEF Without
<1>3. /\ lists' \in [Lists -> SUBSET Ref] /\ \A l \in Lists : Fits(l, lists'[l])
      /\ \A l \in Lists \ ListsOf(t) : lists'[l] = lists[l]
  <2>1. \A l \in Lists : lists'[l] \in SUBSET Ref /\ Fits(l, lists'[l])
    BY <1>1, <1>2 DEF Typed, Fits, Single
  <2>2. lists' \in [Lists -> SUBSET Ref]
    BY <2>1 DEF Without
  <2> QED
    BY <1>2, <2>1, <2>2 DEF ListsOf
<1>4. Requested'
  <2>1. things' \subseteq Thing
    BY <1>1 DEF Typed
  <2> QED
    BY <1>3, <2>1, UnseenRequested DEF IInv
<1>5. AllCovered'
  <2> SUFFICES ASSUME NEW l \in Lists, NEW ref \in lists'[l], ref \in Thing \ things',
                      <<l, ref>> \notin known'
               PROVE  \E q \in Requests : Owes(req'[q], l, ref)
    BY DEF AllCovered, Covered
  <2>1. CASE ref = t
    BY <2>1 DEF GoUnseen
  <2>2. CASE ref # t
    <3>1. Owner(l) # t /\ ref \in lists[l] /\ ref \in Thing \ things
      BY <1>2, <2>2
    <3>2. <<l, ref>>[1] = l
      OBVIOUS
    <3>3. <<l, ref>> \notin known
      BY <3>1, <3>2
    <3>4. PICK q \in Requests : Owes(req[q], l, ref)
      BY <3>1, <3>3 DEF IInv, AllCovered, Covered
    <3>5. q # r
      BY <3>4 DEF Owes
    <3> QED
      BY <1>1, <3>4, <3>5, OthersOwe
  <2> QED
    BY <2>1, <2>2
<1>6. Faithful'
  BY <1>2 DEF Without, IInv, Faithful
<1> QED
  BY <1>4, <1>5, <1>6 DEF IInv

-----------------------------------------------------------------------------
(* Going on *)

LEMMA RunningIsSound ==
  ASSUME IInv, NEW r \in Requests
  PROVE  req[r] \in Request /\ Sound(req[r], lists)
  BY DEF IInv, Requested, Typed

LEMMA AheadIsSound ==
  ASSUME IInv, NEW r \in Requests, req[r].pc \in {"read", "write"}
  PROVE  /\ Ahead(r) \in Request /\ \A f : Sound(Ahead(r), f)
         /\ \A l \in Lists : \A ref \in lists[l] :
              ref = req[r].what /\ Later(l, req[r].stage + 1) => Owes(Ahead(r), l, ref)
<1> DEFINE old == req[r]
           last == IF old.what[1] = "user" THEN Manager ELSE 2
           on == [old EXCEPT !.pc = "read", !.stage = @ + 1, !.todo = {},
                             !.read = NoLists, !.since = {}]
           over == [old EXCEPT !.pc = "primary", !.todo = {}, !.read = NoLists, !.since = {}]
<1>1. old \in Request /\ Sound(old, lists) /\ old.stage \in 1..4
  BY RunningIsSound, StagesTyped DEF Request
<1>2. Ahead(r) = IF old.stage < last THEN on ELSE IF old.op = "rename" THEN over ELSE Idle
  BY DEF Ahead
<1>3. /\ \/ old.op \in {"rename", "delete"} /\ old.what[1] = "user"
         \/ old.op = "renameGroup" /\ old.what[1] = "group" /\ old.stage = 2
      /\ old.what \in Thing
      /\ old.op # "delete" => old.to \in Thing /\ old.to[1] = old.what[1] /\ old.to # old.what
  BY <1>1 DEF Sound, Named
<1> HIDE DEF old
<1>4. CASE old.stage < last
  <2>1. old.what[1] = "user" /\ old.stage + 1 \in 1..Manager
    BY <1>1, <1>3, <1>4, StagesTyped
  <2>2. /\ on \in Request /\ on.pc = "read" /\ on.op = old.op /\ on.what = old.what
        /\ on.to = old.to /\ on.stage = old.stage + 1 /\ on.todo = {} /\ on.read = NoLists
    <3>1. NoLists \in [Lists -> SUBSET Ref]
      BY IdleIsSound
    <3>2. on \in Request
      BY <1>1, <2>1, <3>1 DEF Request
    <3> QED
      BY <1>1, <3>2 DEF Request
  <2> HIDE DEF on
  <2>3. \A f : Sound(on, f)
    BY <1>3, <2>1, <2>2, IdleIsSound DEF Sound, Named, Writable, Fresh, LeftAreNamed
  <2>4. \A l, ref : ref = old.what /\ Later(l, old.stage + 1) => Owes(on, l, ref)
    BY <2>2 DEF Owes
  <2>5. Ahead(r) = on
    BY <1>2, <1>4
  <2> QED
    BY <2>2, <2>3, <2>4, <2>5 DEF old
<1>5. CASE ~(old.stage < last)
  <2>1. Ahead(r) \in Request /\ \A f : Sound(Ahead(r), f)
    <3>1. CASE old.op = "rename"
      <4>1. /\ over \in Request /\ over.pc = "primary" /\ over.op = old.op
            /\ over.what = old.what /\ over.to = old.to /\ over.read = NoLists
        <5>1. NoLists \in [Lists -> SUBSET Ref]
          BY IdleIsSound
        <5>2. over \in Request
          BY <1>1, <5>1 DEF Request
        <5> QED
          BY <1>1, <5>2 DEF Request
      <4> HIDE DEF over
      <4>2. \A f : Sound(over, f)
        BY <1>3, <3>1, <4>1, IdleIsSound DEF Sound, Named, Writable, Fresh, LeftAreNamed
      <4>3. Ahead(r) = over
        BY <1>2, <1>5, <3>1
      <4> QED
        BY <4>1, <4>2, <4>3
    <3>2. CASE old.op # "rename"
      BY <1>2, <1>5, <3>2, IdleIsSound
    <3> QED
      BY <3>1, <3>2
  <2>2. ASSUME NEW l \in Lists, NEW ref \in lists[l], ref = old.what, Later(l, old.stage + 1)
        PROVE  FALSE
    <3>1. CASE old.what[1] = "user"
      <4>1. old.stage = 4
        BY <1>1, <1>5, <3>1, StagesTyped
      <4> QED
        BY <2>2, <4>1, LaterSplits
    <3>2. CASE old.what[1] # "user"
      <4>1. old.stage = 2 /\ ref[1] = "group"
        BY <1>3, <2>2, <3>2
      <4>2. Holds(l, ref)
        BY DEF IInv, Requested, Typed, Fits
      <4> QED
        BY <2>2, <4>1, <4>2, StagesCover
    <3> QED
      BY <3>1, <3>2
  <2> QED
    BY <2>1, <2>2 DEF old
<1> QED
  BY <1>4, <1>5

LEMMA DoneIsSound ==
  ASSUME IInv, NEW r \in Requests, req[r].pc = "write", NEW l \in req[r].todo
  PROVE  /\ l \in Lists /\ Done(r, l) \in Request
         /\ \A f : (\A m \in Lists \ {l} : f[m] = lists[m]) => Sound(Done(r, l), f)
         /\ \A m \in Lists \ {l} : \A ref \in lists[m] :
              Owes(req[r], m, ref) => Owes(Done(r, l), m, ref)
<1> DEFINE old == req[r]
           read == [old.read EXCEPT ![l] = {}]
           new == [old EXCEPT !.todo = @ \ {l}, !.read = read, !.since = @ \ {l}]
<1>1. /\ old \in Request /\ Sound(old, lists) /\ old.todo \subseteq Lists /\ l \in Lists
      /\ old.read \in [Lists -> SUBSET Ref]
  BY RunningIsSound DEF Request
<1>2. CASE old.todo = {l}
  <2>1. Done(r, l) = Ahead(r)
    BY <1>2 DEF Done
  <2>2. ASSUME NEW m \in Lists \ {l}, NEW ref \in lists[m], Owes(old, m, ref)
        PROVE  Owes(Ahead(r), m, ref)
    <3>1. ref = old.what /\ Later(m, old.stage + 1)
      BY <1>2, <2>2 DEF Owes
    <3> QED
      BY <3>1, AheadIsSound
  <2> QED
    BY <1>1, <2>1, <2>2, AheadIsSound
<1>3. CASE old.todo # {l}
  <2>1. Done(r, l) = new
    BY <1>1, <1>3 DEF Done, Request
  <2>2. /\ read \in [Lists -> SUBSET Ref] /\ read[l] = {}
        /\ \A m \in Lists \ {l} : read[m] = old.read[m]
    BY <1>1
  <2> HIDE DEF read
  <2>3. /\ new \in Request /\ new.pc = old.pc /\ new.op = old.op /\ new.what = old.what
        /\ new.to = old.to /\ new.stage = old.stage /\ new.read = read
        /\ new.todo = old.todo \ {l} /\ new.since = old.since \ {l}
    BY <1>1, <2>2 DEF Request
  <2> HIDE DEF new, old
  <2>4. old.pc = "write"
    BY DEF old
  <2>5. Named(new)
    BY <1>1, <2>3, <2>4 DEF Sound, Named
  <2>6. Writable(new)
    <3>1. Fits(l, {})
      BY DEF Fits, Single
    <3> QED
      BY <1>1, <2>2, <2>3, <2>4, <3>1 DEF Sound, Writable
  <2>7. ASSUME NEW f, \A m \in Lists \ {l} : f[m] = lists[m]
        PROVE  Sound(new, f)
    <3>1. Fresh(new, f)
      BY <1>1, <2>2, <2>3, <2>4, <2>7 DEF Sound, Fresh
    <3> QED
      BY <2>3, <2>4, <2>5, <2>6, <3>1 DEF Sound, LeftAreNamed
  <2>8. \A m \in Lists \ {l} : \A ref : Owes(old, m, ref) => Owes(new, m, ref)
    BY <2>3 DEF Owes
  <2> QED
    BY <1>1, <2>1, <2>3, <2>7, <2>8 DEF old
<1> QED
  BY <1>2, <1>3

-----------------------------------------------------------------------------
(* Renaming *)

LEMMA BeginRenameKeeps ==
  ASSUME IInv, NEW r \in Requests, BeginRename(r) PROVE IInv'
<1>1. PICK op \in {"rename", "renameGroup"}, t \in things, t2 \in Thing \ things :
        /\ t[1] = t2[1] /\ t[1] = (IF op = "rename" THEN "user" ELSE "group")
        /\ Go(r, [Idle EXCEPT !.pc = "move", !.op = op, !.what = t, !.to = t2])
  BY DEF BeginRename
<1> DEFINE new == [Idle EXCEPT !.pc = "move", !.op = op, !.what = t, !.to = t2]
<1>2. things \subseteq Thing
  BY DEF IInv, Requested, Typed
<1>3. /\ new \in Request /\ new.pc = "move" /\ new.op = op /\ new.what = t /\ new.to = t2
      /\ new.read = NoLists /\ new.todo = {}
  <2>1. op \in Ops
    BY DEF Ops
  <2> QED
    BY <1>2, <2>1, IdleIsSound DEF Request
<1>4. Go(r, new)
  BY <1>1
<1> HIDE DEF new
<1>5. Sound(new, lists)
  BY <1>1, <1>2, <1>3, IdleIsSound DEF Sound, Named, Writable, Fresh, LeftAreNamed
<1>6. req[r].pc = "idle" /\ UNCHANGED <<edits, things, lists, intended, cleared, known>>
  BY IdleIsSound DEF BeginRename
<1> QED
  BY <1>3, <1>4, <1>5, <1>6, PlainKeeps

\* After ModifyDN the account is ahead of it in every list, or an error says so.
LEMMA MoveKeeps ==
  ASSUME IInv, NEW r \in Requests, Move(r) PROVE IInv'
<1>0. PICK t \in things, t2 \in Thing \ things : t = req[r].what /\ t2 = req[r].to
  BY RunningIsSound DEF Move, Sound, Named
<1> DEFINE new == [req[r] EXCEPT !.pc = "read", !.stage = IF t[1] = "user" THEN 1 ELSE 2]
<1>1. /\ req[r].pc = "move"
      /\ things' = (things \ {t}) \cup {t2} /\ UNCHANGED <<edits, cleared>>
      /\ lists' = Moved(lists, t, t2) /\ intended' = Moved(intended, t, t2)
      /\ \/ /\ GoUnseen(r, new, ListsOf(t) \cup ListsOf(t2))
            /\ known' = MovedPairs(t, t2)
         \/ /\ GoUnseen(r, Idle, ListsOf(t) \cup ListsOf(t2))
            /\ known' = MovedPairs(t, t2) \cup AllVoid(t, lists')
  BY <1>0 DEF Move
<1>2. req[r] \in Request /\ Sound(req[r], lists) /\ t \in Thing
  BY RunningIsSound DEF IInv, Requested, Typed
<1>3. /\ \/ req[r].op = "rename" /\ t[1] = "user"
         \/ req[r].op = "renameGroup" /\ t[1] = "group"
      /\ t[1] = t2[1]
  BY <1>0, <1>1, <1>2 DEF Sound, Named
<1>4. CASE /\ GoUnseen(r, new, ListsOf(t) \cup ListsOf(t2))
           /\ known' = MovedPairs(t, t2)
  <2> DEFINE stage == IF t[1] = "user" THEN 1 ELSE 2
  <2>1. stage \in 1..Manager
    BY StagesTyped
  <2> HIDE DEF stage
  <2>2. new = [req[r] EXCEPT !.pc = "read", !.stage = stage]
    BY DEF stage
  <2> HIDE DEF new
  <2>3. /\ new \in Request /\ new.pc = "read" /\ new.op = req[r].op /\ new.what = t
        /\ new.to = t2 /\ new.stage = stage /\ new.todo = req[r].todo
        /\ new.read = req[r].read
    BY <1>0, <1>2, <2>1, <2>2 DEF Request
  <2>4. req[r].todo = {}
    BY <1>1, <1>2 DEF Sound, Named
  <2>5. Sound(new, lists')
    BY <1>0, <1>2, <1>3, <2>3, <2>4 DEF Sound, Named, Writable, Fresh, LeftAreNamed, stage
  <2>6. ASSUME NEW l \in Lists, t \in lists'[l] PROVE Owes(new, l, t)
    <3>1. Holds(l, t)
      BY <1>0, <1>1, <1>2, <1>3, <2>6, MovedAreTyped DEF IInv, Requested, Fits
    <3>2. Later(l, stage)
      BY <1>3, <3>1, StagesCover DEF stage
    <3> QED
      BY <2>3, <3>2 DEF Owes
  <2> QED
    BY <1>1, <1>3, <1>4, <2>3, <2>5, <2>6, MovingKeeps
<1>5. CASE /\ GoUnseen(r, Idle, ListsOf(t) \cup ListsOf(t2))
           /\ known' = MovedPairs(t, t2) \cup AllVoid(t, lists')
  <2>1. \A l \in Lists : t \in lists'[l] => <<l, t>> \in known'
    BY <1>5 DEF AllVoid
  <2> QED
    BY <1>1, <1>3, <1>5, <2>1, IdleIsSound, MovingKeeps
<1> QED
  BY <1>1, <1>4, <1>5

\* The search finds every list of its attribute that names what was renamed; a search
\* that fails names them all.
LEMMA ReadListsKeeps ==
  ASSUME IInv, NEW r \in Requests, ReadLists(r) PROVE IInv'
<1> DEFINE t == req[r].what
           attr == Attributes[req[r].stage]
           found == {l \in Found(attr, t) :
                       attr = "sudoUser" /\ req[r].op = "delete" => t \in lists[l]}
           read == [l \in Lists |-> IF l \in found THEN lists[l] ELSE {}]
           new == [req[r] EXCEPT !.pc = "write", !.todo = found, !.since = {}, !.read = read]
<1>1. /\ req[r].pc = "read" /\ UNCHANGED <<edits, things, lists, intended, cleared>>
      /\ \/ Go(r, IF found = {} THEN Ahead(r) ELSE new) /\ UNCHANGED known
         \/ /\ Go(r, Ahead(r))
            /\ known' = known \cup {p \in AllVoid(t, lists) : p[1][1] = attr}
  BY DEF ReadLists
<1>2. /\ req[r] \in Request /\ Sound(req[r], lists) /\ req[r].stage \in 1..4
      /\ lists \in [Lists -> SUBSET Ref] /\ \A l \in Lists : Fits(l, lists[l])
  BY RunningIsSound, StagesTyped DEF Request, IInv, Requested, Typed
<1>3. ASSUME NEW l \in Lists, NEW ref \in lists[l], Owes(req[r], l, ref)
      PROVE  /\ ref = t
             /\ l[1] = attr \/ Later(l, req[r].stage + 1)
  <2>1. ref = t /\ (Later(l, req[r].stage) \/ l \in req[r].todo)
    BY <1>1, <1>3 DEF Owes
  <2>2. req[r].todo = {}
    BY <1>1, <1>2 DEF Sound, Named
  <2> QED
    BY <1>2, <2>1, <2>2, LaterSplits
<1>4. ASSUME NEW l \in Lists, t \in lists[l], l[1] = attr PROVE l \in found
  <2>1. t \in Reaching(t)
    BY DEF Reaching
  <2> QED
    BY <1>4, <2>1 DEF Found
<1>5. CASE Go(r, Ahead(r)) /\ (found = {} \/ known' = known \cup {p \in AllVoid(t, lists) : p[1][1] = attr})
           /\ known \subseteq known'
  <2>1. ASSUME NEW l \in Lists, NEW ref \in lists[l], Owes(req[r], l, ref)
        PROVE  Owes(Ahead(r), l, ref) \/ <<l, ref>> \in known'
    <3>1. CASE l[1] = attr
      <4>1. <<l, ref>> \in AllVoid(t, lists) /\ <<l, ref>>[1] = l
        BY <1>3, <2>1 DEF AllVoid
      <4>2. found # {}
        BY <1>3, <1>4, <2>1, <3>1
      <4> HIDE DEF found
      <4> QED
        BY <1>5, <3>1, <4>1, <4>2
    <3>2. CASE Later(l, req[r].stage + 1)
      BY <1>1, <1>3, <2>1, <3>2, AheadIsSound
    <3> QED
      BY <1>3, <2>1, <3>1, <3>2
  <2> HIDE DEF found
  <2> QED
    BY <1>1, <1>5, <2>1, AheadIsSound, QuietKeeps
<1>6. CASE Go(r, new) /\ UNCHANGED known
  <2>1. /\ found \in SUBSET Lists
        /\ \A l \in found : l[1] = attr
        /\ \A l \in found : l[1] = "manager" => t \in lists[l]
    BY DEF Found
  <2> HIDE DEF found
  <2>2. read \in [Lists -> SUBSET Ref] /\ \A l \in Lists : Fits(l, read[l])
    BY <1>2, <2>1 DEF Fits, Single
  <2>3. \A l \in found : read[l] = lists[l]
    BY <2>1
  <2> HIDE DEF read
  <2>4. /\ new \in Request /\ new.pc = "write" /\ new.op = req[r].op /\ new.what = t
        /\ new.to = req[r].to /\ new.stage = req[r].stage /\ new.todo = found
        /\ new.since = {} /\ new.read = read
    BY <1>2, <2>1, <2>2 DEF Request
  <2> HIDE DEF new
  <2>5. Named(new)
    BY <1>1, <1>2, <2>4 DEF Sound, Named
  <2>6. Writable(new)
    <3>1. \A l \in Lists : Fits(l, new.read[l])
      BY <2>2, <2>4
    <3>2. \A l \in found : l[1] = "manager" => t \in new.read[l]
      BY <2>1, <2>4, <2>3
    <3> QED
      BY <2>4, <3>1, <3>2 DEF Writable
  <2>7. Fresh(new, lists) /\ LeftAreNamed(new, lists)
    <3>1. ASSUME NEW l \in new.todo \ new.since PROVE new.read[l] = lists[l]
      <4>1. l \in found /\ new.read = read
        BY <2>4
      <4>2. read[l] = lists[l]
        BY <2>3, <4>1
      <4> QED
        BY <4>1, <4>2, Zenon
    <3>2. new.pc = "write"
      BY <2>4
    <3> QED
      BY <3>1, <3>2 DEF Fresh, LeftAreNamed
  <2>8. ASSUME NEW l \in Lists, NEW ref \in lists[l], Owes(req[r], l, ref)
        PROVE  Owes(new, l, ref)
    BY <1>3, <1>4, <2>4, <2>8 DEF Owes
  <2> QED
    BY <1>1, <1>6, <2>4, <2>5, <2>6, <2>7, <2>8, QuietKeeps DEF Sound
<1> HIDE DEF new, found
<1> QED
  BY <1>1, <1>5, <1>6

LEMMA SwapFits ==
  ASSUME NEW l \in Lists, NEW vs \in SUBSET Ref, Fits(l, vs),
         NEW t \in Thing, NEW t2 \in Thing, t[1] = t2[1]
  PROVE  Swap(vs, t, t2) \in SUBSET Ref /\ Fits(l, Swap(vs, t, t2))
<1>1. ASSUME NEW w \in Swap(vs, t, t2)
      PROVE  w \in Ref /\ Holds(l, w)
  <2>1. PICK v \in vs : w = IF v = t THEN t2 ELSE v
    BY DEF Swap
  <2>2. CASE v = t
    <3>1. w = t2 /\ t \in Ref
      BY <2>1, <2>2
    <3>2. t2[1] # "role"
      BY <3>1, ThingsTyped
    <3> QED
      BY <2>2, <3>1, <3>2, ThingsTyped DEF Fits, Holds
  <2>3. CASE v # t
    BY <2>1, <2>3 DEF Fits
  <2> QED
    BY <2>2, <2>3
<1>2. l[1] = "manager" => Single(Swap(vs, t, t2))
  BY DEF Swap, Fits, Single
<1> QED
  BY <1>1, <1>2 DEF Fits

LEMMA WriteSwappedKeeps ==
  ASSUME IInv, NEW r \in Requests, WriteSwapped(r) PROVE IInv'
<1> DEFINE t == req[r].what
           t2 == req[r].to
           vs(l) == Swap(req[r].read[l], t, t2)
<1>1. PICK l \in req[r].todo :
        /\ WriteList(r, l, vs(l), Swap(intended[l], t, t2), Done(r, l))
        /\ known' = known \cup Void(l, lists'[l], things)
  BY DEF WriteSwapped
<1>2. /\ req[r].pc = "write" /\ req[r].op # "delete" /\ UNCHANGED <<edits, cleared, things>>
  BY DEF WriteSwapped
<1>3. req[r] \in Request /\ Sound(req[r], lists) /\ Faithful
  BY RunningIsSound DEF IInv
<1>4. l \in Lists /\ Done(r, l) \in Request
  BY <1>2, DoneIsSound
<1>5. t \in Thing /\ t2 \in Thing /\ t[1] = t2[1]
  BY <1>2, <1>3 DEF Sound, Named
<1>6. req[r].read[l] \in SUBSET Ref /\ Fits(l, req[r].read[l])
  BY <1>3, <1>4 DEF Request, Sound, Writable
<1>7. vs(l) \in SUBSET Ref /\ Fits(l, vs(l))
  BY <1>4, <1>5, <1>6, SwapFits
<1>8. l \notin req[r].since \cup cleared' => vs(l) = Swap(intended[l], t, t2)
  BY <1>2, <1>3, <1>4 DEF Sound, Fresh, Faithful
<1>9. lists'[l] = vs(l)
  BY <1>1, <1>4 DEF WriteList, IInv, Requested, Typed
<1>10. \A m \in Lists \ {l} : [lists EXCEPT ![l] = vs(l)][m] = lists[m]
  BY DEF IInv, Requested, Typed
<1>11. PICK ws \in SUBSET Ref : ws = vs(l)
  BY <1>7
<1>12. PICK delta : delta = Swap(intended[l], t, t2)
  OBVIOUS
<1>13. PICK next \in Request : next = Done(r, l)
  BY <1>4
<1> HIDE DEF vs
<1>14. Sound(next, [lists EXCEPT ![l] = ws])
  <2> DEFINE f == [lists EXCEPT ![l] = ws]
  <2>1. \A m \in Lists \ {l} : f[m] = lists[m]
    BY <1>10, <1>11
  <2> HIDE DEF f
  <2>2. Sound(Done(r, l), f)
    BY <1>2, <2>1, DoneIsSound
  <2> QED
    BY <1>13, <2>2 DEF f
<1>15. \A m \in Lists \ {l} : \A ref \in lists[m] : Owes(req[r], m, ref) => Owes(next, m, ref)
  <2>1. \A m \in Lists \ {l} : \A ref \in lists[m] :
          Owes(req[r], m, ref) => Owes(Done(r, l), m, ref)
    BY <1>2, DoneIsSound
  <2> QED
    BY <1>13, <2>1
<1>16. l \in cleared' => l[1] = "triple"
  BY <1>2, <1>3 DEF Faithful
<1> QED
  BY <1>1, <1>2, <1>4, <1>7, <1>8, <1>9, <1>11, <1>12, <1>13, <1>14, <1>15, <1>16, WriteKeeps

LEMMA WriteFailsKeeps ==
  ASSUME IInv, NEW r \in Requests, WriteFails(r) PROVE IInv'
<1>1. PICK l \in req[r].todo : Go(r, Done(r, l)) /\ known' = known \cup {<<l, req[r].what>>}
  BY DEF WriteFails
<1>2. req[r].pc = "write" /\ UNCHANGED <<edits, things, lists, intended, cleared>>
  BY DEF WriteFails
<1>3. /\ l \in Lists /\ Done(r, l) \in Request /\ Sound(Done(r, l), lists)
      /\ \A m \in Lists \ {l} : \A ref \in lists[m] :
           Owes(req[r], m, ref) => Owes(Done(r, l), m, ref)
  BY <1>2, DoneIsSound
<1>4. \A ref : Owes(req[r], l, ref) => <<l, ref>> \in known'
  BY <1>1 DEF Owes
<1> QED
  BY <1>1, <1>2, <1>3, <1>4, QuietKeeps

\* Last, the group of the account's name.
LEMMA RenamePrimaryKeeps ==
  ASSUME IInv, NEW r \in Requests, RenamePrimary(r) PROVE IInv'
<1> DEFINE g == <<"group", req[r].what[2]>>
           g2 == <<"group", req[r].to[2]>>
<1>1. req[r].pc = "primary" /\ UNCHANGED <<edits, cleared>>
  BY DEF RenamePrimary
<1>2. CASE /\ g \in things /\ g2 \in Thing \ things
           /\ things' = (things \ {g}) \cup {g2}
           /\ lists' = Moved(lists, g, g2)
           /\ intended' = Moved(intended, g, g2)
           /\ known' = MovedPairs(g, g2) \cup AllVoid(g, lists')
           /\ GoUnseen(r, Idle, ListsOf(g) \cup ListsOf(g2))
  <2>1. g[1] = "group" /\ g2[1] = "group"
    OBVIOUS
  <2>2. PICK t \in things, t2 \in Thing \ things : t = g /\ t2 = g2
    BY <1>2
  <2>3. \A l \in Lists : t \in lists'[l] => <<l, t>> \in known'
    BY <1>2, <2>2 DEF AllVoid
  <2> HIDE DEF g, g2
  <2> QED
    BY <1>1, <1>2, <2>1, <2>2, <2>3, IdleIsSound, MovingKeeps
<1>3. CASE Go(r, Idle) /\ UNCHANGED <<things, lists, intended, known>>
  BY <1>1, <1>3, IdleIsSound, PlainKeeps
<1> QED
  BY <1>2, <1>3 DEF RenamePrimary

-----------------------------------------------------------------------------
(* Deleting *)

LEMMA BeginDeleteKeeps ==
  ASSUME IInv, NEW r \in Requests, BeginDelete(r) PROVE IInv'
<1>1. PICK t \in things :
        \/ /\ t[1] = "user"
           /\ Go(r, [Idle EXCEPT !.pc = "remove", !.op = "delete", !.what = t])
        \/ /\ t[1] = "group"
           /\ Go(r, [Idle EXCEPT !.pc = "leftovers", !.op = "deleteGroup", !.what = t])
        \/ /\ t[1] = "netgroup"
           /\ Go(r, [Idle EXCEPT !.pc = "leftovers", !.op = "deleteNetgroup", !.what = t])
  BY DEF BeginDelete
<1>2. PICK pc \in {"remove", "leftovers"}, op \in {"delete", "deleteGroup", "deleteNetgroup"} :
        /\ Go(r, [Idle EXCEPT !.pc = pc, !.op = op, !.what = t])
        /\ pc = "remove" <=> t[1] = "user"
        /\ op = "delete" <=> t[1] = "user"
  BY <1>1
<1> DEFINE new == [Idle EXCEPT !.pc = pc, !.op = op, !.what = t]
<1>3. t \in Thing
  BY DEF IInv, Requested, Typed
<1>4. /\ new \in Request /\ new.pc = pc /\ new.op = op /\ new.what = t
      /\ new.read = NoLists /\ new.todo = {}
  <2>1. op \in Ops
    BY DEF Ops
  <2> QED
    BY <1>3, <2>1, IdleIsSound DEF Request
<1>5. Go(r, new)
  BY <1>2
<1> HIDE DEF new
<1>6. Sound(new, lists)
  BY <1>2, <1>3, <1>4, IdleIsSound DEF Sound, Named, Writable, Fresh, LeftAreNamed
<1>7. req[r].pc = "idle" /\ UNCHANGED <<edits, things, lists, intended, cleared, known>>
  BY IdleIsSound DEF BeginDelete
<1> QED
  BY <1>4, <1>5, <1>6, <1>7, PlainKeeps

LEMMA NameLeftoversKeeps ==
  ASSUME IInv, NEW r \in Requests, NameLeftovers(r) PROVE IInv'
<1>1. PICK named \in SUBSET Lists :
        /\ \A l \in Lists : req[r].what \in lists[l] => l \in named
        /\ Go(r, [req[r] EXCEPT !.pc = "remove", !.named = named])
  BY DEF NameLeftovers
<1>2. req[r].pc = "leftovers" /\ UNCHANGED <<edits, things, lists, intended, cleared, known>>
  BY DEF NameLeftovers
<1> DEFINE new == [req[r] EXCEPT !.pc = "remove", !.named = named]
<1>3. req[r] \in Request /\ Sound(req[r], lists)
  BY RunningIsSound
<1>4. /\ new \in Request /\ new.pc = "remove" /\ new.op = req[r].op
      /\ new.what = req[r].what /\ new.read = req[r].read /\ new.todo = req[r].todo
      /\ new.named = named
  BY <1>3 DEF Request
<1>5. Go(r, new)
  BY <1>1
<1> HIDE DEF new
<1>6. Sound(new, lists)
  BY <1>1, <1>2, <1>3, <1>4 DEF Sound, Named, Writable, Fresh, LeftAreNamed
<1> QED
  BY <1>2, <1>4, <1>5, <1>6, PlainKeeps

\* An account's references are ahead of the request that deletes it; those of a group
\* or a netgroup were named, or came later.
LEMMA RemoveKeeps ==
  ASSUME IInv, NEW r \in Requests, Remove(r) PROVE IInv'
<1>0. PICK t \in things : t = req[r].what
  BY DEF Remove
<1> DEFINE kept == {p \in known : Owner(p[1]) # t}
           told == {p \in AllVoid(t, lists') : p[1] \in req[r].named \cup req[r].since}
           new == [req[r] EXCEPT !.pc = "read", !.stage = 1]
<1>1. /\ req[r].pc = "remove" /\ UNCHANGED <<edits, cleared>>
      /\ things' = things \ {t}
      /\ lists' = Without(lists, t) /\ intended' = Without(intended, t)
      /\ \/ /\ GoUnseen(r, IF t[1] = "user" THEN new ELSE Idle, ListsOf(t))
            /\ known' = IF t[1] = "user" THEN kept ELSE kept \cup told
         \/ /\ GoUnseen(r, Idle, ListsOf(t))
            /\ known' = kept \cup AllVoid(t, lists')
  BY <1>0 DEF Remove
<1>2. req[r] \in Request /\ Sound(req[r], lists) /\ t \in Thing
  BY RunningIsSound DEF IInv, Requested, Typed
<1>3. \A l \in Lists : lists'[l] \subseteq lists[l] /\ \A ref \in lists[l] : Holds(l, ref)
  <2>1. \A l \in Lists : lists'[l] = IF Owner(l) = t THEN {} ELSE lists[l]
    BY <1>1 DEF Without
  <2> QED
    BY <2>1 DEF IInv, Requested, Typed, Fits
<1>4. ASSUME NEW l \in Lists, t \in lists'[l]
      PROVE  <<l, t>> \in AllVoid(t, lists') /\ <<l, t>>[1] = l
  BY <1>4 DEF AllVoid
<1>5. CASE t[1] = "user" /\ GoUnseen(r, new, ListsOf(t)) /\ known' = kept
  <2> DEFINE first == 1
  <2>0. first \in 1..Manager
    BY StagesTyped
  <2> HIDE DEF first
  <2>5. new = [req[r] EXCEPT !.pc = "read", !.stage = first]
    BY DEF first
  <2> HIDE DEF new
  <2>1. /\ new \in Request /\ new.pc = "read" /\ new.op = req[r].op /\ new.what = t
        /\ new.stage = first /\ new.todo = req[r].todo /\ new.read = req[r].read
    BY <1>0, <1>2, <2>0, <2>5 DEF Request
  <2> HIDE DEF new
  <2>2. req[r].todo = {} /\ req[r].op = "delete"
    BY <1>0, <1>1, <1>2, <1>5 DEF Sound, Named
  <2>3. Sound(new, lists')
    BY <1>2, <1>5, <2>1, <2>2 DEF Sound, Named, Writable, Fresh, LeftAreNamed
  <2>4. \A l \in Lists : t \in lists'[l] => Owes(new, l, t)
    BY <1>3, <1>5, <2>1, StagesCover DEF Owes, first
  <2> QED
    BY <1>1, <1>5, <2>1, <2>3, <2>4, RemovingKeeps
<1>6. CASE t[1] # "user" /\ GoUnseen(r, Idle, ListsOf(t)) /\ known' = kept \cup told
  <2>1. \A l \in Lists : t \in lists[l] => l \in req[r].named \cup req[r].since
    BY <1>0, <1>1, <1>2, <1>6 DEF Sound, Named, LeftAreNamed
  <2>2. \A l \in Lists : t \in lists'[l] => <<l, t>> \in told
    BY <1>3, <1>4, <2>1
  <2> HIDE DEF told
  <2> QED
    BY <1>1, <1>6, <2>2, IdleIsSound, RemovingKeeps
<1>7. CASE GoUnseen(r, Idle, ListsOf(t)) /\ known' = kept \cup AllVoid(t, lists')
  BY <1>1, <1>4, <1>7, IdleIsSound, RemovingKeeps
<1> HIDE DEF kept, told, new
<1> QED
  BY <1>1, <1>5, <1>6, <1>7

LEMMA DropNameKeeps ==
  ASSUME IInv, NEW r \in Requests, DropName(r) PROVE IInv'
<1> DEFINE t == req[r].what
           left(l) == IF l[1] = "manager" THEN {}
                      ELSE (IF l[1] = "triple" THEN req[r].read[l] ELSE lists[l]) \ {t}
<1>1. PICK l \in req[r].todo :
        /\ WriteList(r, l, left(l), intended[l] \ {t}, Done(r, l))
        /\ known' = known \cup Void(l, left(l), things)
  BY DEF DropName
<1>2. req[r].pc = "write" /\ UNCHANGED <<edits, cleared, things>>
  BY DEF DropName
<1>3. req[r] \in Request /\ Sound(req[r], lists) /\ Faithful
  BY RunningIsSound DEF IInv
<1>4. l \in Lists /\ Done(r, l) \in Request
  BY <1>2, DoneIsSound
<1>5. /\ req[r].read[l] \in SUBSET Ref /\ Fits(l, req[r].read[l])
      /\ lists[l] \in SUBSET Ref /\ Fits(l, lists[l])
  BY <1>3, <1>4 DEF Request, Sound, Writable, IInv, Requested, Typed
<1>6. left(l) \in SUBSET Ref /\ Fits(l, left(l))
  BY <1>5 DEF Fits, Single
<1>7. l \notin req[r].since \cup cleared' => left(l) = intended[l] \ {t}
  <2> SUFFICES ASSUME l \notin req[r].since PROVE left(l) = lists[l] \ {t}
    BY <1>2, <1>3, <1>4 DEF Faithful
  <2>1. req[r].read[l] = lists[l]
    BY <1>2, <1>3 DEF Sound, Fresh
  <2>2. CASE l[1] = "manager"
    <3>1. t \in lists[l] /\ Single(lists[l])
      BY <1>2, <1>3, <1>4, <1>5, <2>1, <2>2 DEF Sound, Writable, Fits
    <3>2. lists[l] \ {t} = {}
      BY <3>1 DEF Single
    <3> QED
      BY <2>2, <3>2
  <2>3. CASE l[1] # "manager"
    BY <2>1, <2>3
  <2> QED
    BY <2>2, <2>3
<1>8. \A m \in Lists \ {l} : [lists EXCEPT ![l] = left(l)][m] = lists[m]
  BY DEF IInv, Requested, Typed
<1>9. PICK ws \in SUBSET Ref : ws = left(l)
  BY <1>6
<1>10. PICK delta : delta = intended[l] \ {t}
  OBVIOUS
<1>11. PICK next \in Request : next = Done(r, l)
  BY <1>4
<1> HIDE DEF left
<1>12. Sound(next, [lists EXCEPT ![l] = ws])
  BY <1>2, <1>8, <1>9, <1>11, DoneIsSound
<1>13. \A m \in Lists \ {l} : \A ref \in lists[m] : Owes(req[r], m, ref) => Owes(next, m, ref)
  BY <1>2, <1>11, DoneIsSound
<1>14. l \in cleared' => l[1] = "triple"
  BY <1>2, <1>3 DEF Faithful
<1> QED
  BY <1>1, <1>2, <1>4, <1>6, <1>7, <1>9, <1>10, <1>11, <1>12, <1>13, <1>14, WriteKeeps

LEMMA ChangeFailsKeeps ==
  ASSUME IInv, NEW r \in Requests, ChangeFails(r) PROVE IInv'
  BY IdleIsSound, PlainKeeps DEF ChangeFails

\* The entry is one no list can refer to.
LEMMA DeleteRoleKeeps ==
  ASSUME IInv, DeleteRole PROVE IInv'
<1>1. PICK t \in things :
        /\ t[1] = "role"
        /\ things' = things \ {t}
        /\ lists' = Without(lists, t) /\ intended' = Without(intended, t)
        /\ known' = {p \in known : Owner(p[1]) # t}
        /\ GoUnseen(None, Idle, ListsOf(t))
  BY DEF DeleteRole
<1>2. UNCHANGED <<edits, cleared>> /\ None \notin Requests
  BY ConstantsAssumption DEF DeleteRole
<1>3. \A l \in Lists : t \notin lists'[l]
  <2>1. \A l \in Lists : lists'[l] \subseteq lists[l] /\ lists[l] \subseteq Ref
    BY <1>1 DEF Without, IInv, Requested, Typed
  <2> QED
    BY <1>1, <2>1, ThingsTyped
<1> QED
  BY <1>1, <1>2, <1>3, RemovingKeeps

-----------------------------------------------------------------------------
(* Forms *)

LEMMA OpenFormKeeps ==
  ASSUME IInv, NEW r \in Requests, OpenForm(r) PROVE IInv'
<1>0. PICK l \in Lists, ref \in Ref :
        /\ Holds(l, ref)
        /\ \E new \in {(lists[l] \ {Unreadable}) \cup {ref}, (lists[l] \ {Unreadable}) \ {ref}, None} :
             Go(r, [Idle EXCEPT !.pc = "form", !.op = "form", !.todo = {l}, !.new = new,
                                !.read = [NoLists EXCEPT ![l] = lists[l] \ {Unreadable}]])
  BY DEF OpenForm, IInv, Requested, Typed
<1>1. PICK new \in {(lists[l] \ {Unreadable}) \cup {ref}, (lists[l] \ {Unreadable}) \ {ref}, None} :
        Go(r, [Idle EXCEPT !.pc = "form", !.op = "form", !.todo = {l}, !.new = new,
                           !.read = [NoLists EXCEPT ![l] = lists[l] \ {Unreadable}]])
  BY <1>0
<1> DEFINE shown == lists[l] \ {Unreadable}
           read == [NoLists EXCEPT ![l] = shown]
           next == [Idle EXCEPT !.pc = "form", !.op = "form", !.todo = {l}, !.new = new,
                                !.read = read]
<1>2. lists[l] \in SUBSET Ref /\ Fits(l, lists[l])
  BY DEF IInv, Requested, Typed
<1>3. /\ new = None \/ (new \in SUBSET Ref /\ \A v \in new : Holds(l, v))
      /\ new \in (SUBSET Ref) \cup {None}
  BY <1>0, <1>2 DEF Fits
<1>4. shown \in SUBSET Ref /\ Fits(l, shown)
  BY <1>2 DEF Fits, Single
<1>5. Go(r, next)
  BY <1>1
<1>6. shown = lists[l] \ {Unreadable}
  OBVIOUS
<1> HIDE DEF shown
<1>7. /\ read \in [Lists -> SUBSET Ref] /\ read[l] = shown
      /\ \A m \in Lists : Fits(m, read[m])
  BY <1>4, IdleIsSound
<1> HIDE DEF read
<1>8. /\ next \in Request /\ next.pc = "form" /\ next.todo = {l} /\ next.new = new
      /\ next.read = read
  <2>1. "form" \in Ops
    BY DEF Ops
  <2> QED
    <3>1. Idle \in Request /\ {l} \in SUBSET Lists
      BY <1>0, IdleIsSound
    <3>2. next \in Request
      BY <1>3, <1>7, <2>1, <3>1 DEF Request
    <3>3. next.pc = "form" /\ next.todo = {l} /\ next.new = new /\ next.read = read
      <4> HIDE DEF read
      <4> QED
        BY <3>1 DEF Request
    <3> QED
      BY <3>2, <3>3
<1> HIDE DEF next
<1>9. Sound(next, lists)
  BY <1>3, <1>6, <1>7, <1>8 DEF Sound, Named, Writable, Fresh, LeftAreNamed, Single
<1>10. req[r].pc = "idle" /\ UNCHANGED <<edits, things, lists, intended, cleared, known>>
  BY IdleIsSound DEF OpenForm
<1> QED
  BY <1>5, <1>8, <1>9, <1>10, PlainKeeps

LEMMA KeepUnreadableKeeps ==
  ASSUME IInv, NEW r \in Requests, KeepUnreadable(r) PROVE IInv'
<1>1. PICK l \in req[r].todo :
        Go(r, IF Owner(l) \notin things THEN Idle
              ELSE [req[r] EXCEPT !.pc = "save", !.unread = Unreadable \in lists[l]])
  BY DEF KeepUnreadable
<1>2. req[r].pc = "form" /\ UNCHANGED <<edits, things, lists, intended, cleared, known>>
  BY DEF KeepUnreadable
<1>3. req[r] \in Request /\ Sound(req[r], lists)
  BY RunningIsSound
<1>4. CASE Go(r, Idle)
  BY <1>2, <1>4, IdleIsSound, PlainKeeps
<1>5. CASE Go(r, [req[r] EXCEPT !.pc = "save", !.unread = Unreadable \in lists[l]])
  <2> DEFINE unread == Unreadable \in lists[l]
             new == [req[r] EXCEPT !.pc = "save", !.unread = unread]
  <2>1. unread \in BOOLEAN
    OBVIOUS
  <2>2. unread => Holds(l, Unreadable)
    BY <1>2, <1>3 DEF IInv, Requested, Typed, Fits, Request
  <2>3. unread <=> Unreadable \in lists[l]
    OBVIOUS
  <2>4. Go(r, new)
    BY <1>5
  <2> HIDE DEF unread
  <2>5. /\ new \in Request /\ new.pc = "save" /\ new.todo = req[r].todo
        /\ new.read = req[r].read /\ new.new = req[r].new /\ new.since = req[r].since
        /\ new.unread = unread
    BY <1>3, <2>1 DEF Request
  <2> HIDE DEF new
  <2>6. \A m \in new.todo : m = l
    BY <1>2, <1>3, <2>5 DEF Sound, Writable, Single
  <2>7. Named(new)
    BY <2>5 DEF Named
  <2>8. Writable(new)
    BY <1>2, <1>3, <2>2, <2>5, <2>6 DEF Sound, Writable
  <2>9. Fresh(new, lists)
    BY <1>2, <1>3, <2>3, <2>5, <2>6 DEF Sound, Fresh
  <2>10. Sound(new, lists)
    BY <2>5, <2>7, <2>8, <2>9 DEF Sound, LeftAreNamed
  <2> QED
    BY <1>2, <2>4, <2>5, <2>10, PlainKeeps
<1> QED
  BY <1>1, <1>4, <1>5

LEMMA SaveFormKeeps ==
  ASSUME IInv, NEW r \in Requests, SaveForm(r) PROVE IInv'
<1> DEFINE old == req[r]
           vs(l) == Saved(r, l)
           delta(l) == IF old.new = None THEN intended[l]
                       ELSE (intended[l] \ (old.read[l] \ old.new)) \cup (old.new \ old.read[l])
<1>1. PICK l \in old.todo :
        \/ /\ (l[1] = "manager" => Single(vs(l)))
           /\ WriteList(r, l, vs(l), delta(l), Idle)
           /\ cleared' = cleared \cup (IF old.new = None /\ old.unread THEN {l} ELSE {})
           /\ known' = known \cup Void(l, vs(l), things)
        \/ Go(r, Idle) /\ UNCHANGED <<lists, intended, cleared, known>>
  BY DEF SaveForm
<1>2. old.pc = "save" /\ UNCHANGED <<edits, things>>
  BY DEF SaveForm
<1>3. old \in Request /\ Sound(old, lists) /\ Faithful
  BY RunningIsSound DEF IInv
<1>4. CASE Go(r, Idle) /\ UNCHANGED <<lists, intended, cleared, known>>
  BY <1>2, <1>4, IdleIsSound, PlainKeeps
<1>5. CASE /\ (l[1] = "manager" => Single(vs(l)))
           /\ WriteList(r, l, vs(l), delta(l), Idle)
           /\ cleared' = cleared \cup (IF old.new = None /\ old.unread THEN {l} ELSE {})
           /\ known' = known \cup Void(l, vs(l), things)
  <2>1. l \in Lists /\ lists[l] \in SUBSET Ref /\ Fits(l, lists[l])
    BY <1>3 DEF Request, IInv, Requested, Typed
  <2>2. /\ old.new # None => old.new \in SUBSET Ref /\ \A ref \in old.new : Holds(l, ref)
        /\ old.unread => Holds(l, Unreadable)
    BY <1>2, <1>3 DEF Request, Sound, Writable
  <2>3. /\ old.new # None => vs(l) = old.new \cup (IF old.unread THEN {Unreadable} ELSE {})
        /\ old.new = None => vs(l) = IF old.unread THEN {Unreadable} ELSE lists[l]
    BY DEF Saved
  <2> HIDE DEF vs
  <2>4. vs(l) \in SUBSET Ref
    BY <2>1, <2>2, <2>3, ThingsTyped
  <2>5. Fits(l, vs(l))
    BY <1>5, <2>1, <2>2, <2>3 DEF Fits
  <2>6. l \notin old.since \cup cleared' => vs(l) = delta(l)
    <3> SUFFICES ASSUME l \notin old.since, l \notin cleared' PROVE vs(l) = delta(l)
      OBVIOUS
    <3>1. old.read[l] = lists[l] \ {Unreadable} /\ (old.unread <=> Unreadable \in lists[l])
      BY <1>2, <1>3 DEF Sound, Fresh
    <3>2. lists[l] = intended[l] /\ ~(old.new = None /\ old.unread)
      BY <1>3, <1>5, <2>1 DEF Faithful
    <3>3. CASE old.new = None
      BY <2>3, <3>2, <3>3
    <3>4. CASE old.new # None
      <4>1. delta(l) = (lists[l] \ (old.read[l] \ old.new)) \cup (old.new \ old.read[l])
        BY <3>2, <3>4
      <4> HIDE DEF old, delta
      <4> QED
        BY <2>3, <3>1, <3>4, <4>1
    <3> QED
      BY <3>3, <3>4
  <2>7. PICK ws \in SUBSET Ref : ws = vs(l)
    BY <2>4
  <2>8. PICK d : d = delta(l)
    OBVIOUS
  <2>9. \A m, ref : ~Owes(req[r], m, ref)
    BY <1>2 DEF Owes
  <2> HIDE DEF old, delta
  <2>10. /\ WriteList(r, l, ws, d, Idle) /\ Fits(l, ws)
         /\ l \notin req[r].since \cup cleared' => ws = d
         /\ known' = known \cup Void(l, ws, things)
    BY <1>5, <2>5, <2>6, <2>7, <2>8 DEF old
  <2>11. l \in cleared' => l[1] = "triple"
    BY <1>3, <1>5, <2>2 DEF Faithful, Holds, Unreadable
  <2>12. cleared \subseteq cleared' /\ cleared' \subseteq cleared \cup {l}
    BY <1>5
  <2> QED
    BY <1>2, <2>1, <2>9, <2>10, <2>11, <2>12, IdleIsSound, WriteKeeps
<1> HIDE DEF vs, delta
<1> QED
  BY <1>1, <1>4, <1>5

-----------------------------------------------------------------------------
(* Entries and values of others, and the end of the process *)

LEMMA CreateKeeps ==
  ASSUME IInv, Create PROVE IInv'
<1>1. PICK t \in Thing \ things :
        /\ things' = things \cup {t}
        /\ known' = {p \in known : p[2] # t}
        /\ GoUnseen(None, Idle, ListsOf(t))
  BY DEF Create
<1>2. UNCHANGED <<edits, lists, intended, cleared>> /\ None \notin Requests
  BY ConstantsAssumption DEF Create
<1>3. Requested'
  <2>1. things' \subseteq Thing
    BY <1>1 DEF IInv, Requested, Typed
  <2>2. lists \in [Lists -> SUBSET Ref] /\ \A l \in Lists : Fits(l, lists[l])
    BY DEF IInv, Requested, Typed
  <2> QED
    BY <1>1, <1>2, <2>1, <2>2, UnseenRequested DEF IInv
<1>4. AllCovered'
  <2> SUFFICES ASSUME NEW l \in Lists, NEW ref \in lists[l], ref \in Thing \ things',
                      <<l, ref>> \notin known'
               PROVE  \E q \in Requests : Owes(req'[q], l, ref)
    BY <1>2 DEF AllCovered, Covered
  <2>1. ref # t /\ <<l, ref>>[2] = ref
    BY <1>1
  <2>2. ref \in Thing \ things /\ <<l, ref>> \notin known
    BY <1>1, <2>1
  <2>3. PICK q \in Requests : Owes(req[q], l, ref)
    BY <2>2 DEF IInv, AllCovered, Covered
  <2>4. Typed /\ q # None
    BY <1>2 DEF IInv, Requested
  <2> QED
    BY <1>1, <2>3, <2>4, OthersOwe
<1> QED
  BY <1>2, <1>3, <1>4 DEF IInv, Faithful

\* One list gets or loses one value, whatever the requests are doing.
LEMMA ValueKeeps ==
  ASSUME IInv, NEW l \in Lists, NEW vs \in SUBSET Ref, Fits(l, vs),
         lists' = [lists EXCEPT ![l] = vs], intended' = [intended EXCEPT ![l] = vs],
         GoUnseen(None, Idle, {l}), UNCHANGED <<edits, cleared, things>>,
         \A m \in Lists : \A ref \in lists'[m] : ref \in Thing \ things =>
           <<m, ref>> \in known' \/ (ref \in lists[m] /\ <<m, ref>> \notin known)
  PROVE  IInv'
<1>1. lists \in [Lists -> SUBSET Ref] /\ \A m \in Lists : Fits(m, lists[m])
  BY DEF IInv, Requested, Typed
<1>2. /\ lists' \in [Lists -> SUBSET Ref] /\ lists'[l] = vs
      /\ \A m \in Lists \ {l} : lists'[m] = lists[m]
  BY <1>1
<1>3. None \notin Requests
  BY ConstantsAssumption
<1>4. Requested'
  <2>1. things' \subseteq Thing /\ \A m \in Lists : Fits(m, lists'[m])
    BY <1>1, <1>2 DEF IInv, Requested, Typed
  <2> QED
    BY <1>2, <1>3, <2>1, UnseenRequested DEF IInv
<1>5. AllCovered'
  <2> SUFFICES ASSUME NEW m \in Lists, NEW ref \in lists'[m], ref \in Thing \ things,
                      <<m, ref>> \notin known'
               PROVE  \E q \in Requests : Owes(req'[q], m, ref)
    BY DEF AllCovered, Covered
  <2>1. ref \in lists[m] /\ <<m, ref>> \notin known
    OBVIOUS
  <2>2. PICK q \in Requests : Owes(req[q], m, ref)
    BY <2>1 DEF IInv, AllCovered, Covered
  <2>3. Typed /\ q # None
    BY <1>3 DEF IInv, Requested
  <2> QED
    BY <2>2, <2>3, OthersOwe
<1>6. Faithful'
  BY <1>2 DEF IInv, Faithful
<1> QED
  BY <1>4, <1>5, <1>6 DEF IInv

LEMMA EditValueKeeps ==
  ASSUME IInv, EditValue PROVE IInv'
<1>1. PICK l \in Lists, ref \in Ref :
        /\ Holds(l, ref) /\ l[1] \in {"memberUid", "sudoUser"}
        /\ \E vs \in {lists[l] \cup {ref}, lists[l] \ {ref}} \ {lists[l]} :
             /\ lists' = [lists EXCEPT ![l] = vs]
             /\ intended' = [intended EXCEPT
                  ![l] = IF ref \in vs THEN @ \cup {ref} ELSE @ \ {ref}]
             /\ known' = {p \in known : p # <<l, ref>>} \cup Void(l, vs \cap {ref}, things)
        /\ GoUnseen(None, Idle, {l})
  BY DEF EditValue, IInv, Requested, Typed
<1>2. PICK vs \in {lists[l] \cup {ref}, lists[l] \ {ref}} :
        /\ lists' = [lists EXCEPT ![l] = vs]
        /\ intended' = [intended EXCEPT
             ![l] = IF ref \in vs THEN @ \cup {ref} ELSE @ \ {ref}]
        /\ known' = {p \in known : p # <<l, ref>>} \cup Void(l, vs \cap {ref}, things)
  BY <1>1
<1>3. UNCHANGED <<edits, cleared, things>> /\ lists[l] = intended[l]
  BY <1>1 DEF EditValue, IInv, Faithful
<1>4. lists \in [Lists -> SUBSET Ref] /\ Fits(l, lists[l])
  BY DEF IInv, Requested, Typed
<1>5. vs \in SUBSET Ref /\ Fits(l, vs)
  BY <1>1, <1>2, <1>4 DEF Fits
<1>6. intended' = [intended EXCEPT ![l] = vs]
  <2>1. vs = IF ref \in vs THEN lists[l] \cup {ref} ELSE lists[l] \ {ref}
    BY <1>2
  <2> QED
    BY <1>2, <1>3, <2>1
<1>7. ASSUME NEW m \in Lists, NEW v \in lists'[m], v \in Thing \ things
      PROVE  <<m, v>> \in known' \/ (v \in lists[m] /\ <<m, v>> \notin known)
  <2>1. CASE m = l /\ v = ref
    <3>1. v \in vs
      BY <1>2, <1>4, <2>1
    <3>2. <<m, v>> \in Void(l, vs \cap {ref}, things)
      BY <1>7, <2>1, <3>1 DEF Void
    <3> QED
      BY <1>2, <3>2
  <2>2. CASE ~(m = l /\ v = ref)
    <3>1. v \in lists[m]
      BY <1>2, <1>4, <2>2
    <3>2. <<m, v>> # <<l, ref>>
      BY <2>2
    <3> QED
      BY <1>2, <3>1, <3>2
  <2> QED
    BY <2>1, <2>2
<1> QED
  BY <1>1, <1>2, <1>3, <1>5, <1>6, <1>7, ValueKeeps

LEMMA EditOutsideKeeps ==
  ASSUME IInv, EditOutside PROVE IInv'
<1>0. PICK l \in Lists :
        /\ l[1] = "triple"
        /\ \E vs \in {lists[l] \cup {Unreadable}, lists[l] \ {Unreadable}} :
             /\ lists' = [lists EXCEPT ![l] = vs]
             /\ intended' = [intended EXCEPT ![l] = vs]
        /\ GoUnseen(None, Idle, {l})
  BY DEF EditOutside
<1>1. PICK vs \in {lists[l] \cup {Unreadable}, lists[l] \ {Unreadable}} :
        /\ lists' = [lists EXCEPT ![l] = vs]
        /\ intended' = [intended EXCEPT ![l] = vs]
  BY <1>0
<1>2. UNCHANGED <<edits, cleared, things, known>>
  BY DEF EditOutside
<1>3. lists \in [Lists -> SUBSET Ref] /\ Fits(l, lists[l])
  BY DEF IInv, Requested, Typed
<1>4. Holds(l, Unreadable)
  BY <1>0 DEF Holds, Unreadable
<1>5. vs \in SUBSET Ref /\ Fits(l, vs)
  BY <1>0, <1>1, <1>3, <1>4, ThingsTyped DEF Fits
<1>6. \A m \in Lists : \A ref \in lists'[m] : ref \in Thing => ref \in lists[m]
  BY <1>1, <1>3, ThingsTyped
<1> QED
  BY <1>0, <1>1, <1>2, <1>5, <1>6, ValueKeeps

\* What was owed is known now.
LEMMA CrashKeeps ==
  ASSUME IInv, Crash PROVE IInv'
<1>1. /\ req' = [r \in Requests |-> Idle]
      /\ known' = known \cup (UNION {Due(r) : r \in Requests})
      /\ UNCHANGED <<edits, things, lists, intended, cleared>>
  BY DEF Crash
<1>2. Requested'
  <2>1. Typed'
    BY <1>1, IdleIsSound DEF IInv, Requested, Typed
  <2>2. \A r \in Requests : Sound(req'[r], lists')
    BY <1>1, IdleIsSound
  <2> QED
    BY <2>1, <2>2 DEF Requested
<1>3. AllCovered'
  <2> SUFFICES ASSUME NEW l \in Lists, NEW ref \in lists[l], ref \in Thing \ things
               PROVE  <<l, ref>> \in known'
    BY <1>1 DEF AllCovered, Covered
  <2>1. CASE <<l, ref>> \in known
    BY <1>1, <2>1
  <2>2. CASE \E r \in Requests : Owes(req[r], l, ref)
    <3>1. \E r \in Requests : <<l, ref>> \in Due(r)
      BY <2>2, OwedIsDue DEF IInv, Requested
    <3> QED
      BY <1>1, <3>1
  <2> QED
    BY <2>1, <2>2 DEF IInv, AllCovered, Covered
<1> QED
  BY <1>1, <1>2, <1>3 DEF IInv, Faithful

-----------------------------------------------------------------------------
(* The theorems *)

LEMMA InitHolds == Init => IInv
<1> SUFFICES ASSUME Init PROVE IInv
  OBVIOUS
<1>1. PICK s \in Starts :
        /\ edits = s.edits /\ things = s.things /\ lists = s.lists /\ intended = s.lists
        /\ cleared = {} /\ req = [r \in Requests |-> Idle]
        /\ known = UNION {Void(l, lists[l], things) : l \in Lists}
  BY DEF Init
<1>2. /\ s.edits \subseteq Lists \X Ref /\ s.things \subseteq Thing
      /\ s.lists \in [Lists -> SUBSET Ref]
  BY ConstantsAssumption DEF Start
<1>3. /\ \A l \in Lists : Fits(l, s.lists[l])
      /\ \A e \in s.edits : Holds(e[1], e[2])
  BY ValuesAssumption
<1>4. Typed
  <2>1. \A e \in s.edits : e[1] \in Lists /\ e[2] \in Ref
    BY <1>2
  <2> QED
    BY <1>1, <1>2, <1>3, <2>1, IdleIsSound DEF Typed
<1>5. AllCovered
  <2>1. \A l \in Lists : \A ref \in lists[l] :
          ref \in Thing \ things => <<l, ref>> \in Void(l, lists[l], things)
    BY DEF Void
  <2> QED
    BY <1>1, <2>1 DEF AllCovered, Covered
<1>6. \A r \in Requests : Sound(req[r], lists)
  BY <1>1, IdleIsSound
<1> QED
  BY <1>1, <1>2, <1>4, <1>5, <1>6 DEF IInv, Requested, Faithful

LEMMA StepKeeps == IInv /\ [Next]_vars => IInv'
<1> SUFFICES ASSUME IInv, [Next]_vars PROVE IInv'
  OBVIOUS
<1>1. CASE UNCHANGED vars
  BY <1>1 DEF vars, IInv, Requested, Typed, Faithful, AllCovered, Covered
<1>2. ASSUME NEW r \in Requests,
             \/ BeginRename(r) \/ Move(r) \/ ReadLists(r) \/ WriteSwapped(r) \/ WriteFails(r)
             \/ RenamePrimary(r)
      PROVE  IInv'
  BY <1>2, BeginRenameKeeps, MoveKeeps, ReadListsKeeps, WriteSwappedKeeps, WriteFailsKeeps,
     RenamePrimaryKeeps
<1>3. ASSUME NEW r \in Requests,
             \/ BeginDelete(r) \/ NameLeftovers(r) \/ Remove(r) \/ DropName(r)
             \/ ChangeFails(r) \/ OpenForm(r) \/ KeepUnreadable(r) \/ SaveForm(r)
      PROVE  IInv'
  BY <1>3, BeginDeleteKeeps, NameLeftoversKeeps, RemoveKeeps, DropNameKeeps, ChangeFailsKeeps,
     OpenFormKeeps, KeepUnreadableKeeps, SaveFormKeeps
<1>4. CASE DeleteRole \/ Create \/ EditValue \/ EditOutside \/ Crash
  BY <1>4, DeleteRoleKeeps, CreateKeeps, EditValueKeeps, EditOutsideKeeps, CrashKeeps
<1> QED
  BY <1>1, <1>2, <1>3, <1>4 DEF Next

\* What is known is about values of lists.
LEMMA VoidsTyped ==
  /\ \A l \in Lists : \A vs \in SUBSET Ref : \A ts : Void(l, vs, ts) \subseteq Lists \X Ref
  /\ \A f \in [Lists -> SUBSET Ref] : \A ref : AllVoid(ref, f) \subseteq Lists \X Ref
<1>1. \A l \in Lists : \A vs \in SUBSET Ref : \A ts : Void(l, vs, ts) \subseteq Lists \X Ref
  BY DEF Void
<1>2. \A f \in [Lists -> SUBSET Ref] : \A ref : AllVoid(ref, f) \subseteq Lists \X Ref
  BY DEF AllVoid
<1> QED
  BY <1>1, <1>2

LEMMA OldNameTyped ==
  ASSUME IInv, NEW r \in Requests, req[r].pc \in {"read", "write"}
  PROVE  req[r].what \in Ref /\ req[r].todo \subseteq Lists
<1>1. req[r] \in Request /\ Named(req[r])
  BY RunningIsSound DEF Sound
<1>2. req[r].what \in Thing /\ req[r].what[1] # "role"
  BY <1>1 DEF Named
<1> QED
  BY <1>1, <1>2, ThingsTyped DEF Request

LEMMA MovedPairsTyped ==
  ASSUME IInv, known \subseteq Lists \X Ref, NEW t \in Thing, NEW t2 \in Thing, t[1] = t2[1]
  PROVE  MovedPairs(t, t2) \subseteq Lists \X Ref
<1> DEFINE pairs == {q \in known : q[2] # t2} \cup
                      UNION {{<<m, req[r].what>> : m \in ListsOf(t) \cap req[r].todo} :
                               r \in {q \in Requests : req[q].pc = "write"}}
<1>1. pairs \subseteq Lists \X Ref
  <2>1. ASSUME NEW r \in Requests, req[r].pc = "write"
        PROVE  {<<m, req[r].what>> : m \in ListsOf(t) \cap req[r].todo} \subseteq Lists \X Ref
    BY <2>1, OldNameTyped
  <2> QED
    BY <2>1
<1>2. ASSUME NEW p \in pairs
      PROVE  <<IF Owner(p[1]) = t THEN <<p[1][1], t2[2]>> ELSE p[1], p[2]>> \in Lists \X Ref
  <2>1. PICK l \in Lists, ref \in Ref : p = <<l, ref>>
    BY <1>1
  <2>2. Owner(l) = t => <<l[1], t2[2]>> \in Lists
    BY Counterpart
  <2> QED
    BY <2>1, <2>2
<1> QED
  BY <1>2 DEF MovedPairs

LEMMA DueTyped ==
  ASSUME IInv, NEW r \in Requests
  PROVE  Due(r) \subseteq Lists \X Ref
<1>1. AllVoid(req[r].what, lists) \subseteq Lists \X Ref
  BY VoidsTyped DEF IInv, Requested, Typed
<1> QED
  BY <1>1 DEF Due

\* What a change makes of a list is values a list can hold, a cleared list's too.
LEMMA WritesTyped ==
  ASSUME IInv, intended \in [Lists -> SUBSET Ref], NEW r \in Requests, NEW l \in Lists,
         NEW vs \in SUBSET Ref, NEW delta \in SUBSET Ref, NEW next,
         WriteList(r, l, vs, delta, next)
  PROVE  intended' \in [Lists -> SUBSET Ref]
  BY DEF WriteList

LEMMA IntendedStays ==
  ASSUME IInv, intended \in [Lists -> SUBSET Ref], Next
  PROVE  intended' \in [Lists -> SUBSET Ref]
<1>1. \A r \in Requests : req[r] \in Request
  BY DEF IInv, Requested, Typed
<1>2. ASSUME NEW t, NEW t2, intended' = Moved(intended, t, t2), t[1] = t2[1],
             t \in Thing, t2 \in Thing
      PROVE  intended' \in [Lists -> SUBSET Ref]
  <2>1. ASSUME NEW l \in Lists PROVE intended'[l] \in SUBSET Ref
    <3>1. CASE Owner(l) = t2
      <4>1. <<l[1], t[2]>> \in Lists
        BY <1>2, <3>1, Counterpart
      <4> QED
        BY <1>2, <3>1, <4>1 DEF Moved
    <3>2. CASE Owner(l) # t2
      BY <1>2, <3>2 DEF Moved
    <3> QED
      BY <3>1, <3>2
  <2> QED
    BY <1>2, <2>1 DEF Moved
<1>3. ASSUME NEW r \in Requests, Move(r) \/ RenamePrimary(r)
      PROVE  intended' \in [Lists -> SUBSET Ref]
  <2>1. CASE Move(r)
    <3>1. req[r].what \in Thing /\ req[r].to \in Thing /\ req[r].what[1] = req[r].to[1]
      BY <2>1, RunningIsSound DEF Move, Sound, Named
    <3> QED
      BY <1>2, <2>1, <3>1 DEF Move
  <2>2. CASE RenamePrimary(r) /\ ~UNCHANGED intended
    <3> DEFINE g == <<"group", req[r].what[2]>>  g2 == <<"group", req[r].to[2]>>
    <3>1. g \in Thing /\ g2 \in Thing /\ g[1] = g2[1] /\ intended' = Moved(intended, g, g2)
      BY <2>2 DEF RenamePrimary, IInv, Requested, Typed
    <3> HIDE DEF g, g2
    <3> QED
      BY <1>2, <3>1
  <2> QED
    BY <1>3, <2>1, <2>2
<1>4. ASSUME NEW r \in Requests, WriteSwapped(r)
      PROVE  intended' \in [Lists -> SUBSET Ref]
  <2>1. req[r].what \in Thing /\ req[r].to \in Thing /\ req[r].what[1] = req[r].to[1]
    BY <1>4, RunningIsSound DEF WriteSwapped, Sound, Named
  <2>2. req[r].to \in Ref
    <3>1. req[r].what[1] # "role"
      BY <1>4, RunningIsSound DEF WriteSwapped, Sound, Named
    <3> QED
      BY <2>1, <3>1, ThingsTyped
  <2>3. PICK l \in req[r].todo :
          WriteList(r, l, Swap(req[r].read[l], req[r].what, req[r].to),
                    Swap(intended[l], req[r].what, req[r].to), Done(r, l))
    BY <1>4 DEF WriteSwapped
  <2>4. l \in Lists /\ req[r].read[l] \in SUBSET Ref
    BY <1>1 DEF Request
  <2>5. ASSUME NEW vs \in SUBSET Ref
        PROVE  Swap(vs, req[r].what, req[r].to) \in SUBSET Ref
    BY <2>2 DEF Swap
  <2> QED
    BY <2>3, <2>4, <2>5, WritesTyped
<1>5. ASSUME NEW r \in Requests, DropName(r)
      PROVE  intended' \in [Lists -> SUBSET Ref]
  <2>1. PICK l \in req[r].todo :
          WriteList(r, l, IF l[1] = "manager" THEN {}
                          ELSE (IF l[1] = "triple" THEN req[r].read[l] ELSE lists[l])
                                 \ {req[r].what},
                    intended[l] \ {req[r].what}, Done(r, l))
    BY <1>5 DEF DropName
  <2>2. /\ l \in Lists /\ req[r].read[l] \in SUBSET Ref /\ lists[l] \in SUBSET Ref
        /\ intended[l] \ {req[r].what} \in SUBSET Ref
    BY <1>1 DEF Request, IInv, Requested, Typed
  <2>3. (IF l[1] = "manager" THEN {}
         ELSE (IF l[1] = "triple" THEN req[r].read[l] ELSE lists[l]) \ {req[r].what})
          \in SUBSET Ref
    BY <2>2
  <2> QED
    BY <2>1, <2>2, <2>3, WritesTyped
<1>6. ASSUME NEW r \in Requests, SaveForm(r), ~UNCHANGED intended
      PROVE  intended' \in [Lists -> SUBSET Ref]
  <2>1. PICK l \in req[r].todo :
          WriteList(r, l, Saved(r, l),
                    IF req[r].new = None THEN intended[l]
                    ELSE (intended[l] \ (req[r].read[l] \ req[r].new))
                           \cup (req[r].new \ req[r].read[l]), Idle)
    BY <1>6 DEF SaveForm
  <2>2. /\ l \in Lists /\ lists[l] \in SUBSET Ref
        /\ req[r].new # None => req[r].new \in SUBSET Ref
    BY <1>1 DEF Request, IInv, Requested, Typed
  <2>3. Saved(r, l) \in SUBSET Ref
    BY <2>2, ThingsTyped DEF Saved
  <2>4. (IF req[r].new = None THEN intended[l]
         ELSE (intended[l] \ (req[r].read[l] \ req[r].new))
                \cup (req[r].new \ req[r].read[l])) \in SUBSET Ref
    BY <2>2
  <2> QED
    BY <2>1, <2>2, <2>3, <2>4, WritesTyped
<1>7. ASSUME NEW r \in Requests, Remove(r) PROVE intended' \in [Lists -> SUBSET Ref]
  BY <1>7 DEF Remove, Without
<1>8. CASE DeleteRole
  BY <1>8 DEF DeleteRole, Without
<1>9. CASE EditValue
  <2>1. PICK e \in edits : \E vs \in {lists[e[1]] \cup {e[2]}, lists[e[1]] \ {e[2]}} :
          intended' = [intended EXCEPT
            ![e[1]] = IF e[2] \in vs THEN @ \cup {e[2]} ELSE @ \ {e[2]}]
    BY <1>9 DEF EditValue
  <2>2. PICK l \in Lists, ref \in Ref : l = e[1] /\ ref = e[2]
    BY DEF IInv, Requested, Typed
  <2>3. PICK vs : intended' = [intended EXCEPT
                                 ![l] = IF ref \in vs THEN @ \cup {ref} ELSE @ \ {ref}]
    BY <2>1, <2>2
  <2> QED
    BY <2>3
<1>10. CASE EditOutside
  <2>1. PICK l \in Lists :
          \E vs \in {lists[l] \cup {Unreadable}, lists[l] \ {Unreadable}} :
            intended' = [intended EXCEPT ![l] = vs]
    BY <1>10 DEF EditOutside
  <2>2. lists[l] \in SUBSET Ref
    BY DEF IInv, Requested, Typed
  <2>3. PICK vs \in SUBSET Ref : intended' = [intended EXCEPT ![l] = vs]
    BY <2>1, <2>2, ThingsTyped
  <2> QED
    BY <2>3
<1>11. ASSUME NEW r \in Requests,
              \/ BeginRename(r) \/ ReadLists(r) \/ WriteFails(r) \/ BeginDelete(r)
              \/ NameLeftovers(r) \/ ChangeFails(r) \/ OpenForm(r) \/ KeepUnreadable(r)
       PROVE  UNCHANGED intended
  BY <1>11 DEF BeginRename, ReadLists, WriteFails, BeginDelete, NameLeftovers, ChangeFails,
     OpenForm, KeepUnreadable
<1>12. CASE Create \/ Crash
  BY <1>12 DEF Create, Crash
<1> QED
  BY <1>3, <1>4, <1>5, <1>6, <1>7, <1>8, <1>9, <1>10, <1>11, <1>12 DEF Next

LEMMA KnownStays ==
  ASSUME IInv, IInv', TypeOK, [Next]_vars
  PROVE  TypeOK'
<1>1. /\ known \subseteq Lists \X Ref /\ menu \subseteq Ops \cup Faults
      /\ edits \subseteq Lists \X Ref
      /\ lists \in [Lists -> SUBSET Ref] /\ lists' \in [Lists -> SUBSET Ref]
      /\ things \subseteq Thing
  BY DEF TypeOK, IInv, Requested, Typed
<1>2. CASE UNCHANGED vars
  BY <1>2 DEF vars, TypeOK
<1>3. ASSUME Next PROVE UNCHANGED <<menu, edits>> /\ known' \subseteq Lists \X Ref
  <2>1. ASSUME NEW r \in Requests,
               \/ BeginRename(r) \/ BeginDelete(r) \/ NameLeftovers(r) \/ ChangeFails(r)
               \/ OpenForm(r) \/ KeepUnreadable(r)
        PROVE  UNCHANGED <<menu, edits, known>>
    BY <2>1 DEF BeginRename, BeginDelete, NameLeftovers, ChangeFails, OpenForm, KeepUnreadable
  <2>2. ASSUME NEW r \in Requests, Move(r)
        PROVE  UNCHANGED <<menu, edits>> /\ known' \subseteq Lists \X Ref
    <3>1. PICK t \in Thing, t2 \in Thing : t[1] = t2[1] /\ t = req[r].what /\ t2 = req[r].to
      BY <1>1, <2>2, RunningIsSound DEF Move, Sound, Named
    <3>2. MovedPairs(t, t2) \subseteq Lists \X Ref
      BY <1>1, <3>1, MovedPairsTyped
    <3>3. AllVoid(t, lists') \subseteq Lists \X Ref
      BY <1>1, VoidsTyped
    <3> QED
      BY <2>2, <3>1, <3>2, <3>3 DEF Move
  <2>3. ASSUME NEW r \in Requests, ReadLists(r)
        PROVE  UNCHANGED <<menu, edits>> /\ known' \subseteq Lists \X Ref
    <3>1. AllVoid(req[r].what, lists) \subseteq Lists \X Ref
      BY <1>1, VoidsTyped
    <3> QED
      BY <1>1, <2>3, <3>1 DEF ReadLists
  <2>4. ASSUME NEW r \in Requests, WriteSwapped(r)
        PROVE  UNCHANGED <<menu, edits>> /\ known' \subseteq Lists \X Ref
    <3>1. PICK l \in req[r].todo : known' = known \cup Void(l, lists'[l], things)
      BY <2>4 DEF WriteSwapped
    <3>2. l \in Lists
      BY <2>4, OldNameTyped DEF WriteSwapped
    <3>3. Void(l, lists'[l], things) \subseteq Lists \X Ref
      BY <1>1, <3>2, VoidsTyped
    <3> QED
      BY <1>1, <2>4, <3>1, <3>3 DEF WriteSwapped
  <2>5. ASSUME NEW r \in Requests, WriteFails(r)
        PROVE  UNCHANGED <<menu, edits>> /\ known' \subseteq Lists \X Ref
    BY <1>1, <2>5, OldNameTyped DEF WriteFails
  <2>6. ASSUME NEW r \in Requests, RenamePrimary(r)
        PROVE  UNCHANGED <<menu, edits>> /\ known' \subseteq Lists \X Ref
    <3>1. CASE UNCHANGED known
      BY <1>1, <2>6, <3>1 DEF RenamePrimary
    <3>2. CASE ~UNCHANGED known
      <4>1. PICK t \in Thing, t2 \in Thing :
              t[1] = t2[1] /\ known' = MovedPairs(t, t2) \cup AllVoid(t, lists')
        BY <1>1, <2>6, <3>2 DEF RenamePrimary
      <4>2. MovedPairs(t, t2) \subseteq Lists \X Ref
        BY <1>1, <4>1, MovedPairsTyped
      <4>3. AllVoid(t, lists') \subseteq Lists \X Ref
        BY <1>1, VoidsTyped
      <4> QED
        BY <2>6, <4>1, <4>2, <4>3 DEF RenamePrimary
    <3> QED
      BY <3>1, <3>2
  <2>7. ASSUME NEW r \in Requests, Remove(r)
        PROVE  UNCHANGED <<menu, edits>> /\ known' \subseteq Lists \X Ref
    <3>1. AllVoid(req[r].what, lists') \subseteq Lists \X Ref
      BY <1>1, VoidsTyped
    <3> QED
      BY <1>1, <2>7, <3>1 DEF Remove
  <2>8. ASSUME NEW r \in Requests, DropName(r)
        PROVE  UNCHANGED <<menu, edits>> /\ known' \subseteq Lists \X Ref
    <3>1. PICK l \in req[r].todo : \E left :
            /\ lists' = [lists EXCEPT ![l] = left] /\ known' = known \cup Void(l, left, things)
      BY <2>8 DEF DropName, WriteList
    <3>2. l \in Lists
      BY <2>8, OldNameTyped DEF DropName
    <3>3. known' = known \cup Void(l, lists'[l], things)
      BY <1>1, <3>1, <3>2
    <3>4. Void(l, lists'[l], things) \subseteq Lists \X Ref
      BY <1>1, <3>2, VoidsTyped
    <3> QED
      BY <1>1, <2>8, <3>3, <3>4 DEF DropName
  <2>9. ASSUME NEW r \in Requests, SaveForm(r)
        PROVE  UNCHANGED <<menu, edits>> /\ known' \subseteq Lists \X Ref
    <3>1. CASE UNCHANGED known
      BY <1>1, <2>9, <3>1 DEF SaveForm
    <3>2. CASE ~UNCHANGED known
      <4>1. PICK l \in req[r].todo : \E vs :
              /\ lists' = [lists EXCEPT ![l] = vs] /\ known' = known \cup Void(l, vs, things)
        BY <2>9, <3>2 DEF SaveForm, WriteList
      <4>2. l \in Lists
        BY RunningIsSound DEF Request
      <4>3. known' = known \cup Void(l, lists'[l], things)
        BY <1>1, <4>1, <4>2
      <4>4. Void(l, lists'[l], things) \subseteq Lists \X Ref
        BY <1>1, <4>2, VoidsTyped
      <4> QED
        BY <1>1, <2>9, <4>3, <4>4 DEF SaveForm
    <3> QED
      BY <3>1, <3>2
  <2>10. ASSUME DeleteRole \/ Create \/ EditOutside
         PROVE  UNCHANGED <<menu, edits>> /\ known' \subseteq Lists \X Ref
    BY <1>1, <2>10 DEF DeleteRole, Create, EditOutside
  <2>11. ASSUME EditValue
         PROVE  UNCHANGED <<menu, edits>> /\ known' \subseteq Lists \X Ref
    <3>1. PICK l \in Lists, ref \in Ref : \E vs :
            known' = {p \in known : p # <<l, ref>>} \cup Void(l, vs \cap {ref}, things)
      BY <1>1, <2>11 DEF EditValue
    <3>2. PICK vs :
            known' = {p \in known : p # <<l, ref>>} \cup Void(l, vs \cap {ref}, things)
      BY <3>1
    <3>3. vs \cap {ref} \in SUBSET Ref
      OBVIOUS
    <3>4. Void(l, vs \cap {ref}, things) \subseteq Lists \X Ref
      BY <3>3, VoidsTyped
    <3> QED
      BY <1>1, <2>11, <3>2, <3>4 DEF EditValue
  <2>12. ASSUME Crash
         PROVE  UNCHANGED <<menu, edits>> /\ known' \subseteq Lists \X Ref
    BY <1>1, <2>12, DueTyped DEF Crash
  <2> QED
    BY <1>1, <1>3, <2>1, <2>2, <2>3, <2>4, <2>5, <2>6, <2>7, <2>8, <2>9, <2>10, <2>11, <2>12
    DEF Next
<1>4. CASE Next
  <2>1. intended' \in [Lists -> SUBSET Ref]
    BY <1>4, IntendedStays DEF TypeOK
  <2> QED
    BY <1>1, <1>3, <1>4, <2>1 DEF TypeOK, IInv, Requested, Typed, Faithful
<1> QED
  BY <1>2, <1>4

\* The directory's entries, lists and running requests keep their types, and the lists
\* hold what their attributes may hold: a rename puts an account only where accounts go.
THEOREM TypeCorrect == Spec => []TypeOK
<1>1. Init => TypeOK
  <2> SUFFICES ASSUME Init PROVE TypeOK
    OBVIOUS
  <2>1. PICK s \in Starts :
          /\ menu = s.menu /\ edits = s.edits /\ lists = s.lists /\ intended = s.lists
          /\ cleared = {}
          /\ known = UNION {Void(l, lists[l], things) : l \in Lists}
    BY DEF Init
  <2>2. /\ s.menu \subseteq Ops \cup Faults /\ s.edits \subseteq Lists \X Ref
        /\ s.lists \in [Lists -> SUBSET Ref]
    BY ConstantsAssumption DEF Start
  <2>3. \A l \in Lists : Void(l, lists[l], things) \subseteq Lists \X Ref
    BY <2>1, <2>2, VoidsTyped
  <2> QED
    BY InitHolds, <2>1, <2>2, <2>3 DEF TypeOK, IInv, Requested, Typed
<1> QED
  BY InitHolds, StepKeeps, KnownStays, <1>1, PTL DEF Spec

\* Rewriting whole lists (RenameUser, DeleteUser, RenameGroup, UpdateNetgroup) changes
\* what it is about and nothing else, the triples that could not be read included,
\* unless two changes of the same list overlapped, or a form that did not send the
\* triples met unreadable ones: for any accounts, groups, roles and netgroups, any
\* number of requests and any failures.
THEOREM EditsAreLostOnlyToOverlapAlways == Spec => []EditsAreLostOnlyToOverlap
<1>1. IInv => EditsAreLostOnlyToOverlap
  BY DEF IInv, Faithful, EditsAreLostOnlyToOverlap
<1> QED
  BY InitHolds, StepKeeps, <1>1, PTL DEF Spec

\* A name that no entry has stays in a list (memberUid, sudoUser, a triple, a nested
\* netgroup, a manager) only if somebody knows, or the rename or deletion that left it
\* there has the list still ahead of it.
THEOREM DanglingIsKnownAlways == Spec => []DanglingIsKnown
<1>1. IInv => DanglingIsKnown
  BY CoveredIsKnown DEF IInv, Requested
<1> QED
  BY InitHolds, StepKeeps, <1>1, PTL DEF Spec

-----------------------------------------------------------------------------
(* Counting up, and iterating *)

\* A set that holds 0 and with every number the next holds them all.
LEMMA CountingUp ==
  ASSUME NEW N \in Nat, NEW S, 0 \in S, \A k \in 0..N : k < N /\ k \in S => k + 1 \in S
  PROVE  \A k \in 0..N : k \in S
<1> DEFINE T == {k \in 0..N : k \notin S}
<1> SUFFICES ASSUME T # {} PROVE FALSE
  OBVIOUS
<1>1. PICK n \in T : \A k \in T : <<k, n>> \notin OpToRel(<, Nat)
  <2> HIDE DEF T
  <2>1. T \subseteq Nat /\ T # {}
    BY DEF T
  <2> QED
    BY <2>1, NatLessThanWellFounded, WFMin, Zenon
<1>2. \A k \in T : ~(k < n)
  <2>1. T \subseteq Nat
    OBVIOUS
  <2> HIDE DEF T
  <2> QED
    BY <1>1, <2>1 DEF OpToRel
<1>3. n # 0
  OBVIOUS
<1>4. n - 1 \in 0..N /\ n - 1 < N /\ n - 1 < n /\ (n - 1) + 1 = n
  BY <1>3
<1>5. n - 1 \in S
  BY <1>2, <1>4
<1> QED
  BY <1>4, <1>5

\* f goes through n rounds of the function F on S, from x.
Iteration(f, n, S, x, F) ==
  f \in [0..n -> S] /\ f[0] = x /\ \A k \in 1..n : f[k] = F[f[k - 1]]

LEMMA Iterates ==
  ASSUME NEW N \in Nat, NEW S, NEW x \in S, NEW F \in [S -> S]
  PROVE  \E f : Iteration(f, N, S, x, F)
<1> DEFINE Good(n) == \E f : Iteration(f, n, S, x, F)
           T == {n \in 0..N : Good(n)}
<1>1. 0 \in T
  <2> DEFINE f == [k \in 0..0 |-> x]
  <2>1. f \in [0..0 -> S] /\ f[0] = x /\ \A k \in 1..0 : FALSE
    OBVIOUS
  <2> HIDE DEF f
  <2>2. Good(0)
    BY <2>1 DEF Iteration
  <2> QED
    BY <2>2
<1>2. ASSUME NEW n \in 0..N, n < N, n \in T PROVE n + 1 \in T
  <2>0. PICK f : Iteration(f, n, S, x, F)
    BY <1>2
  <2>1. f \in [0..n -> S] /\ f[0] = x /\ \A k \in 1..n : f[k] = F[f[k - 1]]
    BY <2>0 DEF Iteration
  <2> DEFINE h == [k \in 0..(n + 1) |-> IF k <= n THEN f[k] ELSE F[f[n]]]
  <2>2. h \in [0..(n + 1) -> S]
    BY <2>1
  <2>3. h[0] = x
    BY <2>1
  <2>4. ASSUME NEW k \in 1..(n + 1) PROVE h[k] = F[h[k - 1]]
    <3>1. CASE k <= n
      BY <2>1, <3>1
    <3>2. CASE k = n + 1
      BY <2>1, <3>2
    <3> QED
      BY <3>1, <3>2
  <2> HIDE DEF h
  <2>5. Iteration(h, n + 1, S, x, F)
    BY <2>2, <2>3, <2>4 DEF Iteration
  <2> QED
    BY <1>2, <2>5
<1> HIDE DEF T
<1>3. \A k \in 0..N : k \in T
  BY <1>1, <1>2, CountingUp
<1> QED
  BY <1>3 DEF T

LEMMA RoundsTyped ==
  ASSUME NEW N \in Nat, NEW S, NEW W, W = [k \in 0..N |-> W[k]], W[0] \in S,
         \A k \in 1..N : W[k - 1] \in S => W[k] \in S
  PROVE  W \in [0..N -> S]
<1> DEFINE T == {k \in 0..N : W[k] \in S}
<1>1. 0 \in T
  OBVIOUS
<1>2. ASSUME NEW k \in 0..N, k < N, k \in T PROVE k + 1 \in T
  <2>1. k + 1 \in 1..N /\ (k + 1) - 1 = k /\ W[k] \in S
    BY <1>2
  <2>2. W[k + 1] \in S
    BY <2>1
  <2> QED
    BY <2>1, <2>2
<1> HIDE DEF T
<1>3. \A k \in 0..N : k \in T
  BY <1>1, <1>2, CountingUp
<1> QED
  BY <1>3 DEF T

\* The graphs' own counting is the library's.
LEMMA Counts ==
  ASSUME NEW S, IsFiniteSet(S)
  PROVE  Walk!Cardinality(S) = Cardinality(S) /\ Cardinality(S) \in Nat
<1>1. Walk!Cardinality(S) = Cardinality(S)
  BY DEF Walk!Cardinality, Cardinality
<1>2. Cardinality(S) \in Nat
  BY FS_CardinalityType
<1> QED
  BY <1>1, <1>2

Size(g) == Cardinality(DOMAIN g)

LEMMA WithinFacts ==
  ASSUME NEW g, IsFiniteSet(DOMAIN g), NEW root \in DOMAIN g
  PROVE  /\ Walk!Within(g, root) \in [0..Size(g) -> SUBSET DOMAIN g]
         /\ Walk!Within(g, root)[0] = {root}
         /\ \A k \in 1..Size(g) :
              Walk!Within(g, root)[k] =
                Walk!Within(g, root)[k - 1]
                  \cup UNION {Walk!Children(g, n) : n \in Walk!Within(g, root)[k - 1]}
         /\ Walk!Reachable(g, root) = Walk!Within(g, root)[Size(g)]
<1> DEFINE N == Size(g)
           S == SUBSET DOMAIN g
           x == {root}
           next(w) == w \cup UNION {Walk!Children(g, n) : n \in w}
           F == [w \in S |-> next(w)]
           W == Walk!Within(g, root)
<1>1. N \in Nat /\ Walk!Cardinality(DOMAIN g) = N
  BY Counts DEF Size
<1>2. x \in S /\ F \in [S -> S] /\ \A w \in S : F[w] = next(w)
  BY DEF Walk!Children
<1>3. W = CHOOSE h : h = [k \in 0..N |-> IF k = 0 THEN x ELSE next(h[k - 1])]
  BY <1>1 DEF Walk!Within
<1>4. Walk!Reachable(g, root) = W[N]
  BY <1>1 DEF Walk!Reachable
<1> HIDE DEF N, S, x, F, next, W
<1>5. PICK f : Iteration(f, N, S, x, F)
  BY <1>1, <1>2, Iterates
<1>6. f = [k \in 0..N |-> IF k = 0 THEN x ELSE next(f[k - 1])]
  <2>1. \A k \in 1..N : f[k - 1] \in S
    BY <1>1, <1>5 DEF Iteration
  <2> QED
    BY <1>1, <1>2, <1>5, <2>1 DEF Iteration
<1>7. W = [k \in 0..N |-> IF k = 0 THEN x ELSE next(W[k - 1])]
  BY <1>3, <1>6
<1>8. W[0] = x /\ \A k \in 1..N : W[k] = next(W[k - 1])
  BY <1>1, <1>7
<1>9. W = [k \in 0..N |-> W[k]]
  BY <1>7
<1>10. W \in [0..N -> S]
  <2>1. W[0] \in S
    BY <1>2, <1>8
  <2>2. \A k \in 1..N : W[k - 1] \in S => W[k] \in S
    BY <1>2, <1>8
  <2> QED
    BY <1>1, <1>9, <2>1, <2>2, RoundsTyped
<1> QED
  BY <1>4, <1>8, <1>10 DEF N, S, x, next, W

LEMMA FoundFacts ==
  ASSUME NEW g, IsFiniteSet(DOMAIN g), NEW u
  PROVE  /\ Walk!Found(g, u) \in [0..Size(g) -> SUBSET DOMAIN g]
         /\ Walk!Found(g, u)[0] = Walk!Naming(g, u)
         /\ \A k \in 1..Size(g) :
              Walk!Found(g, u)[k] =
                Walk!Found(g, u)[k - 1] \cup Walk!Parents(g, Walk!Found(g, u)[k - 1])
         /\ Walk!ContainingUser(g, u) = Walk!Found(g, u)[Size(g)]
<1> DEFINE N == Size(g)
           S == SUBSET DOMAIN g
           x == Walk!Naming(g, u)
           next(w) == w \cup Walk!Parents(g, w)
           F == [w \in S |-> next(w)]
           W == Walk!Found(g, u)
<1>1. N \in Nat /\ Walk!Cardinality(DOMAIN g) = N
  BY Counts DEF Size
<1>2. x \in S /\ F \in [S -> S] /\ \A w \in S : F[w] = next(w)
  BY DEF Walk!Naming, Walk!Parents
<1>3. W = CHOOSE h : h = [k \in 0..N |-> IF k = 0 THEN x ELSE next(h[k - 1])]
  BY <1>1 DEF Walk!Found
<1>4. Walk!ContainingUser(g, u) = W[N]
  BY <1>1 DEF Walk!ContainingUser
<1> HIDE DEF N, S, x, F, next, W
<1>5. PICK f : Iteration(f, N, S, x, F)
  BY <1>1, <1>2, Iterates
<1>6. f = [k \in 0..N |-> IF k = 0 THEN x ELSE next(f[k - 1])]
  <2>1. \A k \in 1..N : f[k - 1] \in S
    BY <1>1, <1>5 DEF Iteration
  <2> QED
    BY <1>1, <1>2, <1>5, <2>1 DEF Iteration
<1>7. W = [k \in 0..N |-> IF k = 0 THEN x ELSE next(W[k - 1])]
  BY <1>3, <1>6
<1>8. W[0] = x /\ \A k \in 1..N : W[k] = next(W[k - 1])
  BY <1>1, <1>7
<1>9. W = [k \in 0..N |-> W[k]]
  BY <1>7
<1>10. W \in [0..N -> S]
  <2>1. W[0] \in S
    BY <1>2, <1>8
  <2>2. \A k \in 1..N : W[k - 1] \in S => W[k] \in S
    BY <1>2, <1>8
  <2> QED
    BY <1>1, <1>9, <2>1, <2>2, RoundsTyped
<1> QED
  BY <1>4, <1>8, <1>10 DEF N, S, x, next, W

-----------------------------------------------------------------------------
(* Visiting a netgroup *)

Elements(q) == {q[i] : i \in 1..Len(q)}

Distinct(q) == \A i, j \in 1..Len(q) : q[i] = q[j] => i = j

LEMMA SetsAreListed ==
  ASSUME NEW S, IsFiniteSet(S)
  PROVE  /\ Walk!SetToSeq(S) \in Seq(S)
         /\ Elements(Walk!SetToSeq(S)) = S /\ Distinct(Walk!SetToSeq(S))
<1> DEFINE N == Cardinality(S)
           q == Walk!SetToSeq(S)
<1>1. N \in Nat /\ Walk!Cardinality(S) = N /\ ExistsBijection(1..N, S)
  BY Counts, FS_CardinalityType
<1>2. PICK f \in [1..N -> S] : \A a, b \in 1..N : f[a] = f[b] => a = b
  BY <1>1 DEF ExistsBijection, Bijection, Injection, IsInjective
<1>3. q \in [1..N -> S] /\ \A a, b \in 1..N : q[a] = q[b] => a = b
  <2>1. q = CHOOSE h \in [1..N -> S] : Walk!IsInjective(h)
    BY <1>1 DEF Walk!SetToSeq
  <2>2. \A h \in [1..N -> S] :
          Walk!IsInjective(h) <=> \A a, b \in 1..N : h[a] = h[b] => a = b
    BY DEF Walk!IsInjective
  <2> HIDE DEF N, q
  <2> QED
    BY <1>2, <2>1, <2>2
<1> HIDE DEF q
<1>4. q \in Injection(1..N, S)
  BY <1>3 DEF Injection, IsInjective
<1>5. IsFiniteSet(1..N) /\ Cardinality(1..N) = N
  BY <1>1, FS_Interval
<1>6. q \in Surjection(1..N, S)
  <2> HIDE DEF N
  <2>1. Cardinality(1..N) = Cardinality(S)
    BY <1>5 DEF N
  <2> QED
    BY <1>4, <2>1, FS_Injection
<1>7. q \in Seq(S) /\ Len(q) = N
  BY <1>1, <1>3
<1>8. \A s \in S : \E i \in 1..N : q[i] = s
  BY <1>6 DEF Surjection
<1>9. Elements(q) = S
  BY <1>3, <1>7, <1>8 DEF Elements
<1> QED
  BY <1>3, <1>7, <1>9 DEF Distinct, q

LEMMA QueueMoves ==
  ASSUME NEW D, NEW q \in Seq(D), q # <<>>, Distinct(q),
         NEW S \in SUBSET D, NEW p \in Seq(S), Elements(p) = S, Distinct(p),
         S \cap Elements(q) = {}
  PROVE  LET h == Head(q)
             next == Tail(q) \o p
         IN /\ h \in D /\ h \in Elements(q) /\ h = q[1] /\ 1 \in 1..Len(q)
            /\ next \in Seq(D) /\ Distinct(next)
            /\ Elements(next) = (Elements(q) \ {h}) \cup S
            /\ Len(next) = (Len(q) - 1) + Len(p)
            /\ \A i \in 1..Len(next) :
                 next[i] = IF i <= Len(q) - 1 THEN q[i + 1] ELSE p[i - (Len(q) - 1)]
<1> DEFINE h == Head(q)
           next == Tail(q) \o p
           L == Len(q) - 1
           M == Len(p)
<1>1. Len(q) \in Nat /\ Len(q) # 0 /\ M \in Nat /\ p \in Seq(D)
  BY SeqMonotonic
<1>2. h = q[1] /\ h \in D /\ 1 \in 1..Len(q) /\ L \in Nat
  BY <1>1
<1>3. /\ Tail(q) \in Seq(D) /\ Len(Tail(q)) = L
      /\ \A i \in 1..L : Tail(q)[i] = q[i + 1]
  BY <1>1, HeadTailProperties
<1>4. /\ next \in Seq(D) /\ Len(next) = L + M
      /\ \A i \in 1..(L + M) : next[i] = IF i <= L THEN q[i + 1] ELSE p[i - L]
  <2>1. /\ next \in Seq(D) /\ Len(next) = L + M
        /\ \A i \in 1..(L + M) : next[i] = IF i <= L THEN Tail(q)[i] ELSE p[i - L]
    BY <1>1, <1>3, ConcatProperties
  <2> HIDE DEF next, L, M
  <2> QED
    BY <1>2, <1>3, <2>1
<1> HIDE DEF next
<1>5. Elements(next) = (Elements(q) \ {h}) \cup S
  <2>1. ASSUME NEW i \in 1..(L + M) PROVE next[i] \in (Elements(q) \ {h}) \cup S
    <3>1. CASE i <= L
      <4>1. next[i] = q[i + 1] /\ i + 1 \in 1..Len(q) /\ i + 1 # 1
        BY <1>1, <1>4, <3>1
      <4> QED
        BY <1>2, <4>1 DEF Elements, Distinct
    <3>2. CASE i > L
      <4>1. next[i] = p[i - L] /\ i - L \in 1..M
        BY <1>1, <1>4, <3>2
      <4> QED
        BY <4>1 DEF Elements
    <3> QED
      BY <1>2, <3>1, <3>2
  <2>2. ASSUME NEW x \in Elements(q) \ {h} PROVE x \in Elements(next)
    <3>1. PICK i \in 1..Len(q) : x = q[i]
      BY DEF Elements
    <3>2. i # 1
      BY <1>2, <3>1
    <3>3. i - 1 \in 1..(L + M) /\ i - 1 <= L /\ (i - 1) + 1 = i
      BY <1>1, <3>2
    <3> HIDE DEF L, M
    <3> QED
      BY <1>4, <3>1, <3>3 DEF Elements
  <2>3. ASSUME NEW x \in S PROVE x \in Elements(next)
    <3>1. PICK i \in 1..M : x = p[i]
      BY DEF Elements
    <3>2. i + L \in 1..(L + M) /\ ~(i + L <= L) /\ (i + L) - L = i
      BY <1>1, <1>2
    <3> HIDE DEF L, M
    <3> QED
      BY <1>4, <3>1, <3>2 DEF Elements
  <2> QED
    <3>1. Elements(next) = {next[i] : i \in 1..(L + M)}
      BY <1>4 DEF Elements
    <3> HIDE DEF L, M
    <3> QED
      BY <2>1, <2>2, <2>3, <3>1
<1>6. Distinct(next)
  <2> SUFFICES ASSUME NEW i \in 1..(L + M), NEW j \in 1..(L + M), i < j, next[i] = next[j]
               PROVE  FALSE
    <3> HIDE DEF L, M
    <3>1. L + M \in Nat
      BY <1>1, <1>2 DEF M
    <3> QED
      BY <1>4, <3>1 DEF Distinct
  <2>1. CASE j <= L
    <3>1. /\ next[i] = q[i + 1] /\ next[j] = q[j + 1]
          /\ i + 1 \in 1..Len(q) /\ j + 1 \in 1..Len(q) /\ i + 1 # j + 1
      BY <1>1, <1>4, <2>1
    <3> QED
      BY <3>1 DEF Distinct
  <2>2. CASE i <= L /\ j > L
    <3>1. next[i] = q[i + 1] /\ i + 1 \in 1..Len(q) /\ next[j] = p[j - L] /\ j - L \in 1..M
      BY <1>1, <1>4, <2>2
    <3> QED
      BY <3>1 DEF Elements
  <2>3. CASE i > L
    <3>1. /\ next[i] = p[i - L] /\ next[j] = p[j - L]
          /\ i - L \in 1..M /\ j - L \in 1..M /\ i - L # j - L
      BY <1>1, <1>4, <2>3
    <3> QED
      BY <3>1 DEF Distinct
  <2> QED
    BY <1>1, <2>1, <2>2, <2>3
<1> QED
  BY <1>1, <1>2, <1>4, <1>5, <1>6 DEF next, Elements

-----------------------------------------------------------------------------
(* The walk, round by round *)

NamesOf(g) == UNION {Walk!NamesIn(g, n) : n \in DOMAIN g}

EdgesOf(g) == (DOMAIN g) \X (DOMAIN g)

MembersOf(g) == UNION {g[n].members : n \in DOMAIN g}

Vias(g) == UNION {[U -> DOMAIN g] : U \in SUBSET NamesOf(g)}

Walks(g) ==
  [queue : Seq(DOMAIN g), seen : SUBSET DOMAIN g, via : Vias(g),
   open : SUBSET DOMAIN g, cycles : SUBSET EdgesOf(g),
   dangling : SUBSET MembersOf(g)]

LEMMA WalkTyped ==
  ASSUME NEW g, NEW w
  PROVE  /\ w \in Walks(g) =>
              /\ w.queue \in Seq(DOMAIN g) /\ w.seen \in SUBSET DOMAIN g /\ w.via \in Vias(g)
              /\ w.open \in SUBSET DOMAIN g /\ w.cycles \in SUBSET EdgesOf(g)
              /\ w.dangling \in SUBSET MembersOf(g)
         /\ /\ w.queue \in Seq(DOMAIN g) /\ w.seen \in SUBSET DOMAIN g /\ w.via \in Vias(g)
            /\ w.open \in SUBSET DOMAIN g /\ w.cycles \in SUBSET EdgesOf(g)
            /\ w.dangling \in SUBSET MembersOf(g)
            /\ w = [queue |-> w.queue, seen |-> w.seen, via |-> w.via, open |-> w.open,
                    cycles |-> w.cycles, dangling |-> w.dangling]
            => w \in Walks(g)
<1>1. ASSUME w \in Walks(g)
      PROVE  /\ w.queue \in Seq(DOMAIN g) /\ w.seen \in SUBSET DOMAIN g /\ w.via \in Vias(g)
             /\ w.open \in SUBSET DOMAIN g /\ w.cycles \in SUBSET EdgesOf(g)
             /\ w.dangling \in SUBSET MembersOf(g)
  BY <1>1 DEF Walks
<1>2. ASSUME w.queue \in Seq(DOMAIN g), w.seen \in SUBSET DOMAIN g, w.via \in Vias(g),
             w.open \in SUBSET DOMAIN g, w.cycles \in SUBSET EdgesOf(g),
             w.dangling \in SUBSET MembersOf(g),
             w = [queue |-> w.queue, seen |-> w.seen, via |-> w.via, open |-> w.open,
                  cycles |-> w.cycles, dangling |-> w.dangling]
      PROVE  w \in Walks(g)
  BY <1>2 DEF Walks
<1> QED
  BY <1>1, <1>2

Visited(w) == w.seen \ Elements(w.queue)

\* What a walk has at hand follows from the netgroups it visited, whose members it
\* has all seen.
SoundWalk(g, root, w) ==
  /\ w \in Walks(g)
  /\ root \in w.seen
  /\ Elements(w.queue) \subseteq w.seen /\ Distinct(w.queue)
  /\ \A n \in Visited(w) : Walk!Children(g, n) \subseteq w.seen
  /\ DOMAIN w.via = UNION {Walk!NamesIn(g, n) : n \in Visited(w)}
  /\ \A u \in DOMAIN w.via : w.via[u] \in Visited(w) /\ u \in Walk!NamesIn(g, w.via[u])
  /\ w.open = {n \in Visited(w) : Anyone \in g[n].slots}
  /\ w.dangling = (UNION {g[n].members : n \in Visited(w)}) \ DOMAIN g

LEMMA StartIsSound ==
  ASSUME NEW g, NEW root \in DOMAIN g
  PROVE  SoundWalk(g, root, Walk!Start(root)) /\ Visited(Walk!Start(root)) = {}
<1> DEFINE w == Walk!Start(root)
<1>1. /\ w.queue = <<root>> /\ w.seen = {root} /\ w.via = <<>> /\ w.open = {}
      /\ w.cycles = {} /\ w.dangling = {}
      /\ w = [queue |-> w.queue, seen |-> w.seen, via |-> w.via,
              open |-> w.open, cycles |-> w.cycles, dangling |-> w.dangling]
  BY DEF Walk!Start
<1>2. DOMAIN w.via = {} /\ w.via \in [{} -> DOMAIN g]
  BY <1>1
<1>3. w.queue \in Seq(DOMAIN g) /\ Elements(w.queue) = {root} /\ Distinct(w.queue)
  BY <1>1 DEF Elements, Distinct
<1> HIDE DEF w
<1>4. w \in Walks(g)
  <2>1. w.via \in Vias(g)
    BY <1>2 DEF Vias
  <2> QED
    BY <1>1, <1>3, <2>1 DEF Walks
<1>5. Visited(w) = {}
  BY <1>1, <1>3 DEF Visited
<1> QED
  BY <1>1, <1>2, <1>3, <1>4, <1>5 DEF SoundWalk, w

LEMMA EdgesFrom ==
  ASSUME NEW g, NEW h \in DOMAIN g, NEW S, S \subseteq DOMAIN g
  PROVE  {h} \X S \subseteq EdgesOf(g)
<1> SUFFICES ASSUME NEW e \in {h} \X S PROVE e \in (DOMAIN g) \X (DOMAIN g)
  BY DEF EdgesOf
<1> QED
  OBVIOUS

\* One round: the netgroup at the head is visited, and what it nests is seen.
Visiting(g, w, next) ==
  LET h == Head(w.queue)
      fresh == Walk!Children(g, h) \ w.seen
  IN /\ h \in DOMAIN g /\ h \in w.seen /\ h \notin Visited(w)
     /\ Visited(next) = Visited(w) \cup {h}
     /\ next.seen = w.seen \cup fresh
     /\ Elements(next.queue) = (Elements(w.queue) \ {h}) \cup fresh
     /\ next.cycles = w.cycles \cup ({h} \X (Walk!Children(g, h) \cap w.seen))
     /\ next.via = [u \in DOMAIN w.via \cup Walk!NamesIn(g, h) |->
                      IF u \in DOMAIN w.via THEN w.via[u] ELSE h]
     /\ h = w.queue[1] /\ 1 \in 1..Len(w.queue)
     /\ \A i \in 1..Len(next.queue) :
          \/ i <= Len(w.queue) - 1 /\ next.queue[i] = w.queue[i + 1]
          \/ i > Len(w.queue) - 1 /\ next.queue[i] \in fresh

LEMMA VisitFacts ==
  ASSUME NEW g, IsFiniteSet(DOMAIN g), NEW root \in DOMAIN g,
         NEW w, SoundWalk(g, root, w), w.queue # <<>>
  PROVE  SoundWalk(g, root, Walk!Visit(g, w)) /\ Visiting(g, w, Walk!Visit(g, w))
<1> DEFINE D == DOMAIN g
           h == Head(w.queue)
           fresh == Walk!Children(g, h) \ w.seen
           p == Walk!SetToSeq(fresh)
           queue == Tail(w.queue) \o p
           via == [u \in DOMAIN w.via \cup Walk!NamesIn(g, h) |->
                     IF u \in DOMAIN w.via THEN w.via[u] ELSE h]
           next == Walk!Visit(g, w)
<1>1. /\ w.queue \in Seq(D) /\ w.seen \in SUBSET D
      /\ w.open \in SUBSET D /\ w.cycles \in SUBSET EdgesOf(g)
      /\ w.dangling \in SUBSET MembersOf(g)
      /\ Elements(w.queue) \subseteq w.seen /\ Distinct(w.queue)
  <2>1. w \in Walks(g) /\ Elements(w.queue) \subseteq w.seen /\ Distinct(w.queue)
    BY DEF SoundWalk
  <2>2. /\ w.queue \in Seq(DOMAIN g) /\ w.seen \in SUBSET DOMAIN g
        /\ w.open \in SUBSET DOMAIN g /\ w.cycles \in SUBSET EdgesOf(g)
        /\ w.dangling \in SUBSET MembersOf(g)
    BY <2>1, WalkTyped, Zenon
  <2> QED
    BY <2>1, <2>2
<1>2. fresh \in SUBSET D /\ fresh \cap Elements(w.queue) = {}
  BY <1>1 DEF Walk!Children
<1>3. IsFiniteSet(fresh)
  BY <1>2, FS_Subset
<1>4. p \in Seq(fresh) /\ Elements(p) = fresh /\ Distinct(p)
  BY <1>3, SetsAreListed
<1>5. /\ h \in D /\ h \in Elements(w.queue) /\ h = w.queue[1] /\ 1 \in 1..Len(w.queue)
      /\ queue \in Seq(D) /\ Distinct(queue)
      /\ Elements(queue) = (Elements(w.queue) \ {h}) \cup fresh
      /\ Len(queue) = (Len(w.queue) - 1) + Len(p)
      /\ \A i \in 1..Len(queue) :
           queue[i] = IF i <= Len(w.queue) - 1 THEN w.queue[i + 1] ELSE p[i - (Len(w.queue) - 1)]
  <2> DEFINE q == w.queue
  <2>1. q \in Seq(D) /\ q # <<>> /\ Distinct(q) /\ fresh \cap Elements(q) = {}
    BY <1>1, <1>2
  <2> HIDE DEF fresh, p, q, D
  <2>2. LET x == Head(q)
             new == Tail(q) \o p
         IN /\ x \in D /\ x \in Elements(q) /\ x = q[1] /\ 1 \in 1..Len(q)
            /\ new \in Seq(D) /\ Distinct(new)
            /\ Elements(new) = (Elements(q) \ {x}) \cup fresh
            /\ Len(new) = (Len(q) - 1) + Len(p)
            /\ \A i \in 1..Len(new) :
                 new[i] = IF i <= Len(q) - 1 THEN q[i + 1] ELSE p[i - (Len(q) - 1)]
    BY <1>2, <1>4, <2>1, QueueMoves
  <2> QED
    BY <2>2 DEF q
<1>6. /\ next.queue = queue /\ next.seen = w.seen \cup fresh /\ next.via = via
      /\ next.open = w.open \cup (IF Anyone \in g[h].slots THEN {h} ELSE {})
      /\ next.cycles = w.cycles \cup ({h} \X (Walk!Children(g, h) \cap w.seen))
      /\ next.dangling = w.dangling \cup (g[h].members \ D)
      /\ next = [queue |-> next.queue, seen |-> next.seen, via |-> next.via,
                 open |-> next.open, cycles |-> next.cycles, dangling |-> next.dangling]
  BY DEF Walk!Visit
<1>7. h \in w.seen /\ h \notin Visited(w)
  BY <1>1, <1>5 DEF Visited
<1>8. Visited(next) = Visited(w) \cup {h}
  <2>1. /\ next.seen = w.seen \cup fresh /\ fresh \cap Elements(w.queue) = {}
        /\ Elements(next.queue) = (Elements(w.queue) \ {h}) \cup fresh
        /\ fresh \cap w.seen = {}
    BY <1>2, <1>5, <1>6
  <2> HIDE DEF next, h, fresh
  <2> QED
    BY <1>1, <1>5, <1>7, <2>1 DEF Visited
<1>9. via \in Vias(g)
  <2>0. w.via \in Vias(g)
    BY DEF SoundWalk, Walks
  <2>1. PICK U \in SUBSET NamesOf(g) : w.via \in [U -> D]
    BY <2>0 DEF Vias
  <2> DEFINE V == U \cup Walk!NamesIn(g, h)
  <2>2. V \in SUBSET NamesOf(g)
    BY <1>5 DEF NamesOf
  <2>3. via \in [V -> D]
    BY <1>5, <2>1
  <2> HIDE DEF V, via
  <2> QED
    BY <2>2, <2>3 DEF Vias
<1>10. next \in Walks(g)
  <2>1. next.queue \in Seq(D) /\ next.seen \in SUBSET D
    BY <1>1, <1>2, <1>5, <1>6
  <2>2. next.open \in SUBSET D
    BY <1>1, <1>5, <1>6
  <2>5. next.cycles \in SUBSET EdgesOf(g)
    <3> DEFINE back == Walk!Children(g, h) \cap w.seen
    <3>1. back \subseteq D
      BY <1>1
    <3>2. next.cycles = w.cycles \cup ({h} \X back)
      BY <1>6
    <3> HIDE DEF next, h, back
    <3>4. {h} \X back \subseteq EdgesOf(g)
      BY <1>5, <3>1, EdgesFrom
    <3> QED
      BY <1>1, <3>2, <3>4
  <2>3. next.dangling \in SUBSET MembersOf(g)
    BY <1>1, <1>5, <1>6 DEF MembersOf
  <2>4. next.via \in Vias(g)
    BY <1>6, <1>9
  <2> HIDE DEF next
  <2> QED
    BY <1>6, <2>1, <2>2, <2>3, <2>4, <2>5, WalkTyped, Zenon
<1>11. SoundWalk(g, root, next)
  <2>1. \A n \in Visited(next) : Walk!Children(g, n) \subseteq next.seen
    BY <1>6, <1>8 DEF SoundWalk
  <2>2. DOMAIN next.via = UNION {Walk!NamesIn(g, n) : n \in Visited(next)}
    <3>1. DOMAIN w.via = UNION {Walk!NamesIn(g, n) : n \in Visited(w)}
      BY DEF SoundWalk
    <3> HIDE DEF next, h
    <3> QED
      BY <1>6, <1>8, <3>1
  <2>3. ASSUME NEW u \in DOMAIN next.via
        PROVE  next.via[u] \in Visited(next) /\ u \in Walk!NamesIn(g, next.via[u])
    <3>1. \A v \in DOMAIN w.via : w.via[v] \in Visited(w) /\ v \in Walk!NamesIn(g, w.via[v])
      BY DEF SoundWalk
    <3>2. u \in DOMAIN w.via \cup Walk!NamesIn(g, h)
      BY <1>6, <2>3
    <3>3. next.via[u] = IF u \in DOMAIN w.via THEN w.via[u] ELSE h
      BY <1>6, <3>2
    <3> HIDE DEF next, h, via
    <3> QED
      BY <1>8, <3>1, <3>2, <3>3
  <2>4. next.open = {n \in Visited(next) : Anyone \in g[n].slots}
    <3>1. w.open = {n \in Visited(w) : Anyone \in g[n].slots}
      BY DEF SoundWalk
    <3> HIDE DEF next, h
    <3> QED
      BY <1>6, <1>8, <3>1
  <2>5. next.dangling = (UNION {g[n].members : n \in Visited(next)}) \ D
    <3>1. w.dangling = (UNION {g[n].members : n \in Visited(w)}) \ D
      BY DEF SoundWalk
    <3> HIDE DEF next, h
    <3> QED
      BY <1>6, <1>8, <3>1
  <2>6. root \in next.seen /\ Elements(next.queue) \subseteq next.seen /\ Distinct(next.queue)
    BY <1>1, <1>5, <1>6 DEF SoundWalk
  <2> HIDE DEF next
  <2> QED
    BY <1>10, <2>1, <2>2, <2>3, <2>4, <2>5, <2>6 DEF SoundWalk
<1>12. \A i \in 1..Len(next.queue) :
         \/ i <= Len(w.queue) - 1 /\ next.queue[i] = w.queue[i + 1]
         \/ i > Len(w.queue) - 1 /\ next.queue[i] \in fresh
  <2> TAKE i \in 1..Len(next.queue)
  <2>1. next.queue[i] = IF i <= Len(w.queue) - 1 THEN w.queue[i + 1]
                        ELSE p[i - (Len(w.queue) - 1)]
    BY <1>5, <1>6
  <2>2. Len(w.queue) \in Nat /\ Len(p) \in Nat /\ Len(next.queue) = (Len(w.queue) - 1) + Len(p)
    BY <1>1, <1>4, <1>5, <1>6
  <2>3. i > Len(w.queue) - 1 => i - (Len(w.queue) - 1) \in 1..Len(p)
    <3> HIDE DEF next, p
    <3> QED
      BY <1>5, <2>2
  <2>4. \A j \in 1..Len(p) : p[j] \in fresh
    BY <1>4 DEF Elements
  <2> DEFINE L == Len(w.queue) - 1
  <2>5. L \in Int /\ i \in Int
    BY <2>2
  <2> HIDE DEF next, p, fresh, L
  <2>6. i <= L \/ i > L
    BY <2>5
  <2>7. CASE i <= L
    BY <2>1, <2>7 DEF L
  <2>8. CASE i > L
    <3>1. ~(i <= L)
      BY <2>5, <2>8
    <3> QED
      BY <2>1, <2>3, <2>4, <2>8, <3>1 DEF L
  <2> QED
    BY <2>6, <2>7, <2>8
<1>13. Visiting(g, w, next)
  <2>1. /\ next.seen = w.seen \cup fresh
        /\ Elements(next.queue) = (Elements(w.queue) \ {h}) \cup fresh
        /\ next.cycles = w.cycles \cup ({h} \X (Walk!Children(g, h) \cap w.seen))
        /\ next.via = [u \in DOMAIN w.via \cup Walk!NamesIn(g, h) |->
                         IF u \in DOMAIN w.via THEN w.via[u] ELSE h]
    BY <1>5, <1>6
  <2> HIDE DEF next
  <2> QED
    BY <1>5, <1>7, <1>8, <1>12, <2>1, Zenon DEF Visiting, fresh, h, D
<1> QED
  BY <1>11, <1>13

\* The walk has visited one more netgroup after each round, until none is left.
Round(g, root, k) == Walk!After(g, root)[k]

LEMMA AfterFacts ==
  ASSUME NEW g, IsFiniteSet(DOMAIN g), NEW root \in DOMAIN g
  PROVE  /\ \A k \in 0..Size(g) : SoundWalk(g, root, Round(g, root, k))
         /\ Round(g, root, 0) = Walk!Start(root)
         /\ \A k \in 1..Size(g) :
              Round(g, root, k) =
                IF Round(g, root, k - 1).queue = <<>> THEN Round(g, root, k - 1)
                ELSE Walk!Visit(g, Round(g, root, k - 1))
         /\ Walk!Expand(g, root) = Round(g, root, Size(g))
<1> DEFINE N == Size(g)
           S == {w \in Walks(g) : SoundWalk(g, root, w)}
           x == Walk!Start(root)
           next(w) == IF w.queue = <<>> THEN w ELSE Walk!Visit(g, w)
           F == [w \in S |-> next(w)]
           W == Walk!After(g, root)
<1>1. N \in Nat /\ Walk!Cardinality(DOMAIN g) = N
  BY Counts DEF Size
<1>2. x \in S
  <2>1. SoundWalk(g, root, x)
    BY StartIsSound
  <2> QED
    BY <2>1 DEF SoundWalk
<1>3. F \in [S -> S] /\ \A w \in S : F[w] = next(w)
  <2>1. ASSUME NEW w \in S PROVE next(w) \in S
    <3>1. CASE w.queue = <<>>
      BY <3>1
    <3>2. CASE w.queue # <<>>
      <4>1. SoundWalk(g, root, Walk!Visit(g, w))
        BY <3>2, VisitFacts
      <4>2. Walk!Visit(g, w) \in S
        BY <4>1 DEF SoundWalk
      <4> QED
        BY <3>2, <4>2
    <3> QED
      BY <3>1, <3>2
  <2> HIDE DEF S, next
  <2> QED
    BY <2>1
<1>4. W = CHOOSE h : h = [k \in 0..N |-> IF k = 0 THEN x ELSE next(h[k - 1])]
  BY <1>1 DEF Walk!After
<1>5. Walk!Expand(g, root) = W[N]
  BY <1>1 DEF Walk!Expand
<1>6. \A w \in S : SoundWalk(g, root, w)
  OBVIOUS
<1> HIDE DEF N, S, x, F, next, W
<1>7. PICK f : Iteration(f, N, S, x, F)
  BY <1>1, <1>2, <1>3, Iterates
<1>8. f = [k \in 0..N |-> IF k = 0 THEN x ELSE next(f[k - 1])]
  <2>1. \A k \in 1..N : f[k - 1] \in S
    BY <1>1, <1>7 DEF Iteration
  <2> QED
    BY <1>1, <1>3, <1>7, <2>1 DEF Iteration
<1>9. W = [k \in 0..N |-> IF k = 0 THEN x ELSE next(W[k - 1])]
  BY <1>4, <1>8
<1>10. W[0] = x /\ \A k \in 1..N : W[k] = next(W[k - 1])
  BY <1>1, <1>9
<1>11. W = [k \in 0..N |-> W[k]]
  BY <1>9
<1>12. W \in [0..N -> S]
  <2>1. W[0] \in S
    BY <1>2, <1>10
  <2>2. \A w \in S : next(w) \in S
    BY <1>3
  <2>3. \A k \in 1..N : W[k - 1] \in S => W[k] \in S
    BY <1>10, <2>2
  <2> QED
    BY <1>1, <1>11, <2>1, <2>3, RoundsTyped
<1>13. \A k \in 0..N : SoundWalk(g, root, W[k])
  BY <1>6, <1>12
<1> QED
  BY <1>5, <1>10, <1>13 DEF N, x, next, W, Round

LEMMA ElementsOfNone ==
  ASSUME NEW q, q = <<>>
  PROVE  Elements(q) = {}
BY DEF Elements

LEMMA QueueIsEmpty ==
  ASSUME NEW g, NEW root, NEW w, SoundWalk(g, root, w), Elements(w.queue) = {}
  PROVE  w.queue = <<>>
<1>1. w \in Walks(g)
  BY DEF SoundWalk
<1>2. w.queue \in Seq(DOMAIN g)
  BY <1>1, WalkTyped, Zenon
<1> DEFINE q == w.queue
<1>3. SUFFICES q = <<>>
  OBVIOUS
<1>4. q \in Seq(DOMAIN g) /\ Elements(q) = {}
  BY <1>2
<1> HIDE DEF q
<1>5. Len(q) \in Nat
  BY <1>4
<1>6. Len(q) = 0
  <2> SUFFICES ASSUME Len(q) # 0 PROVE FALSE
    OBVIOUS
  <2>1. 1 \in 1..Len(q)
    BY <1>5
  <2> QED
    BY <1>4, <2>1 DEF Elements
<1> QED
  BY <1>4, <1>6

LEMMA WalkEnds ==
  ASSUME NEW g, IsFiniteSet(DOMAIN g), NEW root \in DOMAIN g
  PROVE  Walk!Expand(g, root).queue = <<>>
<1> DEFINE N == Size(g)
           R(k) == Round(g, root, k)
           T == {k \in 0..N : R(k).queue = <<>> \/ Cardinality(Visited(R(k))) = k}
<1>1. N \in Nat
  BY Counts DEF Size
<1>2. /\ \A k \in 0..N : SoundWalk(g, root, R(k))
      /\ R(0) = Walk!Start(root)
      /\ \A k \in 1..N : R(k) = IF R(k - 1).queue = <<>> THEN R(k - 1) ELSE Walk!Visit(g, R(k - 1))
      /\ Walk!Expand(g, root) = R(N)
  BY AfterFacts
<1> HIDE DEF N, R
<1>3. \A k \in 0..N : Visited(R(k)) \subseteq DOMAIN g /\ IsFiniteSet(Visited(R(k)))
                      /\ R(k).seen \subseteq DOMAIN g
  <2> TAKE k \in 0..N
  <2>1. R(k) \in Walks(g)
    BY <1>2 DEF SoundWalk
  <2>2. R(k).seen \in SUBSET DOMAIN g
    BY <2>1, WalkTyped, Zenon
  <2>3. Visited(R(k)) \subseteq DOMAIN g
    BY <2>2 DEF Visited
  <2> QED
    BY <2>2, <2>3, FS_Subset
<1>4. 0 \in T
  <2>1. Visited(R(0)) = {}
    BY <1>2, StartIsSound
  <2>2. Cardinality(Visited(R(0))) = 0
    BY <2>1, FS_EmptySet
  <2> QED
    BY <1>1, <2>2
<1>5. ASSUME NEW k \in 0..N, k < N, k \in T PROVE k + 1 \in T
  <2>1. k + 1 \in 1..N /\ k + 1 \in 0..N /\ (k + 1) - 1 = k
    BY <1>1, <1>5
  <2>2. R(k + 1) = IF R(k).queue = <<>> THEN R(k) ELSE Walk!Visit(g, R(k))
    BY <1>2, <2>1
  <2>3. CASE R(k).queue = <<>>
    BY <2>1, <2>2, <2>3
  <2>4. CASE R(k).queue # <<>>
    <3>1. Cardinality(Visited(R(k))) = k
      BY <1>5, <2>4
    <3> DEFINE h == Head(R(k).queue)
    <3>2. Visited(R(k + 1)) = Visited(R(k)) \cup {h} /\ h \notin Visited(R(k))
      <4> DEFINE w == R(k)
      <4>1. SoundWalk(g, root, w) /\ R(k + 1) = Walk!Visit(g, w) /\ w.queue # <<>> /\ h = Head(w.queue)
        BY <1>2, <2>2, <2>4
      <4> HIDE DEF w, h
      <4>2. Visited(Walk!Visit(g, w)) = Visited(w) \cup {h} /\ h \notin Visited(w)
        <5>1. Visiting(g, w, Walk!Visit(g, w))
          BY <4>1, VisitFacts
        <5> QED
          BY <4>1, <5>1 DEF Visiting
      <4> QED
        BY <4>1, <4>2 DEF w
    <3> HIDE DEF h
    <3>3. Cardinality(Visited(R(k + 1))) = k + 1
      BY <1>3, <3>1, <3>2, FS_AddElement
    <3> QED
      BY <2>1, <3>3
  <2> QED
    BY <2>3, <2>4
<1>6. \A k \in 0..N : k \in T
  <2> HIDE DEF T
  <2> QED
    BY <1>1, <1>4, <1>5, CountingUp
<1>7. R(N).queue = <<>> \/ Cardinality(Visited(R(N))) = N
  <2>1. N \in 0..N
    BY <1>1
  <2>2. N \in T
    BY <1>6, <2>1
  <2> QED
    BY <2>2
<1>8. CASE Cardinality(Visited(R(N))) = N
  <2>1. N \in 0..N
    BY <1>1
  <2>2. Visited(R(N)) \subseteq DOMAIN g /\ R(N).seen \subseteq DOMAIN g
    BY <1>3, <2>1
  <2>3. Visited(R(N)) = DOMAIN g
    <3>1. Cardinality(Visited(R(N))) = Cardinality(DOMAIN g)
      BY <1>8 DEF N, Size
    <3> QED
      BY <2>2, <3>1, FS_Subset
  <2>4. SoundWalk(g, root, R(N)) /\ Elements(R(N).queue) \subseteq R(N).seen
    BY <1>2, <2>1 DEF SoundWalk
  <2>5. Elements(R(N).queue) = {}
    BY <2>2, <2>3, <2>4 DEF Visited
  <2>6. R(N).queue = <<>>
    BY <2>4, <2>5, QueueIsEmpty
  <2> QED
    BY <1>2, <2>6
<1> QED
  BY <1>2, <1>7, <1>8

-----------------------------------------------------------------------------
(* The walk finds what paths lead to *)

LEMMA RoundTyped ==
  ASSUME NEW g, NEW root, NEW w, SoundWalk(g, root, w)
  PROVE  w.seen \subseteq DOMAIN g /\ Visited(w) \subseteq w.seen
<1>1. w \in Walks(g)
  BY DEF SoundWalk
<1>2. w.seen \in SUBSET DOMAIN g
  BY <1>1, WalkTyped, Zenon
<1> QED
  BY <1>2 DEF Visited

\* What a round does to what was seen.
LEMMA RoundSees ==
  ASSUME NEW g, IsFiniteSet(DOMAIN g), NEW root \in DOMAIN g,
         NEW k \in 0..Size(g), k < Size(g)
  PROVE  /\ k + 1 \in 0..Size(g)
         /\ \/ Round(g, root, k + 1) = Round(g, root, k)
            \/ /\ Round(g, root, k).queue # <<>>
               /\ SoundWalk(g, root, Round(g, root, k))
               /\ SoundWalk(g, root, Round(g, root, k + 1))
               /\ Visiting(g, Round(g, root, k), Round(g, root, k + 1))
<1> DEFINE w == Round(g, root, k)
<1>0. Size(g) \in Nat
  BY Counts DEF Size
<1>1. k + 1 \in 1..Size(g) /\ k + 1 \in 0..Size(g) /\ (k + 1) - 1 = k
  BY <1>0
<1>2. Round(g, root, k + 1) = IF w.queue = <<>> THEN w ELSE Walk!Visit(g, w)
  BY <1>1, AfterFacts
<1>3. SoundWalk(g, root, w)
  BY AfterFacts
<1> HIDE DEF w
<1>4. CASE w.queue = <<>>
  BY <1>1, <1>2, <1>4 DEF w
<1>5. CASE w.queue # <<>>
  <2>1. SoundWalk(g, root, Walk!Visit(g, w)) /\ Visiting(g, w, Walk!Visit(g, w))
    BY <1>3, <1>5, VisitFacts
  <2> QED
    BY <1>1, <1>2, <1>3, <1>5, <2>1 DEF w
<1> QED
  BY <1>4, <1>5

LEMMA SeenGrows ==
  ASSUME NEW g, IsFiniteSet(DOMAIN g), NEW root \in DOMAIN g,
         NEW i \in 0..Size(g), NEW j \in 0..Size(g), i <= j
  PROVE  Round(g, root, i).seen \subseteq Round(g, root, j).seen
<1> DEFINE N == Size(g)
           seen(k) == Round(g, root, k).seen
           T == {k \in 0..N : i <= k => seen(i) \subseteq seen(k)}
<1>1. N \in Nat
  BY Counts DEF Size
<1>2. 0 \in T
  BY <1>1
<1>3. ASSUME NEW k \in 0..N, k < N, k \in T PROVE k + 1 \in T
  <2>1. seen(k) \subseteq seen(k + 1)
    <3>1. Round(g, root, k + 1) = Round(g, root, k)
            \/ Visiting(g, Round(g, root, k), Round(g, root, k + 1))
      BY <1>3, RoundSees
    <3> QED
      BY <3>1 DEF Visiting
  <2>2. k + 1 \in 0..N
    BY <1>1, <1>3
  <2> HIDE DEF seen
  <2>3. CASE i = k + 1
    BY <2>2, <2>3
  <2>4. CASE i <= k
    BY <1>3, <2>1, <2>2, <2>4
  <2>5. i = k + 1 \/ i <= k \/ i > k + 1
    BY <1>1
  <2>6. CASE i > k + 1
    BY <1>1, <2>2, <2>6
  <2> QED
    BY <2>3, <2>4, <2>5, <2>6
<1>4. \A k \in 0..N : k \in T
  <2> HIDE DEF T, N
  <2> QED
    BY <1>1, <1>2, <1>3, CountingUp
<1> QED
  BY <1>4

LEMMA WithinGrows ==
  ASSUME NEW g, IsFiniteSet(DOMAIN g), NEW root \in DOMAIN g,
         NEW i \in 0..Size(g), NEW j \in 0..Size(g), i <= j
  PROVE  Walk!Within(g, root)[i] \subseteq Walk!Within(g, root)[j]
<1> DEFINE N == Size(g)
           W == Walk!Within(g, root)
           T == {k \in 0..N : i <= k => W[i] \subseteq W[k]}
<1>1. N \in Nat
  BY Counts DEF Size
<1>2. \A k \in 1..N : W[k - 1] \subseteq W[k]
  BY WithinFacts
<1> HIDE DEF W
<1>3. 0 \in T
  BY <1>1
<1>4. ASSUME NEW k \in 0..N, k < N, k \in T PROVE k + 1 \in T
  <2>1. k + 1 \in 1..N /\ k + 1 \in 0..N /\ (k + 1) - 1 = k
    BY <1>1, <1>4
  <2>2. W[k] \subseteq W[k + 1]
    BY <1>2, <2>1
  <2>3. i = k + 1 \/ i <= k \/ i > k + 1
    BY <1>1
  <2>4. CASE i = k + 1
    BY <2>1, <2>4
  <2>5. CASE i <= k
    BY <1>4, <2>1, <2>2, <2>5
  <2>6. CASE i > k + 1
    BY <1>1, <2>1, <2>6
  <2> QED
    BY <2>3, <2>4, <2>5, <2>6
<1>5. \A k \in 0..N : k \in T
  <2> HIDE DEF T, N
  <2> QED
    BY <1>1, <1>3, <1>4, CountingUp
<1> QED
  BY <1>5 DEF W

\* The walk ends, sound, and has seen what paths lead to.
LEMMA SeenIsReachable ==
  ASSUME NEW g, IsFiniteSet(DOMAIN g), NEW root \in DOMAIN g
  PROVE  /\ SoundWalk(g, root, Walk!Expand(g, root))
         /\ Visited(Walk!Expand(g, root)) = Walk!Reachable(g, root)
         /\ Walk!Expand(g, root).seen = Walk!Reachable(g, root)
         /\ \A k \in 0..Size(g) : Round(g, root, k).seen \subseteq Walk!Reachable(g, root)
<1> DEFINE N == Size(g)
           W == Walk!Within(g, root)
           R(k) == Round(g, root, k)
           last == Walk!Expand(g, root)
           below == {k \in 0..N : R(k).seen \subseteq W[k]}
           above == {k \in 0..N : W[k] \subseteq last.seen}
<1>1. N \in Nat /\ 0 \in 0..N /\ N \in 0..N
  BY Counts DEF Size
<1>2. /\ W[0] = {root} /\ Walk!Reachable(g, root) = W[N]
      /\ \A k \in 1..N : W[k] = W[k - 1] \cup UNION {Walk!Children(g, n) : n \in W[k - 1]}
  BY WithinFacts
<1>3. /\ \A k \in 0..N : SoundWalk(g, root, R(k))
      /\ R(0) = Walk!Start(root) /\ last = R(N)
  BY AfterFacts
<1>4. SoundWalk(g, root, last) /\ last.queue = <<>>
  BY <1>1, <1>3, WalkEnds
<1>5. Visited(last) = last.seen
  <2>1. Elements(last.queue) = {}
    BY <1>4, ElementsOfNone
  <2> QED
    BY <2>1 DEF Visited
<1>6. \A k \in 0..N : k \in below
  <2>1. 0 \in below
    <3>1. R(0).seen = {root}
      BY <1>3 DEF Walk!Start
    <3> QED
      BY <1>1, <1>2, <3>1
  <2>2. ASSUME NEW k \in 0..N, k < N, k \in below PROVE k + 1 \in below
    <3>1. k + 1 \in 1..N /\ k + 1 \in 0..N /\ (k + 1) - 1 = k
      BY <1>1, <2>2
    <3>2. W[k + 1] = W[k] \cup UNION {Walk!Children(g, n) : n \in W[k]}
      BY <1>2, <3>1
    <3>3. \/ R(k + 1) = R(k)
          \/ \E h \in R(k).seen : R(k + 1).seen \subseteq R(k).seen \cup Walk!Children(g, h)
      <4>1. R(k + 1) = R(k) \/ Visiting(g, R(k), R(k + 1))
        BY <2>2, RoundSees
      <4>2. ASSUME Visiting(g, R(k), R(k + 1))
            PROVE  \E h \in R(k).seen :
                     R(k + 1).seen \subseteq R(k).seen \cup Walk!Children(g, h)
        <5> DEFINE h == Head(R(k).queue)
        <5>1. h \in R(k).seen /\ R(k + 1).seen = R(k).seen \cup (Walk!Children(g, h) \ R(k).seen)
          BY <4>2 DEF Visiting
        <5> HIDE DEF h, R
        <5> QED
          BY <5>1
      <4> QED
        BY <4>1, <4>2
    <3>4. R(k).seen \subseteq W[k]
      BY <2>2
    <3> HIDE DEF R, W
    <3>5. R(k + 1).seen \subseteq W[k + 1]
      BY <3>2, <3>3, <3>4
    <3> QED
      BY <3>1, <3>5
  <2> HIDE DEF below, N
  <2> QED
    BY <1>1, <2>1, <2>2, CountingUp
<1>7. \A k \in 0..N : k \in above
  <2>1. root \in last.seen /\ \A n \in last.seen : Walk!Children(g, n) \subseteq last.seen
    BY <1>4, <1>5 DEF SoundWalk
  <2>2. 0 \in above
    BY <1>1, <1>2, <2>1
  <2>3. ASSUME NEW k \in 0..N, k < N, k \in above PROVE k + 1 \in above
    <3>1. k + 1 \in 1..N /\ k + 1 \in 0..N /\ (k + 1) - 1 = k
      BY <1>1, <2>3
    <3>2. W[k + 1] = W[k] \cup UNION {Walk!Children(g, n) : n \in W[k]}
      BY <1>2, <3>1
    <3>3. W[k] \subseteq last.seen
      BY <2>3
    <3> HIDE DEF last, W
    <3>4. W[k + 1] \subseteq last.seen
      BY <2>1, <3>2, <3>3
    <3> QED
      BY <3>1, <3>4
  <2> HIDE DEF above, N
  <2> QED
    BY <1>1, <2>2, <2>3, CountingUp
<1>8. last.seen = Walk!Reachable(g, root)
  <2>1. R(N).seen \subseteq W[N] /\ W[N] \subseteq last.seen
    BY <1>1, <1>6, <1>7
  <2> QED
    BY <1>2, <1>3, <2>1
<1>9. \A k \in 0..N : R(k).seen \subseteq Walk!Reachable(g, root)
  <2> TAKE k \in 0..N
  <2>1. k <= N
    BY <1>1
  <2>2. R(k).seen \subseteq R(N).seen
    BY <1>1, <2>1, SeenGrows
  <2> QED
    BY <1>3, <1>8, <2>2
<1> QED
  BY <1>4, <1>5, <1>8, <1>9

-----------------------------------------------------------------------------
(* How far a netgroup is, and that the walk meets the near ones first *)

LEMMA Least ==
  ASSUME NEW S \in SUBSET Nat, S # {}
  PROVE  \E m \in S : \A k \in S : m <= k
<1>1. PICK m \in S : \A k \in S : <<k, m>> \notin OpToRel(<, Nat)
  BY NatLessThanWellFounded, WFMin, Zenon
<1>2. \A k \in S : ~(k < m)
  BY <1>1 DEF OpToRel
<1>3. \A k \in S : k \in Nat /\ m \in Nat
  OBVIOUS
<1> QED
  BY <1>2, <1>3

LEMMA DistanceFacts ==
  ASSUME NEW g, IsFiniteSet(DOMAIN g), NEW root \in DOMAIN g,
         NEW n \in Walk!Reachable(g, root)
  PROVE  /\ Walk!Distance(g, root, n) \in 0..Size(g)
         /\ \A k \in 0..Size(g) :
              n \in Walk!Within(g, root)[k] <=> Walk!Distance(g, root, n) <= k
<1> DEFINE N == Size(g)
           W == Walk!Within(g, root)
           d == Walk!Distance(g, root, n)
           S == {k \in 0..N : n \in W[k]}
<1>1. N \in Nat /\ Walk!Cardinality(DOMAIN g) = N
  BY Counts DEF Size
<1>2. n \in W[N]
  BY WithinFacts
<1>3. d = CHOOSE k \in 0..N : n \in W[k] /\ (k > 0 => n \notin W[k - 1])
  BY <1>1 DEF Walk!Distance
<1>4. \A i, j \in 0..N : i <= j => W[i] \subseteq W[j]
  BY WithinGrows
<1> HIDE DEF N, W, d
<1>5. PICK m \in S : \A k \in S : m <= k
  <2>1. S \in SUBSET Nat /\ S # {}
    BY <1>1, <1>2
  <2> HIDE DEF S
  <2> QED
    BY <2>1, Least
<1>6. m > 0 => n \notin W[m - 1]
  <2> SUFFICES ASSUME m > 0, n \in W[m - 1] PROVE FALSE
    OBVIOUS
  <2>1. m - 1 \in S
    BY <1>1
  <2> QED
    BY <1>1, <1>5, <2>1
<1>7. d \in 0..N /\ n \in W[d] /\ (d > 0 => n \notin W[d - 1])
  BY <1>3, <1>5, <1>6
<1>8. ASSUME NEW k \in 0..N PROVE n \in W[k] <=> d <= k
  <2>1. CASE d <= k
    BY <1>4, <1>7, <2>1
  <2>2. CASE ~(d <= k)
    <3>1. d > 0 /\ k <= d - 1 /\ d - 1 \in 0..N
      BY <1>1, <1>7, <2>2
    <3>2. W[k] \subseteq W[d - 1]
      BY <1>4, <3>1
    <3> QED
      BY <1>7, <2>2, <3>1, <3>2
  <2> QED
    BY <2>1, <2>2
<1> QED
  BY <1>7, <1>8 DEF N, W, d

LEMMA ReachableCloses ==
  ASSUME NEW g, IsFiniteSet(DOMAIN g), NEW root \in DOMAIN g
  PROVE  /\ Walk!Reachable(g, root) \subseteq DOMAIN g
         /\ root \in Walk!Reachable(g, root)
         /\ \A n \in Walk!Reachable(g, root) :
              Walk!Children(g, n) \subseteq Walk!Reachable(g, root)
<1> DEFINE w == Walk!Expand(g, root)
<1>1. SoundWalk(g, root, w) /\ Visited(w) = Walk!Reachable(g, root)
      /\ w.seen = Walk!Reachable(g, root)
  BY SeenIsReachable
<1> HIDE DEF w
<1>2. w.seen \subseteq DOMAIN g
  BY <1>1, RoundTyped
<1> QED
  BY <1>1, <1>2 DEF SoundWalk

LEMMA OneFurther ==
  ASSUME NEW g, IsFiniteSet(DOMAIN g), NEW root \in DOMAIN g,
         NEW n \in Walk!Reachable(g, root), NEW m \in Walk!Children(g, n)
  PROVE  /\ m \in Walk!Reachable(g, root)
         /\ Walk!Distance(g, root, m) <= Walk!Distance(g, root, n) + 1
<1> DEFINE N == Size(g)
           W == Walk!Within(g, root)
           d(x) == Walk!Distance(g, root, x)
<1>1. N \in Nat
  BY Counts DEF Size
<1>2. m \in Walk!Reachable(g, root)
  BY ReachableCloses
<1>3. /\ d(n) \in 0..N /\ d(m) \in 0..N
      /\ \A k \in 0..N : n \in W[k] <=> d(n) <= k
      /\ \A k \in 0..N : m \in W[k] <=> d(m) <= k
  BY <1>2, DistanceFacts
<1>4. \A k \in 1..N : W[k] = W[k - 1] \cup UNION {Walk!Children(g, x) : x \in W[k - 1]}
  BY WithinFacts
<1> HIDE DEF N, W, d
<1>5. d(m) <= d(n) + 1
  <2>1. CASE d(n) = N
    BY <1>1, <1>3, <2>1
  <2>2. CASE d(n) # N
    <3>1. d(n) + 1 \in 1..N /\ d(n) + 1 \in 0..N /\ (d(n) + 1) - 1 = d(n)
      BY <1>1, <1>3, <2>2
    <3>2. n \in W[d(n)]
      BY <1>1, <1>3
    <3>3. m \in W[d(n) + 1]
      BY <1>4, <3>1, <3>2
    <3> QED
      BY <1>3, <3>1, <3>3
  <2> QED
    BY <2>1, <2>2
<1> QED
  BY <1>2, <1>5 DEF d

LEMMA OneNearer ==
  ASSUME NEW g, IsFiniteSet(DOMAIN g), NEW root \in DOMAIN g,
         NEW n \in Walk!Reachable(g, root), Walk!Distance(g, root, n) > 0
  PROVE  \E p \in Walk!Reachable(g, root) :
           /\ n \in Walk!Children(g, p)
           /\ Walk!Distance(g, root, p) < Walk!Distance(g, root, n)
<1> DEFINE N == Size(g)
           W == Walk!Within(g, root)
           d(x) == Walk!Distance(g, root, x)
<1>1. N \in Nat
  BY Counts DEF Size
<1>2. d(n) \in 0..N /\ \A k \in 0..N : n \in W[k] <=> d(n) <= k
  BY DistanceFacts
<1>3. /\ \A k \in 1..N : W[k] = W[k - 1] \cup UNION {Walk!Children(g, x) : x \in W[k - 1]}
      /\ Walk!Reachable(g, root) = W[N]
  BY WithinFacts
<1>4. \A k \in 0..N : W[k] \subseteq W[N]
  <2> TAKE k \in 0..N
  <2>1. N \in 0..N /\ k <= N
    BY <1>1
  <2> QED
    BY <2>1, WithinGrows
<1>5. d(n) > 0
  OBVIOUS
<1>6. \A p \in Walk!Reachable(g, root) :
        d(p) \in 0..N /\ \A k \in 0..N : p \in W[k] <=> d(p) <= k
  BY DistanceFacts
<1> HIDE DEF N, W, d
<1>7. d(n) \in 1..N /\ d(n) - 1 \in 0..N
  BY <1>1, <1>2, <1>5
<1>8. n \in W[d(n)] /\ n \notin W[d(n) - 1]
  <2>1. d(n) <= d(n) /\ ~(d(n) <= d(n) - 1)
    BY <1>2
  <2> QED
    BY <1>2, <1>7, <2>1
<1>9. PICK p \in W[d(n) - 1] : n \in Walk!Children(g, p)
  BY <1>3, <1>7, <1>8
<1>10. p \in Walk!Reachable(g, root)
  BY <1>3, <1>4, <1>7
<1>11. d(p) < d(n)
  <2>1. d(p) <= d(n) - 1 /\ d(p) \in 0..N
    BY <1>6, <1>7, <1>9, <1>10
  <2> QED
    BY <1>2, <2>1
<1> QED
  BY <1>9, <1>10, <1>11 DEF d

\* The queue is in the order of the distances, and holds no more than two of them;
\* what is no farther than its head has been seen; and whoever is named is named by
\* a netgroup as near as any that names them.
NearFirst(g, root, w) ==
  LET away(n) == Walk!Distance(g, root, n)
      reached == Walk!Reachable(g, root)
  IN /\ \A i, j \in 1..Len(w.queue) :
          i <= j => away(w.queue[i]) <= away(w.queue[j])
     /\ \A i \in 1..Len(w.queue) : away(w.queue[i]) <= away(w.queue[1]) + 1
     /\ w.queue # <<>> =>
          \A n \in reached : away(n) <= away(w.queue[1]) => n \in w.seen
     /\ \A u \in DOMAIN w.via : \A n \in reached :
          u \in Walk!NamesIn(g, n) => away(w.via[u]) <= away(n)

LEMMA StartIsNearFirst ==
  ASSUME NEW g, IsFiniteSet(DOMAIN g), NEW root \in DOMAIN g
  PROVE  NearFirst(g, root, Walk!Start(root))
<1> DEFINE w == Walk!Start(root)
           away(n) == Walk!Distance(g, root, n)
           reached == Walk!Reachable(g, root)
<1>1. w.queue = <<root>> /\ w.seen = {root} /\ DOMAIN w.via = {}
  BY DEF Walk!Start
<1>2. root \in reached /\ reached \subseteq DOMAIN g
  BY ReachableCloses
<1>3. Size(g) \in Nat
  BY Counts DEF Size
<1>4. \A n \in reached : away(n) \in 0..Size(g)
  BY DistanceFacts
<1>5. away(root) = 0
  <2>1. root \in Walk!Within(g, root)[0] /\ 0 \in 0..Size(g)
    BY <1>3, WithinFacts
  <2>2. away(root) <= 0 /\ away(root) \in 0..Size(g)
    BY <1>2, <2>1, DistanceFacts
  <2> HIDE DEF away
  <2> QED
    BY <1>3, <2>2
<1>6. ASSUME NEW n \in reached, away(n) <= away(root) PROVE n = root
  <2>1. 0 \in 0..Size(g) /\ away(n) <= 0
    BY <1>3, <1>4, <1>5, <1>6
  <2>2. n \in Walk!Within(g, root)[0]
    BY <2>1, DistanceFacts
  <2> QED
    BY <2>2, WithinFacts
<1>7. Len(w.queue) = 1 /\ w.queue[1] = root
  BY <1>1
<1> HIDE DEF w, away, reached
<1>8. away(root) \in Nat /\ away(root) <= away(root) + 1
  BY <1>5
<1>9. /\ \A i, j \in 1..Len(w.queue) :
           i <= j => away(w.queue[i]) <= away(w.queue[j])
      /\ \A i \in 1..Len(w.queue) : away(w.queue[i]) <= away(w.queue[1]) + 1
  BY <1>7, <1>8
<1>10. \A n \in reached : away(n) <= away(w.queue[1]) => n \in w.seen
  BY <1>1, <1>6, <1>7
<1> QED
  BY <1>1, <1>9, <1>10 DEF NearFirst, w, away, reached

LEMMA VisitIsNearFirst ==
  ASSUME NEW g, IsFiniteSet(DOMAIN g), NEW root \in DOMAIN g,
         NEW w, NEW next, SoundWalk(g, root, w), SoundWalk(g, root, next),
         w.queue # <<>>, Visiting(g, w, next),
         next.seen \subseteq Walk!Reachable(g, root), NearFirst(g, root, w)
  PROVE  NearFirst(g, root, next)
<1> DEFINE away(n) == Walk!Distance(g, root, n)
           reached == Walk!Reachable(g, root)
           h == Head(w.queue)
           fresh == Walk!Children(g, h) \ w.seen
           q == w.queue
           p == next.queue
           L == Len(q) - 1
\* The two walks, and how they differ.
<1>1. /\ q \in Seq(DOMAIN g) /\ p \in Seq(DOMAIN g)
      /\ Elements(q) \subseteq w.seen /\ Elements(p) \subseteq next.seen
  <2>1. w \in Walks(g) /\ next \in Walks(g)
    BY DEF SoundWalk
  <2>2. q \in Seq(DOMAIN g) /\ p \in Seq(DOMAIN g)
    BY <2>1, WalkTyped, Zenon
  <2>3. Elements(q) \subseteq w.seen /\ Elements(p) \subseteq next.seen
    BY DEF SoundWalk
  <2> QED
    BY <2>2, <2>3
<1>2. /\ Len(q) \in Nat /\ Len(q) # 0 /\ Len(p) \in Nat /\ L \in Nat /\ 1 \in 1..Len(q)
  BY <1>1
<1>3. /\ next.seen = w.seen \cup fresh /\ next.seen \subseteq reached
      /\ h \in w.seen /\ h = q[1]
      /\ Visited(next) = Visited(w) \cup {h}
      /\ Elements(p) = (Elements(q) \ {h}) \cup fresh
  BY DEF Visiting
<1>4. \A i \in 1..Len(p) :
        \/ i <= L /\ p[i] = q[i + 1]
        \/ i > L /\ p[i] \in fresh
  BY DEF Visiting
<1>5. next.via = [u \in DOMAIN w.via \cup Walk!NamesIn(g, h) |->
                    IF u \in DOMAIN w.via THEN w.via[u] ELSE h]
  BY DEF Visiting
<1>6. /\ \A i, j \in 1..Len(q) : i <= j => away(q[i]) <= away(q[j])
      /\ \A i \in 1..Len(q) : away(q[i]) <= away(q[1]) + 1
      /\ \A n \in reached : away(n) <= away(q[1]) => n \in w.seen
      /\ \A u \in DOMAIN w.via : \A n \in reached :
           u \in Walk!NamesIn(g, n) => away(w.via[u]) <= away(n)
  BY DEF NearFirst
<1>7. \A n \in reached : away(n) \in Nat
  <2>1. Size(g) \in Nat
    BY Counts DEF Size
  <2>2. \A n \in reached : away(n) \in 0..Size(g)
    BY DistanceFacts
  <2> HIDE DEF away, reached
  <2> QED
    BY <2>1, <2>2
<1>8. h \in reached
  BY <1>3
<1>9. \A m \in Walk!Children(g, h) : away(m) <= away(h) + 1
  BY <1>8, OneFurther
<1>10. \A n \in reached : away(n) > 0 =>
         \E b \in reached : n \in Walk!Children(g, b) /\ away(b) < away(n)
  BY OneNearer
<1>11. \A n \in Visited(next) : Walk!Children(g, n) \subseteq next.seen
  BY DEF SoundWalk
<1>12. DOMAIN w.via = UNION {Walk!NamesIn(g, n) : n \in Visited(w)}
  BY DEF SoundWalk
<1>13. fresh \cap w.seen = {} /\ fresh \subseteq Walk!Children(g, h) /\ fresh \subseteq reached
  BY <1>3
<1>14. Visited(w) = w.seen \ Elements(q) /\ Visited(next) = next.seen \ Elements(p)
  BY DEF Visited
<1> HIDE DEF away, reached, h, fresh, q, p, L
\* What enters the queue is one farther than what left it.
<1>15. ASSUME NEW m \in fresh PROVE away(m) = away(h) + 1
  <2>1. m \in reached /\ m \notin w.seen /\ away(m) <= away(h) + 1
    BY <1>9, <1>13
  <2>2. ~(away(m) <= away(h))
    BY <1>3, <1>6, <2>1
  <2> QED
    BY <1>7, <1>8, <2>1, <2>2
<1>16. ASSUME NEW i \in 1..Len(p)
       PROVE  /\ p[i] \in reached
              /\ away(h) <= away(p[i]) /\ away(p[i]) <= away(h) + 1
  <2>1. p[i] \in Elements(p)
    BY DEF Elements
  <2>2. p[i] \in reached
    BY <1>1, <1>3, <2>1
  <2>3. CASE i <= L /\ p[i] = q[i + 1]
    <3>1. i + 1 \in 1..Len(q) /\ 1 <= i + 1
      BY <1>2, <2>3 DEF L
    <3> QED
      BY <1>2, <1>3, <1>6, <2>2, <2>3, <3>1
  <2>4. CASE i > L /\ p[i] \in fresh
    <3>1. away(p[i]) = away(h) + 1
      BY <1>15, <2>4
    <3> QED
      BY <1>7, <1>8, <2>2, <3>1
  <2> QED
    BY <1>4, <2>3, <2>4
<1>17. ASSUME NEW i \in 1..Len(p), NEW j \in 1..Len(p), i <= j
       PROVE  away(p[i]) <= away(p[j])
  <2>0. L \in Int /\ i \in Int /\ j \in Int
    BY <1>2
  <2>1. CASE j <= L
    <3>1. p[i] = q[i + 1] /\ p[j] = q[j + 1]
      BY <1>4, <1>17, <2>0, <2>1
    <3>2. i + 1 \in 1..Len(q) /\ j + 1 \in 1..Len(q) /\ i + 1 <= j + 1
      BY <1>2, <1>17, <2>0, <2>1 DEF L
    <3> QED
      BY <1>6, <3>1, <3>2
  <2>2. CASE j > L
    <3>1. away(p[j]) = away(h) + 1
      <4>1. p[j] \in fresh
        BY <1>4, <2>0, <2>2
      <4> QED
        BY <1>15, <4>1
    <3> QED
      BY <1>16, <3>1
  <2> QED
    BY <2>0, <2>1, <2>2
<1>18. ASSUME NEW i \in 1..Len(p) PROVE away(p[i]) <= away(p[1]) + 1
  <2>1. 1 \in 1..Len(p)
    BY <1>2
  <2>2. away(p[i]) \in Nat /\ away(p[1]) \in Nat /\ away(h) \in Nat
    BY <1>7, <1>8, <1>16, <2>1
  <2> QED
    BY <1>16, <2>1, <2>2
\* What is no farther than the new head has been seen.
<1>19. ASSUME p # <<>>, NEW n \in reached, away(n) <= away(p[1]) PROVE n \in next.seen
  <2>1. 1 \in 1..Len(p)
    BY <1>1, <1>2, <1>19
  <2>2. away(n) \in Nat /\ away(h) \in Nat /\ away(p[1]) \in Nat
    BY <1>7, <1>8, <1>16, <2>1
  <2>3. CASE away(n) <= away(h)
    BY <1>3, <1>6, <2>3
  <2>4. CASE away(n) > away(h)
    <3>1. away(p[1]) = away(h) + 1 /\ away(n) = away(h) + 1
      BY <1>16, <1>19, <2>1, <2>2, <2>4
    <3>2. PICK b \in reached : n \in Walk!Children(g, b) /\ away(b) < away(n)
      BY <1>10, <2>2, <2>4
    <3>3. away(b) <= away(h)
      BY <1>7, <2>2, <3>1, <3>2
    <3>4. b \in w.seen
      BY <1>3, <1>6, <3>3
    <3>5. b \notin Elements(p)
      <4> SUFFICES ASSUME b \in Elements(p) PROVE FALSE
        OBVIOUS
      <4>1. PICK i \in 1..Len(p) : b = p[i]
        BY DEF Elements
      <4>2. 1 <= i
        BY <1>2
      <4>3. away(p[1]) <= away(b)
        BY <1>17, <2>1, <4>1, <4>2
      <4>4. away(b) \in Nat
        BY <1>7
      <4> QED
        BY <2>2, <3>1, <3>3, <4>3, <4>4
    <3>6. b \in Visited(next)
      BY <1>3, <1>14, <3>4, <3>5
    <3> QED
      BY <1>11, <3>2, <3>6
  <2> QED
    BY <2>2, <2>3, <2>4
\* Whoever is first named is named by the head, and by nothing nearer.
<1>20. ASSUME NEW u \in DOMAIN next.via, NEW n \in reached, u \in Walk!NamesIn(g, n)
       PROVE  away(next.via[u]) <= away(n)
  <2>1. CASE u \in DOMAIN w.via
    <3>1. next.via[u] = w.via[u]
      BY <1>5, <2>1
    <3> QED
      BY <1>6, <1>20, <2>1, <3>1
  <2>2. CASE u \notin DOMAIN w.via
    <3>1. next.via[u] = h
      BY <1>5, <2>2
    <3>2. n \notin Visited(w)
      BY <1>12, <1>20, <2>2
    <3>3. away(h) \in Nat /\ away(n) \in Nat
      BY <1>7, <1>8
    <3>4. CASE n \in Elements(q)
      <4>1. PICK i \in 1..Len(q) : n = q[i]
        BY <3>4 DEF Elements
      <4>2. 1 <= i
        BY <1>2
      <4> QED
        BY <1>2, <1>3, <1>6, <3>1, <4>1, <4>2
    <3>5. CASE n \notin w.seen
      <4>1. ~(away(n) <= away(h))
        BY <1>3, <1>6, <3>5
      <4> QED
        BY <3>1, <3>3, <4>1
    <3> QED
      BY <1>14, <3>2, <3>4, <3>5
  <2> QED
    BY <2>1, <2>2
<1> QED
  BY <1>17, <1>18, <1>19, <1>20 DEF NearFirst, away, reached, p

LEMMA WalkIsNearFirst ==
  ASSUME NEW g, IsFiniteSet(DOMAIN g), NEW root \in DOMAIN g
  PROVE  NearFirst(g, root, Walk!Expand(g, root))
<1> DEFINE N == Size(g)
           R(k) == Round(g, root, k)
           T == {k \in 0..N : NearFirst(g, root, R(k))}
<1>1. N \in Nat /\ 0 \in 0..N /\ N \in 0..N
  BY Counts DEF Size
<1>2. R(0) = Walk!Start(root) /\ Walk!Expand(g, root) = R(N)
  BY AfterFacts
<1>3. 0 \in T
  BY <1>1, <1>2, StartIsNearFirst
<1>4. ASSUME NEW k \in 0..N, k < N, k \in T PROVE k + 1 \in T
  <2>1. k + 1 \in 0..N
    BY <1>1, <1>4
  <2>2. CASE R(k + 1) = R(k)
    BY <1>4, <2>1, <2>2
  <2>3. ASSUME R(k).queue # <<>>, SoundWalk(g, root, R(k)), SoundWalk(g, root, R(k + 1)),
               Visiting(g, R(k), R(k + 1))
        PROVE  k + 1 \in T
    <3>1. R(k + 1).seen \subseteq Walk!Reachable(g, root)
      BY <2>1, SeenIsReachable
    <3>2. NearFirst(g, root, R(k))
      BY <1>4
    <3> HIDE DEF R
    <3>3. NearFirst(g, root, R(k + 1))
      BY <2>3, <3>1, <3>2, VisitIsNearFirst
    <3> QED
      BY <2>1, <3>3
  <2> QED
    BY <1>4, <2>2, <2>3, RoundSees
<1>5. \A k \in 0..N : k \in T
  <2> HIDE DEF T, N
  <2> QED
    BY <1>1, <1>3, <1>4, CountingUp
<1> QED
  BY <1>1, <1>2, <1>5

\* The walk, ended: who it names, by whom, what is open and what is missing.
LEMMA ExpandReaches ==
  ASSUME NEW g, IsFiniteSet(DOMAIN g), NEW root \in DOMAIN g
  PROVE  Walk!ExpandsToReachable(g, root)
<1> DEFINE w == Walk!Expand(g, root)
           reached == Walk!Reachable(g, root)
<1>1. SoundWalk(g, root, w) /\ Visited(w) = reached /\ w.seen = reached
  BY SeenIsReachable
<1>2. w.queue = <<>>
  BY WalkEnds
<1>3. NearFirst(g, root, w)
  BY WalkIsNearFirst
<1>4. \A u \in DOMAIN w.via : \A n \in reached : u \in Walk!NamesIn(g, n) =>
        Walk!Distance(g, root, w.via[u]) <= Walk!Distance(g, root, n)
  BY <1>3 DEF NearFirst
<1> HIDE DEF w, reached
<1>5. /\ DOMAIN w.via = UNION {Walk!NamesIn(g, n) : n \in reached}
      /\ \A u \in DOMAIN w.via : w.via[u] \in reached /\ u \in Walk!NamesIn(g, w.via[u])
      /\ w.open = {n \in reached : Anyone \in g[n].slots}
      /\ w.dangling = (UNION {g[n].members : n \in reached}) \ DOMAIN g
  BY <1>1 DEF SoundWalk
<1> QED
  BY <1>1, <1>2, <1>4, <1>5 DEF Walk!ExpandsToReachable, w, reached

-----------------------------------------------------------------------------
(* Every loop is reported *)

\* A reference that is not reported leads from what was seen to what was not yet.
LEMMA UnreportedLeadsOn ==
  ASSUME NEW g, IsFiniteSet(DOMAIN g), NEW root \in DOMAIN g,
         NEW n \in Walk!Reachable(g, root), NEW m \in Walk!Children(g, n),
         <<n, m>> \notin Walk!Expand(g, root).cycles
  PROVE  \E j \in 0..Size(g) :
           n \in Round(g, root, j).seen /\ m \notin Round(g, root, j).seen
<1> DEFINE N == Size(g)
           R(k) == Round(g, root, k)
           leads == \E j \in 0..N : n \in R(j).seen /\ m \notin R(j).seen
           T == {k \in 0..N : n \in Visited(R(k)) => <<n, m>> \in R(k).cycles \/ leads}
<1>1. N \in Nat /\ 0 \in 0..N /\ N \in 0..N
  BY Counts DEF Size
<1>2. R(0) = Walk!Start(root) /\ Walk!Expand(g, root) = R(N)
  BY AfterFacts
<1>3. 0 \in T
  BY <1>1, <1>2, StartIsSound
<1>4. ASSUME NEW k \in 0..N, k < N, k \in T PROVE k + 1 \in T
  <2>1. k + 1 \in 0..N
    BY <1>1, <1>4
  <2>2. CASE R(k + 1) = R(k)
    BY <1>4, <2>1, <2>2
  <2>3. ASSUME Visiting(g, R(k), R(k + 1)), n \in Visited(R(k + 1))
        PROVE  <<n, m>> \in R(k + 1).cycles \/ leads
    <3> DEFINE h == Head(R(k).queue)
    <3>1. /\ h \in R(k).seen
          /\ Visited(R(k + 1)) = Visited(R(k)) \cup {h}
          /\ R(k + 1).cycles = R(k).cycles \cup ({h} \X (Walk!Children(g, h) \cap R(k).seen))
      BY <2>3 DEF Visiting
    <3>2. n \in Visited(R(k)) => <<n, m>> \in R(k).cycles \/ leads
      BY <1>4
    <3> HIDE DEF h, R
    <3>3. CASE n \in Visited(R(k))
      BY <3>1, <3>2, <3>3
    <3>4. CASE n = h /\ m \in R(k).seen
      BY <3>1, <3>4
    <3>5. CASE n = h /\ m \notin R(k).seen
      BY <3>1, <3>5
    <3> QED
      BY <2>3, <3>1, <3>3, <3>4, <3>5
  <2>4. R(k + 1) = R(k) \/ Visiting(g, R(k), R(k + 1))
    BY <1>4, RoundSees
  <2> HIDE DEF leads, R
  <2> QED
    BY <2>1, <2>2, <2>3, <2>4
<1>5. \A k \in 0..N : k \in T
  <2> HIDE DEF T, N
  <2> QED
    BY <1>1, <1>3, <1>4, CountingUp
<1>6. n \in Visited(R(N))
  BY <1>2, SeenIsReachable
<1>7. N \in T
  BY <1>1, <1>5
<1> QED
  BY <1>2, <1>6, <1>7

LEMMA LoopsReported ==
  ASSUME NEW g, IsFiniteSet(DOMAIN g), NEW root \in DOMAIN g
  PROVE  Walk!LoopsAreReported(g, root)
<1> DEFINE w == Walk!Expand(g, root)
           cut == [n \in DOMAIN g |->
                     [g[n] EXCEPT !.members = {m \in @ : <<n, m>> \notin w.cycles}]]
           N == Size(g)
           R(k) == Round(g, root, k)
           reached == Walk!Reachable(g, root)
           earlier(n, x) == \E j \in 0..N : n \in R(j).seen /\ x \notin R(j).seen
<1> SUFFICES ASSUME NEW n \in w.seen, NEW m \in Walk!Children(cut, n)
             PROVE  ~Walk!OnCycle(cut, <<n, m>>)
  BY DEF Walk!LoopsAreReported
<1>1. N \in Nat /\ 0 \in 0..N /\ N \in 0..N
  BY Counts DEF Size
<1>2. w.seen = reached /\ reached \subseteq DOMAIN g
  BY SeenIsReachable, ReachableCloses
<1>3. DOMAIN cut = DOMAIN g
  OBVIOUS
<1>4. ASSUME NEW a \in reached, NEW b \in Walk!Children(cut, a)
      PROVE  b \in reached /\ b \in DOMAIN g /\ earlier(a, b)
  <2>1. cut[a].members \subseteq {x \in g[a].members : <<a, x>> \notin w.cycles}
    BY <1>2
  <2> HIDE DEF cut, w
  <2>2. b \in Walk!Children(g, a) /\ <<a, b>> \notin w.cycles
    BY <1>3, <2>1 DEF Walk!Children
  <2>3. b \in reached
    BY <2>2, ReachableCloses
  <2>4. earlier(a, b)
    BY <2>2, UnreportedLeadsOn DEF w
  <2> QED
    BY <1>2, <2>3, <2>4
<1>5. \A i, j \in 0..N : i <= j => R(i).seen \subseteq R(j).seen
  BY SeenGrows
<1>6. \A a, b, c : earlier(a, b) /\ earlier(b, c) => earlier(a, c)
  <2> SUFFICES ASSUME NEW a, NEW b, NEW c,
                      NEW i \in 0..N, a \in R(i).seen, b \notin R(i).seen,
                      NEW j \in 0..N, b \in R(j).seen, c \notin R(j).seen
               PROVE  earlier(a, c)
    OBVIOUS
  <2> HIDE DEF R, N
  <2>1. i <= j \/ j <= i
    BY <1>1
  <2> QED
    BY <1>5, <2>1
<1>7. m \in DOMAIN g /\ m \in reached /\ earlier(n, m)
  BY <1>2, <1>4
<1> DEFINE V == Walk!Within(cut, m)
           T == {k \in 0..N : \A x \in V[k] : x \in reached /\ earlier(n, x)}
<1>8. /\ V[0] = {m} /\ Walk!Reachable(cut, m) = V[N]
      /\ \A k \in 1..N : V[k] = V[k - 1] \cup UNION {Walk!Children(cut, x) : x \in V[k - 1]}
  <2>1. IsFiniteSet(DOMAIN cut) /\ m \in DOMAIN cut /\ Size(cut) = N
    BY <1>3, <1>7 DEF Size
  <2> HIDE DEF cut, N
  <2> QED
    BY <2>1, WithinFacts
<1> HIDE DEF V, cut, w, R, reached, earlier
<1>9. 0 \in T
  BY <1>1, <1>7, <1>8
<1>10. ASSUME NEW k \in 0..N, k < N, k \in T PROVE k + 1 \in T
  <2>1. k + 1 \in 1..N /\ k + 1 \in 0..N /\ (k + 1) - 1 = k
    BY <1>1, <1>10
  <2>2. V[k + 1] = V[k] \cup UNION {Walk!Children(cut, x) : x \in V[k]}
    BY <1>8, <2>1
  <2>3. ASSUME NEW y \in V[k + 1] PROVE y \in reached /\ earlier(n, y)
    <3>1. CASE y \in V[k]
      BY <1>10, <3>1
    <3>2. CASE y \notin V[k]
      <4>1. PICK x \in V[k] : y \in Walk!Children(cut, x)
        BY <2>2, <3>2
      <4>2. x \in reached /\ earlier(n, x)
        BY <1>10
      <4>3. y \in reached /\ earlier(x, y)
        BY <1>4, <4>1, <4>2
      <4> QED
        BY <1>6, <4>2, <4>3
    <3> QED
      BY <3>1, <3>2
  <2> QED
    BY <2>1, <2>3
<1>11. \A k \in 0..N : k \in T
  <2> HIDE DEF T, N
  <2> QED
    BY <1>1, <1>9, <1>10, CountingUp
<1>12. n \notin V[N]
  <2> SUFFICES ASSUME n \in V[N] PROVE FALSE
    OBVIOUS
  <2>1. earlier(n, n)
    BY <1>1, <1>11
  <2> QED
    BY <2>1 DEF earlier
<1> QED
  BY <1>8, <1>12 DEF Walk!OnCycle

-----------------------------------------------------------------------------
(* Up and down agree *)

\* A path down from a netgroup goes on from one of those it nests.
LEMMA WithinFromBelow ==
  ASSUME NEW g, IsFiniteSet(DOMAIN g), NEW root \in DOMAIN g,
         NEW k \in 1..Size(g)
  PROVE  Walk!Within(g, root)[k] =
           {root} \cup UNION {Walk!Within(g, c)[k - 1] : c \in Walk!Children(g, root)}
<1> DEFINE N == Size(g)
           W(n) == Walk!Within(g, n)
           below(i) == {root} \cup UNION {W(c)[i] : c \in Walk!Children(g, root)}
           T == {i \in 0..N : i < N => W(root)[i + 1] = below(i)}
<1>1. N \in Nat /\ Walk!Children(g, root) \subseteq DOMAIN g
  BY Counts DEF Size, Walk!Children
<1>2. \A n \in DOMAIN g :
        /\ W(n)[0] = {n}
        /\ \A i \in 1..N :
             W(n)[i] = W(n)[i - 1] \cup UNION {Walk!Children(g, x) : x \in W(n)[i - 1]}
  BY WithinFacts
<1>3. \A n \in DOMAIN g : \A i \in 0..N : n \in W(n)[i]
  <2> TAKE n \in DOMAIN g
  <2> TAKE i \in 0..N
  <2>1. 0 \in 0..N /\ 0 <= i
    BY <1>1
  <2>2. W(n)[0] \subseteq W(n)[i]
    BY <2>1, WithinGrows
  <2> QED
    BY <1>2, <2>2
<1> HIDE DEF W, N
<1>4. 0 \in T
  <2>1. ASSUME 0 < N PROVE W(root)[0 + 1] = below(0)
    <3>1. 1 \in 1..N /\ 1 - 1 = 0 /\ 0 + 1 = 1
      BY <1>1, <2>1
    <3>2. W(root)[1] = {root} \cup Walk!Children(g, root)
      BY <1>2, <3>1
    <3>3. UNION {W(c)[0] : c \in Walk!Children(g, root)} = Walk!Children(g, root)
      BY <1>1, <1>2
    <3> QED
      BY <3>1, <3>2, <3>3
  <2> QED
    BY <1>1, <2>1
<1>5. ASSUME NEW i \in 0..N, i < N, i \in T PROVE i + 1 \in T
  <2>1. i + 1 \in 0..N
    BY <1>1, <1>5
  <2>2. ASSUME i + 1 < N PROVE W(root)[(i + 1) + 1] = below(i + 1)
    <3>1. /\ i + 1 \in 1..N /\ (i + 1) - 1 = i
          /\ (i + 1) + 1 \in 1..N /\ ((i + 1) + 1) - 1 = i + 1
      BY <1>1, <2>1, <2>2
    <3>2. W(root)[(i + 1) + 1] =
            W(root)[i + 1] \cup UNION {Walk!Children(g, x) : x \in W(root)[i + 1]}
      BY <1>2, <3>1
    <3>3. W(root)[i + 1] = below(i)
      BY <1>5
    <3>4. \A c \in Walk!Children(g, root) :
            W(c)[i + 1] = W(c)[i] \cup UNION {Walk!Children(g, x) : x \in W(c)[i]}
      BY <1>1, <1>2, <3>1
    <3>5. \A c \in Walk!Children(g, root) : c \in W(c)[i + 1]
      BY <1>1, <1>3, <2>1
    <3> DEFINE a == W(root)[(i + 1) + 1]
               b == W(root)[i + 1]
    <3>6. a = b \cup UNION {Walk!Children(g, x) : x \in b}
      BY <3>2
    <3>7. b = {root} \cup UNION {W(c)[i] : c \in Walk!Children(g, root)}
      BY <3>3
    <3> HIDE DEF a, b
    <3>8. ASSUME NEW y \in a PROVE y \in below(i + 1)
      <4>1. CASE y \in b
        BY <3>4, <3>7, <4>1
      <4>2. CASE y \notin b
        <5>1. PICK x \in b : y \in Walk!Children(g, x)
          BY <3>6, <3>8, <4>2
        <5>2. CASE x = root
          BY <3>5, <5>1, <5>2
        <5>3. CASE x # root
          <6>1. PICK c \in Walk!Children(g, root) : x \in W(c)[i]
            BY <3>7, <5>3
          <6>2. y \in W(c)[i + 1]
            BY <3>4, <5>1, <6>1
          <6> QED
            BY <6>2
        <5> QED
          BY <5>2, <5>3
      <4> QED
        BY <4>1, <4>2
    <3>9. ASSUME NEW y \in below(i + 1) PROVE y \in a
      <4>1. CASE y = root
        BY <3>6, <3>7, <4>1
      <4>2. CASE y # root
        <5>1. PICK c \in Walk!Children(g, root) : y \in W(c)[i + 1]
          BY <3>9, <4>2
        <5>2. CASE y \in W(c)[i]
          BY <3>6, <3>7, <5>2
        <5>3. CASE y \notin W(c)[i]
          <6>1. PICK x \in W(c)[i] : y \in Walk!Children(g, x)
            BY <3>4, <5>1, <5>3
          <6>2. x \in b
            BY <3>7, <6>1
          <6> QED
            BY <3>6, <6>1, <6>2
        <5> QED
          BY <5>2, <5>3
      <4> QED
        BY <4>1, <4>2
    <3> HIDE DEF below
    <3> QED
      BY <3>8, <3>9 DEF a
  <2> QED
    BY <2>1, <2>2
<1>6. \A i \in 0..N : i \in T
  <2> HIDE DEF T
  <2> QED
    BY <1>1, <1>4, <1>5, CountingUp
<1>7. k - 1 \in 0..N /\ k - 1 < N /\ (k - 1) + 1 = k
  BY <1>1 DEF N
<1> QED
  BY <1>6, <1>7 DEF W

LEMMA UpMirrorsDown ==
  ASSUME NEW g, IsFiniteSet(DOMAIN g), NEW u, NEW n \in DOMAIN g
  PROVE  n \in Walk!ContainingUser(g, u) <=> u \in DOMAIN Walk!Expand(g, n).via
<1> DEFINE N == Size(g)
           W(p) == Walk!Within(g, p)
           F == Walk!Found(g, u)
           leading(k) == {p \in DOMAIN g : \E m \in W(p)[k] : u \in Walk!NamesIn(g, m)}
           T == {k \in 0..N : F[k] = leading(k)}
<1>1. N \in Nat /\ 0 \in 0..N /\ N \in 0..N
  BY Counts DEF Size
<1>2. /\ F \in [0..N -> SUBSET DOMAIN g] /\ F[0] = Walk!Naming(g, u)
      /\ \A k \in 1..N : F[k] = F[k - 1] \cup Walk!Parents(g, F[k - 1])
      /\ Walk!ContainingUser(g, u) = F[N]
  BY FoundFacts
<1>3. \A p \in DOMAIN g : W(p)[0] = {p} /\ Walk!Reachable(g, p) = W(p)[N]
  BY WithinFacts
<1>4. \A p \in DOMAIN g : \A k \in 1..N :
        W(p)[k] = {p} \cup UNION {W(c)[k - 1] : c \in Walk!Children(g, p)}
  BY WithinFromBelow
<1>5. \A p \in DOMAIN g : \A k \in 1..N : W(p)[k - 1] \subseteq W(p)[k]
  BY WithinFacts
<1> HIDE DEF F, W, N
<1>6. 0 \in T
  <2>1. F[0] = leading(0)
    BY <1>2, <1>3 DEF Walk!Naming
  <2> QED
    BY <1>1, <2>1
<1>7. ASSUME NEW k \in 0..N, k < N, k \in T PROVE k + 1 \in T
  <2>1. k + 1 \in 1..N /\ k + 1 \in 0..N /\ (k + 1) - 1 = k
    BY <1>1, <1>7
  <2>2. F[k + 1] = F[k] \cup Walk!Parents(g, F[k]) /\ F[k] \subseteq DOMAIN g
    BY <1>2, <2>1
  <2>3. F[k] = leading(k)
    BY <1>7
  <2>4. \A p \in DOMAIN g : /\ W(p)[k] \subseteq W(p)[k + 1]
                            /\ W(p)[k + 1] = {p} \cup UNION {W(c)[k] : c \in Walk!Children(g, p)}
    BY <1>4, <1>5, <2>1
  <2>5. \A p \in DOMAIN g : p \in Walk!Parents(g, F[k]) <=>
          \E c \in Walk!Children(g, p) : c \in F[k]
    BY <2>2 DEF Walk!Parents, Walk!Children
  <2>6. \A p \in DOMAIN g : p \in F[k] <=> \E m \in W(p)[k] : u \in Walk!NamesIn(g, m)
    BY <2>3
  <2>7. \A p \in DOMAIN g : Walk!Children(g, p) \subseteq DOMAIN g
    BY DEF Walk!Children
  <2>8. \A p \in DOMAIN g : u \in Walk!NamesIn(g, p) => p \in F[k]
    <3> SUFFICES ASSUME NEW p \in DOMAIN g, u \in Walk!NamesIn(g, p) PROVE p \in F[k]
      OBVIOUS
    <3>1. W(p)[0] \subseteq W(p)[k]
      BY <1>1, WithinGrows DEF W, N
    <3> QED
      BY <1>3, <2>6, <3>1
  <2>9. ASSUME NEW p \in DOMAIN g
        PROVE  p \in F[k + 1] <=> \E m \in W(p)[k + 1] : u \in Walk!NamesIn(g, m)
    <3>1. CASE p \in F[k]
      BY <2>2, <2>4, <2>6, <3>1
    <3>2. CASE p \notin F[k]
      <4>1. ASSUME p \in F[k + 1] PROVE \E m \in W(p)[k + 1] : u \in Walk!NamesIn(g, m)
        <5>1. PICK c \in Walk!Children(g, p) : c \in F[k]
          BY <2>2, <2>5, <3>2, <4>1
        <5>2. PICK m \in W(c)[k] : u \in Walk!NamesIn(g, m)
          BY <2>6, <2>7, <5>1
        <5>3. m \in W(p)[k + 1]
          BY <2>4, <5>1, <5>2
        <5> QED
          BY <5>2, <5>3
      <4>2. ASSUME NEW m \in W(p)[k + 1], u \in Walk!NamesIn(g, m) PROVE p \in F[k + 1]
        <5>1. m # p
          BY <2>8, <3>2, <4>2
        <5>2. PICK c \in Walk!Children(g, p) : m \in W(c)[k]
          BY <2>4, <5>1
        <5>3. c \in F[k]
          BY <2>6, <2>7, <4>2, <5>2
        <5> QED
          BY <2>2, <2>5, <5>2, <5>3
      <4> QED
        BY <4>1, <4>2
    <3> QED
      BY <3>1, <3>2
  <2>10. F[k + 1] \subseteq DOMAIN g
    BY <1>2, <2>1
  <2>11. F[k + 1] = leading(k + 1)
    BY <2>9, <2>10
  <2> QED
    BY <2>1, <2>11
<1>8. \A k \in 0..N : k \in T
  <2> HIDE DEF T
  <2> QED
    BY <1>1, <1>6, <1>7, CountingUp
<1>9. F[N] = leading(N)
  BY <1>1, <1>8
<1>10. DOMAIN Walk!Expand(g, n).via = UNION {Walk!NamesIn(g, m) : m \in W(n)[N]}
  <2>1. Walk!ExpandsToReachable(g, n)
    BY ExpandReaches
  <2>2. DOMAIN Walk!Expand(g, n).via = UNION {Walk!NamesIn(g, m) : m \in Walk!Reachable(g, n)}
    BY <2>1 DEF Walk!ExpandsToReachable
  <2> QED
    BY <1>3, <2>2
<1> QED
  BY <1>2, <1>9, <1>10

-----------------------------------------------------------------------------
(* The netgroups of the directory *)

ThingsFinite == IsFiniteSet(things)

\* Every step creates, renames or deletes one entry at most.
LEMMA ThingsStayFinite == ThingsFinite /\ [Next]_vars => ThingsFinite'
<1> SUFFICES ASSUME IsFiniteSet(things), [Next]_vars PROVE IsFiniteSet(things')
  BY DEF ThingsFinite
<1>1. \/ UNCHANGED things
      \/ \E a, b : things' = (things \ {a}) \cup {b}
      \/ \E a : things' = things \ {a} \/ things' = things \cup {a}
  <2>1. ASSUME NEW r \in Requests,
               \/ BeginRename(r) \/ ReadLists(r) \/ WriteSwapped(r) \/ WriteFails(r)
               \/ BeginDelete(r) \/ NameLeftovers(r) \/ DropName(r)
               \/ ChangeFails(r) \/ OpenForm(r) \/ KeepUnreadable(r) \/ SaveForm(r)
        PROVE  UNCHANGED things
    BY <2>1 DEF BeginRename, ReadLists, WriteSwapped, WriteFails, BeginDelete, NameLeftovers,
                DropName, ChangeFails, OpenForm, KeepUnreadable, SaveForm
  <2>2. ASSUME NEW r \in Requests, Move(r)
        PROVE  \E a, b : things' = (things \ {a}) \cup {b}
    BY <2>2 DEF Move
  <2>3. ASSUME NEW r \in Requests, RenamePrimary(r)
        PROVE  UNCHANGED things \/ \E a, b : things' = (things \ {a}) \cup {b}
    BY <2>3 DEF RenamePrimary
  <2>4. ASSUME NEW r \in Requests, Remove(r) PROVE \E a : things' = things \ {a}
    BY <2>4 DEF Remove
  <2>5. DeleteRole => \E a : things' = things \ {a}
    BY DEF DeleteRole
  <2>6. Create => \E a : things' = things \cup {a}
    BY DEF Create
  <2>7. EditValue \/ EditOutside \/ Crash \/ UNCHANGED vars => UNCHANGED things
    BY DEF EditValue, EditOutside, Crash, vars
  <2> QED
    BY <2>1, <2>2, <2>3, <2>4, <2>5, <2>6, <2>7 DEF Next
<1>2. \A a : IsFiniteSet(things \ {a})
  BY FS_RemoveElement
<1>3. \A T, b : IsFiniteSet(T) => IsFiniteSet(T \cup {b})
  BY FS_AddElement
<1>4. CASE \E a, b : things' = (things \ {a}) \cup {b}
  <2>1. PICK gone, come : things' = (things \ {gone}) \cup {come}
    BY <1>4
  <2> DEFINE T == things \ {gone}
  <2>2. IsFiniteSet(T) /\ things' = T \cup {come}
    BY <1>2, <2>1
  <2> HIDE DEF T
  <2> QED
    BY <1>3, <2>2
<1> QED
  BY <1>1, <1>2, <1>3, <1>4

LEMMA ThingsAreFinite == Spec => []ThingsFinite
<1>1. Init => ThingsFinite
  BY FinitenessAssumption DEF Init, ThingsFinite
<1> QED
  BY <1>1, ThingsStayFinite, PTL DEF Spec

LEMMA GraphIsFinite ==
  ASSUME ThingsFinite
  PROVE  DOMAIN Graph = Netgroups /\ IsFiniteSet(DOMAIN Graph)
<1> DEFINE N == {t \in things : \E n \in Nets : t = <<"netgroup", n>>}
           f == [t \in N |-> t[2]]
<1>1. IsFiniteSet(N)
  BY FS_Subset DEF ThingsFinite
<1>2. f \in Surjection(N, Netgroups)
  <2>1. f \in [N -> Netgroups]
    BY DEF Netgroups
  <2>2. \A n \in Netgroups : \E t \in N : f[t] = n
    BY DEF Netgroups
  <2> HIDE DEF N, f
  <2> QED
    BY <2>1, <2>2 DEF Surjection
<1>3. IsFiniteSet(Netgroups)
  BY <1>1, <1>2, FS_Surjection
<1> QED
  BY <1>3 DEF Graph

\* Following the nesting of netgroups, whatever loops and diamonds there are and
\* however many netgroups: expand ends, meets exactly what paths lead to, attributes
\* every user to a netgroup as near as any that names them, reports what is open and
\* what is missing, and reports at least one reference of every loop.
THEOREM ExpansionIsReachabilityAlways == Spec => []ExpansionIsReachability
<1>1. ThingsFinite => ExpansionIsReachability
  BY GraphIsFinite, ExpandReaches, LoopsReported DEF ExpansionIsReachability
<1> QED
  BY <1>1, ThingsAreFinite, PTL

\* A netgroup is among those membershipsForUser finds, upwards, if and only if expand,
\* downwards, names the account: the sudo roles an account is shown are those that
\* reach it, in any directory.
THEOREM MembershipsMirrorExpansionAlways == Spec => []MembershipsMirrorExpansion
<1>1. ThingsFinite => MembershipsMirrorExpansion
  BY GraphIsFinite, UpMirrorsDown DEF MembershipsMirrorExpansion
<1> QED
  BY <1>1, ThingsAreFinite, PTL
=============================================================================
