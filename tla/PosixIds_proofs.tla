---------------------------- MODULE PosixIds_proofs ----------------------------
(***************************************************************************)
(* For any names, numbers, requests and failures: two accounts share a     *)
(* uidNumber, or two groups a gidNumber, only if each was written while    *)
(* the other was being written, or a search for a holder failed; and no    *)
(* account is left with a number that names no group unless somebody       *)
(* knows.                                                                  *)
(*                                                                         *)
(* A number that was found free is held, when it is written, by nobody but *)
(* those written since; the request's history says who that is.            *)
(***************************************************************************)
EXTENDS PosixIds, TLAPS

-----------------------------------------------------------------------------
(* The invariant *)

\* Where an allocation may be: where a search found it should begin, or further on.
Tries == (0..(Last + 1)) \cup {LeastFree(used) : used \in SUBSET (0..Last)}

Slot ==
  [pc : {"idle", "uid", "gid", "add", "password", "groupGid", "addGroup",
         "holder", "before", "modify", "sid", "warn", "leftovers", "deleteGroup"},
   name : Names \cup {None}, uid : 0..Last, gid : 0..Last, primary : BOOLEAN,
   try : Tries, tries : Nat, rows : Seq(Row), old : Entry, named : SUBSET Names,
   newUsers : SUBSET Names, newGroups : SUBSET Names]

Typed ==
  /\ forms \subseteq Row
  /\ users \in [Names -> Entry] /\ groups \in [Names -> 0..Last]
  /\ req \in [Requests -> Slot]

\* The holders of the number a request is about to write came after its search; of
\* a change, unless a search failed or found the account itself among several.
UidIsFree(q) ==
  /\ q.pc \in {"gid", "add"} => \A y \in Names : users[y].uid = q.uid => y \in q.newUsers
  /\ q.pc \in {"before", "modify"} /\ q.uid # 0 =>
       \A y \in Names \ {q.name} :
         users[y].uid = q.uid => y \in q.newUsers \/ q.name \in q.newUsers

GidIsFree(q) ==
  q.pc = "addGroup" => \A y \in Names : groups[y] = q.gid => y \in q.newGroups

\* A request that is running is about an entry, and about to write a real number.
Ready(q) ==
  /\ q.pc # "idle" => q.name \in Names
  /\ q.pc \in {"gid", "add"} => q.uid # 0
  /\ q.pc = "addGroup" => q.gid # 0

Reserved(q) == Ready(q) /\ UidIsFree(q) /\ GidIsFree(q)

SharedUids ==
  \A x, y \in Names :
    x # y /\ users[x].uid # 0 /\ users[x].uid = users[y].uid => <<"uid", {x, y}>> \in rivals
SharedGids ==
  \A x, y \in Names :
    x # y /\ groups[x] # 0 /\ groups[x] = groups[y] => <<"gid", {x, y}>> \in rivals

IInv == Typed /\ (\A r \in Requests : Reserved(req[r])) /\ SharedUids /\ SharedGids

LEMMA SharedIsProperty == SharedUids /\ SharedGids => SharedNumbersHaveRivals
  BY DEF SharedUids, SharedGids, SharedNumbersHaveRivals, Exists

-----------------------------------------------------------------------------
(* Places *)

LEMMA NumbersTyped ==
  /\ Last \in Nat /\ 0 \in 0..Last /\ Numbers \subseteq 0..Last /\ 0 \notin Numbers
  /\ 0 \in Tries /\ Absent \in Entry /\ None \notin Names
  BY ConstantsAssumption DEF Numbers, Tries, Absent, Entry

LEMMA IdleIsFree == Idle \in Slot /\ Idle.pc = "idle"
  BY NumbersTyped DEF Idle, Slot

\* Places at which a request has no number to write.
Unreserved == {"idle", "uid", "password", "groupGid", "holder", "sid", "warn",
               "leftovers", "deleteGroup"}

LEMMA UnreservedIsFree ==
  ASSUME NEW q, q.pc \in Unreserved, q.pc # "idle" => q.name \in Names
  PROVE  Reserved(q)
  BY DEF Unreserved, Reserved, Ready, UidIsFree, GidIsFree

LEMMA RestIsFree ==
  ASSUME IInv, NEW r \in Requests
  PROVE  /\ Rest(r) \in Slot /\ Rest(r).pc \in {"idle", "uid"}
         /\ Rest(r).pc # "idle" => Rest(r).name \in Names
<1>1. req[r] \in Slot
  BY DEF IInv, Typed
<1>2. CASE req[r].rows = <<>>
  BY <1>2, IdleIsFree DEF Rest
<1>3. CASE req[r].rows # <<>>
  <2>1. Head(req[r].rows) \in Row /\ Tail(req[r].rows) \in Seq(Row)
    BY <1>1, <1>3 DEF Slot
  <2> DEFINE row == Head(req[r].rows)
             new == [Idle EXCEPT !.pc = "uid", !.name = row.name, !.uid = row.uid,
                                 !.gid = row.gid, !.primary = row.primary,
                                 !.rows = Tail(req[r].rows)]
  <2>2. new \in Slot /\ new.pc = "uid" /\ new.name \in Names
    BY <2>1, IdleIsFree DEF Slot, Row
  <2> HIDE DEF row
  <2>3. Rest(r) = new
    BY <1>3 DEF Rest, row
  <2> QED
    BY <2>2, <2>3
<1> QED
  BY <1>2, <1>3

-----------------------------------------------------------------------------
(* Steps that write nothing *)

LEMMA QuietStep ==
  ASSUME IInv, NEW r \in Requests, NEW next \in Slot, Go(r, next), Reserved(next),
         UNCHANGED <<forms, users, groups, rivals>>
  PROVE  IInv'
<1>1. req' \in [Requests -> Slot] /\ req'[r] = next
      /\ \A q \in Requests \ {r} : req'[q] = req[q]
  BY DEF Go, IInv, Typed
<1>2. \A q \in Requests : Reserved(req[q])'
  <2> TAKE q \in Requests
  <2>1. Reserved(req'[q])
    BY <1>1 DEF IInv
  <2> QED
    BY <2>1 DEF Reserved, Ready, UidIsFree, GidIsFree
<1> QED
  BY <1>1, <1>2 DEF IInv, Typed, SharedUids, SharedGids

\* To a place without a number to write.
LEMMA UnreservedStep ==
  ASSUME IInv, NEW r \in Requests, NEW next \in Slot, Go(r, next),
         next.pc \in Unreserved, next.pc # "idle" => next.name \in Names,
         UNCHANGED <<forms, users, groups, rivals>>
  PROVE  IInv'
  BY UnreservedIsFree, QuietStep

LEMMA BeginningKeeps ==
  ASSUME IInv, NEW r \in Requests,
         \/ BeginCreate(r) \/ BeginImport(r) \/ BeginCreateGroup(r) \/ BeginDeleteGroup(r)
         \/ BeginChange(r)
  PROVE  IInv'
<1>1. forms \subseteq Row /\ groups \in [Names -> 0..Last]
  BY DEF IInv, Typed
<1>2. CASE BeginCreate(r)
  <2>1. PICK row \in forms :
          Go(r, [Idle EXCEPT !.pc = "uid", !.name = row.name, !.uid = row.uid,
                             !.gid = row.gid, !.primary = row.primary])
    BY <1>2 DEF BeginCreate
  <2>2. LET new == [Idle EXCEPT !.pc = "uid", !.name = row.name, !.uid = row.uid,
                                !.gid = row.gid, !.primary = row.primary]
        IN new \in Slot /\ new.pc = "uid" /\ new.name \in Names
    BY <1>1, IdleIsFree DEF Slot, Row
  <2> QED
    BY <1>2, <2>1, <2>2, UnreservedStep DEF BeginCreate, Unreserved
<1>3. CASE BeginImport(r)
  <2>1. PICK first, second \in forms :
          Go(r, [Idle EXCEPT !.pc = "uid", !.name = first.name, !.uid = first.uid,
                             !.gid = first.gid, !.primary = first.primary,
                             !.rows = <<second>>])
    BY <1>3 DEF BeginImport, ImportRows
  <2>2. <<second>> \in Seq(Row)
    BY <1>1
  <2>3. LET new == [Idle EXCEPT !.pc = "uid", !.name = first.name, !.uid = first.uid,
                                !.gid = first.gid, !.primary = first.primary,
                                !.rows = <<second>>]
        IN new \in Slot /\ new.pc = "uid" /\ new.name \in Names
    BY <1>1, <2>2, IdleIsFree DEF Slot, Row
  <2> QED
    BY <1>3, <2>1, <2>3, UnreservedStep DEF BeginImport, Unreserved
<1>4. CASE BeginCreateGroup(r)
  <2>1. PICK form \in forms :
          Go(r, [Idle EXCEPT !.pc = "groupGid", !.name = form.name, !.gid = form.gid])
    BY <1>4 DEF BeginCreateGroup
  <2>2. LET new == [Idle EXCEPT !.pc = "groupGid", !.name = form.name, !.gid = form.gid]
        IN new \in Slot /\ new.pc = "groupGid" /\ new.name \in Names
    BY <1>1, IdleIsFree DEF Slot, Row
  <2> QED
    BY <1>4, <2>1, <2>2, UnreservedStep DEF BeginCreateGroup, Unreserved
<1>5. CASE BeginDeleteGroup(r)
  <2>1. PICK g \in Names :
          Go(r, [Idle EXCEPT !.pc = "leftovers", !.name = g, !.gid = groups[g]])
    BY <1>5 DEF BeginDeleteGroup
  <2>2. LET new == [Idle EXCEPT !.pc = "leftovers", !.name = g, !.gid = groups[g]]
        IN new \in Slot /\ new.pc = "leftovers" /\ new.name \in Names
    BY <1>1, IdleIsFree DEF Slot
  <2> QED
    BY <1>5, <2>1, <2>2, UnreservedStep DEF BeginDeleteGroup, Unreserved
<1>6. CASE BeginChange(r)
  <2>1. PICK form \in forms :
          Go(r, [Idle EXCEPT !.pc = IF form.uid = 0 THEN "before" ELSE "holder",
                             !.name = form.name, !.uid = form.uid, !.gid = form.gid])
    BY <1>6 DEF BeginChange
  <2> DEFINE new == [Idle EXCEPT !.pc = IF form.uid = 0 THEN "before" ELSE "holder",
                                 !.name = form.name, !.uid = form.uid, !.gid = form.gid]
  <2>2. new \in Slot /\ new.name \in Names
        /\ (new.pc = "holder" \/ (new.pc = "before" /\ new.uid = 0))
    BY <1>1, IdleIsFree DEF Slot, Row
  <2> HIDE DEF new
  <2>3. Reserved(new)
    BY <2>2 DEF Reserved, Ready, UidIsFree, GidIsFree
  <2> QED
    BY <1>6, <2>1, <2>2, <2>3, QuietStep DEF BeginChange, new
<1> QED
  BY <1>2, <1>3, <1>4, <1>5, <1>6

\* A request in its slot, at a place other than "idle".
LEMMA RunningIsNamed ==
  ASSUME IInv, NEW r \in Requests, req[r].pc # "idle"
  PROVE  req[r] \in Slot /\ req[r].name \in Names /\ Reserved(req[r])
  BY DEF IInv, Typed, Reserved, Ready

LEMMA SeekKeeps ==
  ASSUME IInv, NEW r \in Requests, Seek(r) PROVE IInv'
<1>1. req[r].pc \in {"uid", "gid", "groupGid"}
      /\ UNCHANGED <<forms, users, groups, rivals>>
  BY DEF Seek, At
<1>2. req[r] \in Slot /\ req[r].name \in Names /\ Reserved(req[r])
  BY <1>1, RunningIsNamed
<1>3. UidsInUse \in SUBSET (0..Last) /\ GidsInUse \in SUBSET (0..Last)
  BY DEF UidsInUse, GidsInUse, IInv, Typed, Entry
<1>4. PICK try \in Tries : Go(r, [req[r] EXCEPT !.try = try])
  BY <1>3 DEF Seek, Tries
<1> DEFINE new == [req[r] EXCEPT !.try = try]
<1>5. /\ new \in Slot /\ new.pc = req[r].pc /\ new.name = req[r].name
      /\ new.uid = req[r].uid /\ new.gid = req[r].gid
      /\ new.newUsers = req[r].newUsers /\ new.newGroups = req[r].newGroups
  BY <1>2 DEF Slot
<1> HIDE DEF new
<1>6. Reserved(new)
  BY <1>2, <1>5 DEF Reserved, Ready, UidIsFree, GidIsFree
<1> QED
  BY <1>1, <1>4, <1>5, <1>6, QuietStep DEF new

(***************************************************************************)
(* A number that is taken sends the request on, or to its next row.        *)
(***************************************************************************)
LEMMA TakenIsFree ==
  ASSUME IInv, NEW r \in Requests, req[r].pc \in {"uid", "gid", "groupGid"},
         NEW asked, Candidate(r, asked) \in Numbers
  PROVE  Taken(r, asked) \in Slot /\ Reserved(Taken(r, asked))
<1>1. req[r] \in Slot /\ req[r].name \in Names /\ Reserved(req[r])
  BY RunningIsNamed
<1>2. CASE asked # 0 \/ req[r].tries + 1 >= Attempts
  <2>1. Taken(r, asked) = Rest(r)
    BY <1>2 DEF Taken
  <2> QED
    BY <2>1, RestIsFree, UnreservedIsFree DEF Unreserved
<1>3. CASE ~(asked # 0 \/ req[r].tries + 1 >= Attempts)
  <2> DEFINE new == [req[r] EXCEPT !.try = @ + 1, !.tries = @ + 1]
  <2>1. req[r].try \in Numbers
    BY <1>3 DEF Candidate
  <2>2. req[r].try + 1 \in Tries /\ req[r].tries + 1 \in Nat
    BY <1>1, <2>1, NumbersTyped DEF Numbers, Tries, Slot
  <2>3. /\ new \in Slot /\ new.pc = req[r].pc /\ new.name = req[r].name
        /\ new.uid = req[r].uid /\ new.gid = req[r].gid
        /\ new.newUsers = req[r].newUsers /\ new.newGroups = req[r].newGroups
    BY <1>1, <2>2 DEF Slot
  <2> HIDE DEF new
  <2>4. Reserved(new)
    BY <1>1, <2>3 DEF Reserved, Ready, UidIsFree, GidIsFree
  <2>5. Taken(r, asked) = new
    BY <1>3 DEF Taken, new
  <2> QED
    BY <2>3, <2>4, <2>5
<1> QED
  BY <1>2, <1>3

LEMMA ReservingKeeps ==
  ASSUME IInv, NEW r \in Requests, ReserveUid(r) \/ ReserveGid(r) \/ ReserveGroupGid(r)
  PROVE  IInv'
<1>1. req[r].pc \in {"uid", "gid", "groupGid"}
      /\ UNCHANGED <<forms, users, groups, rivals>>
  BY DEF ReserveUid, ReserveGid, ReserveGroupGid, At
<1>2. req[r] \in Slot /\ req[r].name \in Names /\ Reserved(req[r])
  BY <1>1, RunningIsNamed
<1>3. CASE ReserveUid(r)
  <2> DEFINE n == Candidate(r, req[r].uid)
             new == [req[r] EXCEPT !.pc = IF req[r].primary THEN "gid" ELSE "add",
                                   !.uid = n, !.try = 0, !.tries = 0, !.newUsers = {}]
  <2>1. n \in Numbers /\ req[r].pc = "uid"
        /\ Go(r, IF HoldersOfUid(n) # {} THEN Taken(r, req[r].uid) ELSE new)
    BY <1>3 DEF ReserveUid, At
  <2>2. CASE HoldersOfUid(n) # {}
    BY <1>1, <2>1, <2>2, TakenIsFree, QuietStep
  <2>3. CASE HoldersOfUid(n) = {}
    <3>1. n \in 0..Last /\ n # 0
      BY <2>1, NumbersTyped
    <3>2. new \in Slot /\ new.pc \in {"gid", "add"} /\ new.uid = n /\ new.name \in Names
      <4> HIDE DEF n
      <4> QED
        BY <1>2, <3>1, NumbersTyped DEF Slot
    <3>3. Go(r, new)
      BY <2>1, <2>3
    <3> HIDE DEF new, n
    <3>4. \A y \in Names : users[y].uid # n
      BY <2>3 DEF HoldersOfUid
    <3>5. Reserved(new)
      BY <3>1, <3>2, <3>4 DEF Reserved, Ready, UidIsFree, GidIsFree
    <3> QED
      BY <1>1, <3>2, <3>3, <3>5, QuietStep
  <2> QED
    BY <2>2, <2>3
<1>4. CASE ReserveGid(r)
  <2> DEFINE n == Candidate(r, req[r].gid)
             new == [req[r] EXCEPT !.pc = "add", !.gid = n,
                                   !.try = 0, !.tries = 0, !.newGroups = {}]
  <2>1. n \in Numbers /\ req[r].pc = "gid"
        /\ Go(r, IF HoldersOfGid(n) # {} THEN Taken(r, req[r].gid) ELSE new)
    BY <1>4 DEF ReserveGid, At
  <2>2. CASE HoldersOfGid(n) # {}
    BY <1>1, <2>1, <2>2, TakenIsFree, QuietStep
  <2>3. CASE HoldersOfGid(n) = {}
    <3>1. n \in 0..Last
      BY <2>1, NumbersTyped
    <3>2. /\ new \in Slot /\ new.pc = "add" /\ new.uid = req[r].uid
          /\ new.name = req[r].name /\ new.newUsers = req[r].newUsers
      <4> HIDE DEF n
      <4> QED
        BY <1>2, <3>1, NumbersTyped DEF Slot
    <3>3. Go(r, new)
      BY <2>1, <2>3
    <3> HIDE DEF new
    <3>4. Reserved(new)
      BY <1>2, <2>1, <3>2 DEF Reserved, Ready, UidIsFree, GidIsFree
    <3> QED
      BY <1>1, <3>2, <3>3, <3>4, QuietStep
  <2> QED
    BY <2>2, <2>3
<1>5. CASE ReserveGroupGid(r)
  <2> DEFINE n == Candidate(r, req[r].gid)
             new == [req[r] EXCEPT !.pc = "addGroup", !.gid = n,
                                   !.try = 0, !.tries = 0, !.newGroups = {}]
  <2>1. n \in Numbers /\ req[r].pc = "groupGid"
        /\ Go(r, IF HoldersOfGid(n) # {} THEN Taken(r, req[r].gid) ELSE new)
    BY <1>5 DEF ReserveGroupGid, At
  <2>2. CASE HoldersOfGid(n) # {}
    BY <1>1, <2>1, <2>2, TakenIsFree, QuietStep
  <2>3. CASE HoldersOfGid(n) = {}
    <3>1. n \in 0..Last /\ n # 0
      BY <2>1, NumbersTyped
    <3>2. new \in Slot /\ new.pc = "addGroup" /\ new.gid = n /\ new.name \in Names
      <4> HIDE DEF n
      <4> QED
        BY <1>2, <3>1, NumbersTyped DEF Slot
    <3>3. Go(r, new)
      BY <2>1, <2>3
    <3> HIDE DEF new, n
    <3>4. \A y \in Names : groups[y] # n
      BY <2>3 DEF HoldersOfGid
    <3>5. Reserved(new)
      BY <3>1, <3>2, <3>4 DEF Reserved, Ready, UidIsFree, GidIsFree
    <3> QED
      BY <1>1, <3>2, <3>3, <3>5, QuietStep
  <2> QED
    BY <2>2, <2>3
<1> QED
  BY <1>3, <1>4, <1>5

(***************************************************************************)
(* Looking for a holder, reading the account, and everything that fails or *)
(* only warns.                                                             *)
(***************************************************************************)
LEMMA CheckKeeps ==
  ASSUME IInv, NEW r \in Requests, CheckHolder(r) PROVE IInv'
<1> DEFINE u == req[r].name
           goOn(unseen) == [req[r] EXCEPT !.pc = "before", !.newUsers = unseen]
<1>1. req[r].pc = "holder" /\ UNCHANGED <<forms, users, groups, rivals>>
  BY DEF CheckHolder, At
<1>2. req[r] \in Slot /\ u \in Names
  BY <1>1, RunningIsNamed
<1>3. \A unseen \in SUBSET Names :
        /\ goOn(unseen) \in Slot /\ goOn(unseen).pc = "before"
        /\ goOn(unseen).name = u /\ goOn(unseen).uid = req[r].uid
        /\ goOn(unseen).newUsers = unseen
  BY <1>2 DEF Slot
<1>4. \/ HoldersOfUid(req[r].uid) \subseteq {u} /\ Go(r, goOn({}))
      \/ Go(r, goOn({u}))
      \/ Go(r, goOn(Names))
      \/ Go(r, Idle)
  <2>1. [[req[r] EXCEPT !.pc = "before", !.newUsers = {}] EXCEPT !.newUsers = {u}] = goOn({u})
    BY <1>2 DEF Slot
  <2>2. [[req[r] EXCEPT !.pc = "before", !.newUsers = {}] EXCEPT !.newUsers = Names] = goOn(Names)
    BY <1>2 DEF Slot
  <2> QED
    BY <2>1, <2>2 DEF CheckHolder
<1> HIDE DEF goOn
<1>5. ASSUME NEW unseen \in SUBSET Names, Go(r, goOn(unseen)),
             u \in unseen \/ HoldersOfUid(req[r].uid) \subseteq {u}
      PROVE  IInv'
  <2>1. Reserved(goOn(unseen))
    BY <1>2, <1>3, <1>5 DEF Reserved, Ready, UidIsFree, GidIsFree, HoldersOfUid
  <2> QED
    BY <1>1, <1>3, <1>5, <2>1, QuietStep
<1>6. CASE Go(r, Idle)
  BY <1>1, <1>6, IdleIsFree, UnreservedStep DEF Unreserved
<1> QED
  BY <1>2, <1>4, <1>5, <1>6

LEMMA ReadKeeps ==
  ASSUME IInv, NEW r \in Requests, ReadBefore(r) PROVE IInv'
<1>1. req[r].pc = "before" /\ UNCHANGED <<forms, users, groups, rivals>>
  BY DEF ReadBefore, At
<1>2. req[r] \in Slot /\ req[r].name \in Names /\ Reserved(req[r])
  BY <1>1, RunningIsNamed
<1> DEFINE new == [req[r] EXCEPT !.pc = "modify", !.old = users[req[r].name]]
<1>3. users[req[r].name] \in Entry
  BY <1>2 DEF IInv, Typed
<1>4. /\ new \in Slot /\ new.pc = "modify" /\ new.name = req[r].name
      /\ new.uid = req[r].uid /\ new.newUsers = req[r].newUsers
  BY <1>2, <1>3 DEF Slot
<1>5. Go(r, new)
  BY DEF ReadBefore
<1> HIDE DEF new
<1>6. Reserved(new)
  BY <1>1, <1>2, <1>4 DEF Reserved, Ready, UidIsFree, GidIsFree
<1> QED
  BY <1>1, <1>4, <1>5, <1>6, QuietStep

LEMMA EndingKeeps ==
  ASSUME IInv, NEW r \in Requests,
         \/ InitialPassword(r) \/ CreateFails(r) \/ AlignSidFails(r) \/ WarnOfGroup(r)
         \/ ChangeFails(r) \/ NameLeftovers(r) \/ DeleteGroupFails(r)
  PROVE  IInv'
<1>1. req[r].pc # "idle" /\ UNCHANGED <<forms, users, groups, rivals>>
  BY DEF InitialPassword, CreateFails, AlignSidFails, WarnOfGroup, ChangeFails,
         NameLeftovers, DeleteGroupFails, At
<1>2. req[r] \in Slot /\ req[r].name \in Names
  BY <1>1, RunningIsNamed
<1>3. \A pc \in {"groupGid", "warn"} :
        LET new == [req[r] EXCEPT !.pc = pc]
        IN new \in Slot /\ new.pc = pc /\ new.name = req[r].name
  BY <1>2 DEF Slot
<1>4. \A named \in SUBSET Names :
        LET new == [req[r] EXCEPT !.pc = "deleteGroup", !.newUsers = {}, !.named = named]
        IN new \in Slot /\ new.pc = "deleteGroup" /\ new.name = req[r].name
  BY <1>2 DEF Slot
<1>5. PICK next \in Slot : /\ Go(r, next) /\ next.pc \in Unreserved
                           /\ next.pc # "idle" => next.name \in Names
  <2>1. CASE InitialPassword(r)
    BY <1>2, <1>3, <2>1, RestIsFree DEF InitialPassword, Unreserved
  <2>2. CASE CreateFails(r)
    BY <2>2, RestIsFree DEF CreateFails, Unreserved
  <2>3. CASE AlignSidFails(r)
    BY <1>2, <1>3, <2>3, IdleIsFree DEF AlignSidFails, Unreserved
  <2>4. CASE WarnOfGroup(r) \/ ChangeFails(r) \/ DeleteGroupFails(r)
    BY <2>4, IdleIsFree DEF WarnOfGroup, ChangeFails, DeleteGroupFails, Unreserved
  <2>5. CASE NameLeftovers(r)
    <3>1. PrimaryOf(req[r].gid) \subseteq Names
      BY DEF PrimaryOf
    <3>2. PICK named \in SUBSET Names :
            Go(r, [req[r] EXCEPT !.pc = "deleteGroup", !.newUsers = {}, !.named = named])
      BY <2>5, <3>1 DEF NameLeftovers
    <3> QED
      BY <1>2, <1>4, <3>2 DEF Unreserved
  <2> QED
    BY <2>1, <2>2, <2>3, <2>4, <2>5
<1> QED
  BY <1>1, <1>5, UnreservedStep

-----------------------------------------------------------------------------
(* Steps that write *)

(***************************************************************************)
(* The numbers of the accounts us and the groups gs change, and every      *)
(* other request learns of it by its history.                              *)
(***************************************************************************)
LEMMA WriteStep ==
  ASSUME IInv, NEW r \in Requests, NEW next \in Slot,
         NEW us \in SUBSET Names, NEW gs \in SUBSET Names, GoUnseen(r, next, us, gs),
         next.pc \in Unreserved, next.pc # "idle" => next.name \in Names,
         UNCHANGED forms,
         users' \in [Names -> Entry], groups' \in [Names -> 0..Last],
         \A y \in Names \ us : users'[y].uid = users[y].uid,
         \A y \in Names \ gs : groups'[y] = groups[y],
         SharedUids', SharedGids'
  PROVE  IInv'
<1>1. \A q \in Requests \ {r} :
        /\ req'[q] \in Slot /\ req'[q].pc = req[q].pc /\ req'[q].name = req[q].name
        /\ req'[q].uid = req[q].uid /\ req'[q].gid = req[q].gid
        /\ req'[q].newUsers = IF req[q].pc \in PastUid THEN req[q].newUsers \cup us
                              ELSE req[q].newUsers
        /\ req'[q].newGroups = IF req[q].pc \in PastGid THEN req[q].newGroups \cup gs
                               ELSE req[q].newGroups
  <2> TAKE q \in Requests \ {r}
  <2> DEFINE nu == IF req[q].pc \in PastUid THEN req[q].newUsers \cup us
                   ELSE req[q].newUsers
             ng == IF req[q].pc \in PastGid THEN req[q].newGroups \cup gs
                   ELSE req[q].newGroups
  <2>1. req[q] \in Slot
    BY DEF IInv, Typed
  <2>2. nu \in SUBSET Names /\ ng \in SUBSET Names
    BY <2>1 DEF Slot
  <2>3. req'[q] = [req[q] EXCEPT !.newUsers = nu, !.newGroups = ng]
    BY DEF GoUnseen
  <2> HIDE DEF nu, ng
  <2>4. /\ req'[q] \in Slot /\ req'[q].pc = req[q].pc /\ req'[q].name = req[q].name
        /\ req'[q].uid = req[q].uid /\ req'[q].gid = req[q].gid
        /\ req'[q].newUsers = nu /\ req'[q].newGroups = ng
    BY <2>1, <2>2, <2>3 DEF Slot
  <2> QED
    BY <2>4 DEF nu, ng
<1>2. req'[r] = next
  BY DEF GoUnseen
<1>3. req' \in [Requests -> Slot]
  <2>1. \A q \in Requests : req'[q] \in Slot
    BY <1>1, <1>2
  <2> QED
    BY <2>1 DEF GoUnseen
<1>4. \A q \in Requests : Reserved(req[q])'
  <2> TAKE q \in Requests
  <2>1. CASE q = r
    <3>1. Ready(req'[q]) /\ req'[q].pc \in Unreserved
      BY <1>2, <2>1 DEF Ready, Unreserved
    <3> QED
      BY <3>1 DEF Reserved, Ready, UidIsFree, GidIsFree, Unreserved
  <2>2. CASE q # r
    <3>1. Reserved(req[q])
      BY DEF IInv
    <3>2. Ready(req[q])'
      BY <1>1, <2>2, <3>1 DEF Reserved, Ready
    <3>3. UidIsFree(req[q])'
      <4>1. /\ req'[q].pc = req[q].pc /\ req'[q].name = req[q].name /\ req'[q].uid = req[q].uid
            /\ req[q].pc \in PastUid => req'[q].newUsers = req[q].newUsers \cup us
        BY <1>1, <2>2
      <4> QED
        BY <3>1, <4>1 DEF Reserved, UidIsFree, PastUid
    <3>4. GidIsFree(req[q])'
      <4>1. /\ req'[q].pc = req[q].pc /\ req'[q].gid = req[q].gid
            /\ req[q].pc \in PastGid => req'[q].newGroups = req[q].newGroups \cup gs
        BY <1>1, <2>2
      <4> QED
        BY <3>1, <4>1 DEF Reserved, GidIsFree, PastGid
    <3> QED
      BY <3>2, <3>3, <3>4 DEF Reserved
  <2> QED
    BY <2>1, <2>2
<1> QED
  BY <1>3, <1>4 DEF IInv, Typed

(***************************************************************************)
(* What Paired makes of the pairs: the others stay, and x has those with   *)
(* whoever holds its number unseen.                                        *)
(***************************************************************************)
LEMMA PairedIsRight ==
  ASSUME NEW kind, NEW other, kind # other, NEW x \in Names, NEW holders, NEW unseen,
         rivals' = Paired(kind, x, holders, unseen)
  PROVE  /\ \A s : <<other, s>> \in rivals => <<other, s>> \in rivals'
         /\ \A y, z \in Names \ {x} : <<kind, {y, z}>> \in rivals => <<kind, {y, z}>> \in rivals'
         /\ \A y \in Names \ {x} : y \in holders /\ (y \in unseen \/ x \in unseen)
              => <<kind, {x, y}>> \in rivals' /\ <<kind, {y, x}>> \in rivals'
<1>1. \A s : <<other, s>> \in rivals => <<other, s>> \in rivals'
  <2> TAKE s
  <2>1. <<other, s>>[1] = other
    OBVIOUS
  <2> QED
    BY <2>1 DEF Paired
<1>2. ASSUME NEW y \in Names \ {x}, NEW z \in Names \ {x}, <<kind, {y, z}>> \in rivals
      PROVE  <<kind, {y, z}>> \in rivals'
  <2>1. x \notin <<kind, {y, z}>>[2]
    OBVIOUS
  <2> QED
    BY <1>2, <2>1 DEF Paired
<1>3. ASSUME NEW y \in Names \ {x}, y \in holders, y \in unseen \/ x \in unseen
      PROVE  <<kind, {x, y}>> \in rivals' /\ <<kind, {y, x}>> \in rivals'
  <2>1. y \in (holders \ {x}) \cap (IF x \in unseen THEN Names ELSE unseen)
    BY <1>3
  <2>2. <<kind, {x, y}>> \in rivals'
    BY <2>1 DEF Paired
  <2>3. {x, y} = {y, x}
    OBVIOUS
  <2> QED
    BY <2>2, <2>3
<1> QED
  BY <1>1, <1>2, <1>3

\* An account takes the number n, which only unseen accounts hold.
LEMMA UidTaken ==
  ASSUME IInv, NEW u \in Names, NEW n, NEW unseen,
         rivals' = Paired("uid", u, HoldersOfUid(n), unseen), UNCHANGED groups,
         \A y \in Names \ {u} : users'[y].uid = users[y].uid,
         users'[u].uid = n,
         \A y \in Names \ {u} : users[y].uid = n => y \in unseen \/ u \in unseen
  PROVE  SharedUids' /\ SharedGids'
<1>0. "uid" # "gid" /\ rivals' = Paired("uid", u, HoldersOfUid(n), unseen)
  OBVIOUS
<1>1. /\ \A s : <<"gid", s>> \in rivals => <<"gid", s>> \in rivals'
      /\ \A y, z \in Names \ {u} : <<"uid", {y, z}>> \in rivals => <<"uid", {y, z}>> \in rivals'
      /\ \A y \in Names \ {u} : y \in HoldersOfUid(n) /\ (y \in unseen \/ u \in unseen)
           => <<"uid", {u, y}>> \in rivals' /\ <<"uid", {y, u}>> \in rivals'
  <2> HIDE DEF HoldersOfUid
  <2> QED
    BY <1>0, PairedIsRight, Zenon
<1>2. SharedUids'
  <2> SUFFICES ASSUME NEW x \in Names, NEW y \in Names, x # y,
                      users'[x].uid # 0, users'[x].uid = users'[y].uid
               PROVE  <<"uid", {x, y}>> \in rivals'
    BY DEF SharedUids
  <2>1. CASE x = u
    BY <1>1, <2>1 DEF HoldersOfUid
  <2>2. CASE y = u
    BY <1>1, <2>2 DEF HoldersOfUid
  <2>3. CASE x # u /\ y # u
    <3>1. <<"uid", {x, y}>> \in rivals
      BY <2>3 DEF IInv, SharedUids
    <3> QED
      BY <1>1, <2>3, <3>1
  <2> QED
    BY <2>1, <2>2, <2>3
<1>3. SharedGids'
  BY <1>1 DEF IInv, SharedGids
<1> QED
  BY <1>2, <1>3

\* A group takes the number n, which only unseen groups hold.
LEMMA GidTaken ==
  ASSUME IInv, NEW g \in Names, NEW n, NEW unseen,
         rivals' = Paired("gid", g, HoldersOfGid(n), unseen), UNCHANGED users,
         \A y \in Names \ {g} : groups'[y] = groups[y],
         groups'[g] = n,
         \A y \in Names \ {g} : groups[y] = n => y \in unseen
  PROVE  SharedUids' /\ SharedGids'
<1>1. /\ \A s : <<"uid", s>> \in rivals => <<"uid", s>> \in rivals'
      /\ \A y, z \in Names \ {g} : <<"gid", {y, z}>> \in rivals => <<"gid", {y, z}>> \in rivals'
      /\ \A y \in Names \ {g} : y \in HoldersOfGid(n) /\ (y \in unseen \/ g \in unseen)
           => <<"gid", {g, y}>> \in rivals' /\ <<"gid", {y, g}>> \in rivals'
  <2>1. "gid" # "uid" /\ rivals' = Paired("gid", g, HoldersOfGid(n), unseen)
    OBVIOUS
  <2> HIDE DEF HoldersOfGid
  <2> QED
    BY <2>1, PairedIsRight, Zenon
<1>2. SharedGids'
  <2> SUFFICES ASSUME NEW x \in Names, NEW y \in Names, x # y,
                      groups'[x] # 0, groups'[x] = groups'[y]
               PROVE  <<"gid", {x, y}>> \in rivals'
    BY DEF SharedGids
  <2>1. CASE x = g
    BY <1>1, <2>1 DEF HoldersOfGid
  <2>2. CASE y = g
    BY <1>1, <2>2 DEF HoldersOfGid
  <2>3. CASE x # g /\ y # g
    <3>1. <<"gid", {x, y}>> \in rivals
      BY <2>3 DEF IInv, SharedGids
    <3> QED
      BY <1>1, <2>3, <3>1
  <2> QED
    BY <2>1, <2>2, <2>3
<1>3. SharedUids'
  BY <1>1 DEF IInv, SharedUids
<1> QED
  BY <1>2, <1>3

LEMMA AddUserKeeps ==
  ASSUME IInv, NEW r \in Requests, AddUser(r) PROVE IInv'
<1> DEFINE u == req[r].name  n == req[r].uid
<1>1. /\ req[r].pc = "add" /\ UNCHANGED <<forms, groups>>
      /\ users' = [users EXCEPT ![u] = [uid |-> n, gid |-> req[r].gid, rid |-> 0]]
      /\ rivals' = Paired("uid", u, HoldersOfUid(n), req[r].newUsers)
      /\ \/ GoUnseen(r, [req[r] EXCEPT !.pc = "password"], {u}, {})
         \/ GoUnseen(r, Rest(r), {u}, {})
  BY DEF AddUser, At
<1>2. req[r] \in Slot /\ u \in Names /\ Reserved(req[r])
  BY <1>1, RunningIsNamed
<1>3. users \in [Names -> Entry] /\ groups \in [Names -> 0..Last]
  BY DEF IInv, Typed
<1>4. [uid |-> n, gid |-> req[r].gid, rid |-> 0] \in Entry
  BY <1>2 DEF Slot, Entry
<1>5. users' \in [Names -> Entry] /\ users'[u].uid = n
      /\ \A y \in Names \ {u} : users'[y].uid = users[y].uid
  BY <1>1, <1>2, <1>3, <1>4
<1>6. SharedUids' /\ SharedGids'
  <2>1. \A y \in Names \ {u} : users[y].uid = n => y \in req[r].newUsers
    BY <1>1, <1>2 DEF Reserved, UidIsFree
  <2> QED
    BY <1>1, <1>2, <1>5, <2>1, UidTaken
<1>7. PICK next \in Slot : /\ GoUnseen(r, next, {u}, {}) /\ next.pc \in Unreserved
                           /\ next.pc # "idle" => next.name \in Names
  <2>1. LET new == [req[r] EXCEPT !.pc = "password"]
        IN new \in Slot /\ new.pc = "password" /\ new.name = u
    BY <1>2 DEF Slot
  <2> QED
    BY <1>1, <1>2, <2>1, RestIsFree DEF Unreserved
<1> QED
  BY <1>1, <1>2, <1>3, <1>5, <1>6, <1>7, WriteStep

LEMMA AddGroupKeeps ==
  ASSUME IInv, NEW r \in Requests, AddGroup(r) PROVE IInv'
<1> DEFINE g == req[r].name  n == req[r].gid
<1>1. /\ req[r].pc = "addGroup" /\ UNCHANGED <<forms, users>>
      /\ groups' = [groups EXCEPT ![g] = n]
      /\ rivals' = Paired("gid", g, HoldersOfGid(n), req[r].newGroups)
      /\ GoUnseen(r, Rest(r), {}, {g})
  BY DEF AddGroup, At
<1>2. req[r] \in Slot /\ g \in Names /\ Reserved(req[r])
  BY <1>1, RunningIsNamed
<1>3. users \in [Names -> Entry] /\ groups \in [Names -> 0..Last] /\ n \in 0..Last
  BY <1>2 DEF IInv, Typed, Slot
<1>4. groups' \in [Names -> 0..Last] /\ groups'[g] = n
      /\ \A y \in Names \ {g} : groups'[y] = groups[y]
  BY <1>1, <1>2, <1>3
<1>5. SharedUids' /\ SharedGids'
  <2>1. \A y \in Names \ {g} : groups[y] = n => y \in req[r].newGroups
    BY <1>1, <1>2 DEF Reserved, GidIsFree
  <2> QED
    BY <1>1, <1>2, <1>4, <2>1, GidTaken
<1> QED
  BY <1>1, <1>2, <1>3, <1>4, <1>5, RestIsFree, WriteStep DEF Unreserved

LEMMA ModifyKeeps ==
  ASSUME IInv, NEW r \in Requests, Modify(r) PROVE IInv'
<1> DEFINE u == req[r].name  n == req[r].uid
           us == IF NewUid(r) \/ NewGid(r) THEN {u} ELSE {}
           e == [users[u] EXCEPT !.uid = IF NewUid(r) THEN n ELSE @,
                                 !.gid = IF NewGid(r) THEN req[r].gid ELSE @]
<1>1. /\ req[r].pc = "modify" /\ UNCHANGED <<forms, groups>>
      /\ users' = [users EXCEPT ![u] = e]
      /\ rivals' = IF NewUid(r) THEN Paired("uid", u, HoldersOfUid(n), req[r].newUsers)
                   ELSE rivals
      /\ GoUnseen(r, AfterModify(r), us, {}) \/ GoUnseen(r, Idle, us, {})
  BY DEF Modify, At
<1>2. req[r] \in Slot /\ u \in Names /\ Reserved(req[r])
  BY <1>1, RunningIsNamed
<1>3. users \in [Names -> Entry] /\ groups \in [Names -> 0..Last]
  BY DEF IInv, Typed
<1>4. e \in Entry /\ e.uid = IF NewUid(r) THEN n ELSE users[u].uid
  BY <1>2, <1>3 DEF Slot, Entry
<1> HIDE DEF e
<1>5. users' \in [Names -> Entry] /\ users'[u] = e
      /\ \A y \in Names \ {u} : users'[y] = users[y]
  BY <1>1, <1>2, <1>3, <1>4
<1>6. SharedUids' /\ SharedGids'
  <2>1. CASE NewUid(r)
    <3>1. \A y \in Names \ {u} : users[y].uid = n => y \in req[r].newUsers \/ u \in req[r].newUsers
      BY <1>1, <1>2, <2>1 DEF Reserved, UidIsFree, NewUid
    <3> QED
      BY <1>1, <1>2, <1>4, <1>5, <2>1, <3>1, UidTaken
  <2>2. CASE ~NewUid(r)
    <3>1. \A y \in Names : users'[y].uid = users[y].uid
      BY <1>4, <1>5, <2>2
    <3>2. UNCHANGED <<rivals, groups>>
      BY <1>1, <2>2
    <3> QED
      BY <3>1, <3>2 DEF IInv, SharedUids, SharedGids
  <2> QED
    BY <2>1, <2>2
<1>7. us \in SUBSET Names /\ \A y \in Names \ us : users'[y].uid = users[y].uid
  BY <1>2, <1>4, <1>5
<1>8. PICK next \in Slot : /\ GoUnseen(r, next, us, {}) /\ next.pc \in Unreserved
                           /\ next.pc # "idle" => next.name \in Names
  <2>1. /\ AfterModify(r) \in Slot /\ AfterModify(r).pc \in {"idle", "sid", "warn"}
        /\ AfterModify(r).pc # "idle" => AfterModify(r).name = u
    <3>1. req[r].gid \in 0..Last /\ 0 \in 0..Last
      BY <1>2, NumbersTyped DEF Slot
    <3>2. \/ AfterModify(r) = Idle
          \/ \E pc \in {"sid", "warn"}, gid \in 0..Last :
               AfterModify(r) = [req[r] EXCEPT !.pc = pc, !.gid = gid]
      BY <3>1, Zenon DEF AfterModify
    <3>3. CASE \E pc \in {"sid", "warn"}, gid \in 0..Last :
                 AfterModify(r) = [req[r] EXCEPT !.pc = pc, !.gid = gid]
      <4>1. PICK pc \in {"sid", "warn"}, gid \in 0..Last :
              AfterModify(r) = [req[r] EXCEPT !.pc = pc, !.gid = gid]
        BY <3>3
      <4> DEFINE new == [req[r] EXCEPT !.pc = pc, !.gid = gid]
      <4>2. new \in Slot /\ new.pc = pc /\ new.name = u
        BY <1>2 DEF Slot
      <4>3. AfterModify(r) = new
        BY <4>1
      <4> HIDE DEF new
      <4> QED
        BY <4>2, <4>3
    <3> QED
      BY <3>2, <3>3, IdleIsFree
  <2> QED
    BY <1>1, <1>2, <2>1, IdleIsFree DEF Unreserved
<1> HIDE DEF us
<1> QED
  BY <1>1, <1>3, <1>5, <1>6, <1>7, <1>8, WriteStep

LEMMA AlignKeeps ==
  ASSUME IInv, NEW r \in Requests, AlignSid(r) PROVE IInv'
<1> DEFINE u == req[r].name
<1>1. /\ req[r].pc = "sid" /\ UNCHANGED <<forms, groups, rivals>>
      /\ users' = [users EXCEPT ![u].rid =
                     IF @ = 0 THEN 0 ELSE Realigned(req[r].old, req[r].uid)]
      /\ Go(r, IF req[r].gid # 0 THEN [req[r] EXCEPT !.pc = "warn"] ELSE Idle)
  BY DEF AlignSid, At
<1>2. req[r] \in Slot /\ u \in Names
  BY <1>1, RunningIsNamed
<1>3. users \in [Names -> Entry] /\ groups \in [Names -> 0..Last]
  BY DEF IInv, Typed
<1>4. Realigned(req[r].old, req[r].uid) \in Nat
  <2>1. req[r].uid \in Nat
    BY <1>2, NumbersTyped DEF Slot
  <2> QED
    BY <2>1, ConstantsAssumption DEF Realigned
<1>5. users' \in [Names -> Entry] /\ \A y \in Names : users'[y].uid = users[y].uid
  BY <1>1, <1>2, <1>3, <1>4 DEF Entry
<1>6. PICK next \in Slot : /\ Go(r, next) /\ next.pc \in Unreserved
                           /\ next.pc # "idle" => next.name \in Names
  <2>1. LET new == [req[r] EXCEPT !.pc = "warn"]
        IN new \in Slot /\ new.pc = "warn" /\ new.name = u
    BY <1>2 DEF Slot
  <2> QED
    BY <1>1, <1>2, <2>1, IdleIsFree DEF Unreserved
<1>7. req' \in [Requests -> Slot] /\ req'[r] = next
      /\ \A q \in Requests \ {r} : req'[q] = req[q]
  BY <1>6 DEF Go, IInv, Typed
<1>8. \A q \in Requests : Reserved(req[q])'
  <2> TAKE q \in Requests
  <2>1. Reserved(req'[q])
    BY <1>6, <1>7, UnreservedIsFree DEF IInv
  <2> QED
    BY <1>1, <1>5, <2>1 DEF Reserved, Ready, UidIsFree, GidIsFree
<1>9. SharedUids' /\ SharedGids'
  BY <1>1, <1>5 DEF IInv, SharedUids, SharedGids
<1> QED
  BY <1>1, <1>3, <1>5, <1>7, <1>8, <1>9 DEF IInv, Typed

LEMMA DeleteUserKeeps ==
  ASSUME IInv, NEW u \in Names, DeleteUser(u) PROVE IInv'
<1>1. /\ users' = [users EXCEPT ![u] = Absent] /\ UNCHANGED <<forms, groups, req>>
      /\ rivals' = {p \in rivals : p[1] # "uid" \/ u \notin p[2]}
  BY DEF DeleteUser
<1>2. users \in [Names -> Entry] /\ Absent \in Entry /\ Absent.uid = 0
  BY NumbersTyped DEF IInv, Typed, Absent
<1>3. users' \in [Names -> Entry] /\ users'[u].uid = 0
      /\ \A y \in Names \ {u} : users'[y] = users[y]
  BY <1>1, <1>2
<1>4. \A q \in Requests : Reserved(req[q])'
  <2> TAKE q \in Requests
  <2>1. Reserved(req[q])
    BY DEF IInv
  <2>2. \A y \in Names : users'[y].uid # 0 => users'[y].uid = users[y].uid
    BY <1>3
  <2> QED
    BY <1>1, <2>1, <2>2 DEF Reserved, Ready, UidIsFree, GidIsFree
<1>5. SharedUids'
  <2> SUFFICES ASSUME NEW x \in Names, NEW y \in Names, x # y,
                      users'[x].uid # 0, users'[x].uid = users'[y].uid
               PROVE  <<"uid", {x, y}>> \in rivals'
    BY DEF SharedUids
  <2>1. x # u /\ y # u /\ <<"uid", {x, y}>> \in rivals
    BY <1>3 DEF IInv, SharedUids
  <2>2. u \notin <<"uid", {x, y}>>[2]
    BY <2>1
  <2> QED
    BY <1>1, <2>1, <2>2
<1>6. SharedGids'
  <2>1. \A s : <<"gid", s>>[1] # "uid"
    OBVIOUS
  <2> QED
    BY <1>1, <2>1 DEF IInv, SharedGids
<1> QED
  BY <1>1, <1>3, <1>4, <1>5, <1>6 DEF IInv, Typed

LEMMA DeleteGroupKeeps ==
  ASSUME IInv, NEW r \in Requests, DeleteGroup(r) PROVE IInv'
<1> DEFINE g == req[r].name
<1>1. /\ req[r].pc = "deleteGroup" /\ UNCHANGED <<forms, users>>
      /\ groups' = [groups EXCEPT ![g] = 0]
      /\ rivals' = {p \in rivals : p[1] # "gid" \/ g \notin p[2]}
      /\ GoUnseen(r, Idle, {}, {g})
  BY DEF DeleteGroup, At
<1>2. g \in Names
  BY <1>1, RunningIsNamed
<1>3. users \in [Names -> Entry] /\ groups \in [Names -> 0..Last]
  BY DEF IInv, Typed
<1>4. groups' \in [Names -> 0..Last] /\ groups'[g] = 0
      /\ \A y \in Names \ {g} : groups'[y] = groups[y]
  BY <1>1, <1>2, <1>3, NumbersTyped
<1> HIDE DEF g
<1>5. SharedGids'
  <2> SUFFICES ASSUME NEW x \in Names, NEW y \in Names, x # y,
                      groups'[x] # 0, groups'[x] = groups'[y]
               PROVE  <<"gid", {x, y}>> \in rivals'
    BY DEF SharedGids
  <2>1. x # g /\ y # g /\ <<"gid", {x, y}>> \in rivals
    BY <1>4 DEF IInv, SharedGids
  <2>2. g \notin <<"gid", {x, y}>>[2]
    BY <2>1
  <2> QED
    BY <1>1, <2>1, <2>2
<1>6. SharedUids'
  <2>1. \A s : <<"uid", s>>[1] # "gid"
    OBVIOUS
  <2> QED
    BY <1>1, <2>1 DEF IInv, SharedUids
<1> QED
  BY <1>1, <1>2, <1>3, <1>4, <1>5, <1>6, IdleIsFree, WriteStep DEF Unreserved

LEMMA CrashKeeps ==
  ASSUME IInv, Crash PROVE IInv'
<1>1. req' = [q \in Requests |-> Idle] /\ UNCHANGED <<forms, users, groups, rivals>>
  BY DEF Crash
<1>2. \A q \in Requests : req'[q] = Idle /\ Reserved(req'[q])
  BY <1>1, IdleIsFree, UnreservedIsFree DEF Unreserved
<1>3. \A q \in Requests : Reserved(req[q])'
  BY <1>1, <1>2 DEF Reserved, Ready, UidIsFree, GidIsFree
<1> QED
  BY <1>1, <1>2, <1>3, IdleIsFree DEF IInv, Typed, SharedUids, SharedGids

-----------------------------------------------------------------------------
(* The invariant holds *)

LEMMA InitHolds == Init => IInv
<1> SUFFICES ASSUME Init PROVE IInv
  OBVIOUS
<1>1. PICK s \in Starts : /\ forms = s.rows /\ users = s.users /\ groups = s.groups
  BY DEF Init
<1>2. forms \subseteq Row /\ users \in [Names -> Entry] /\ groups \in [Names -> 0..Last]
  BY <1>1, ConstantsAssumption DEF Start
<1>3. req = [r \in Requests |-> Idle] /\ rivals = Sharing
  BY DEF Init
<1>4. \A r \in Requests : Reserved(req[r])
  BY <1>3, IdleIsFree, UnreservedIsFree DEF Unreserved
<1>5. ASSUME NEW x \in Names, NEW y \in Names, x # y
      PROVE  /\ users[x].uid # 0 /\ users[x].uid = users[y].uid => <<"uid", {x, y}>> \in Sharing
             /\ groups[x] # 0 /\ groups[x] = groups[y] => <<"gid", {x, y}>> \in Sharing
  <2>1. <<x, y>> \in Names \X Names /\ <<x, y>>[1] = x /\ <<x, y>>[2] = y
    OBVIOUS
  <2> QED
    BY <1>5, <2>1 DEF Sharing, Exists
<1> QED
  BY <1>2, <1>3, <1>4, <1>5, IdleIsFree DEF IInv, Typed, SharedUids, SharedGids

LEMMA StepKeeps ==
  ASSUME IInv, [Next]_vars PROVE IInv'
<1>1. CASE UNCHANGED vars
  BY <1>1 DEF vars, IInv, Typed, SharedUids, SharedGids, Reserved, Ready, UidIsFree, GidIsFree
<1>2. CASE Next
  BY <1>2, BeginningKeeps, SeekKeeps, ReservingKeeps, CheckKeeps, ReadKeeps, EndingKeeps,
     AddUserKeeps, AddGroupKeeps, ModifyKeeps, AlignKeeps, DeleteUserKeeps, DeleteGroupKeeps,
     CrashKeeps DEF Next
<1> QED
  BY <1>1, <1>2

\* Every behaviour, with any requests and failures, keeps the invariant.
THEOREM Invariance == Spec => []IInv
<1> QED
  BY InitHolds, StepKeeps, PTL DEF Spec

\* SharedNumbersHaveRivals: a number settled "as late as possible before the write"
\* (posixids.go) is shared only by accounts, or groups, written at the same time.
THEOREM SharedNumbersHaveRivalsAlways == Spec => []SharedNumbersHaveRivals
<1>1. IInv => SharedNumbersHaveRivals
  BY SharedIsProperty DEF IInv
<1> QED
  BY <1>1, Invariance, PTL

-----------------------------------------------------------------------------
(***************************************************************************)
(* A number that names no group.  The request that leaves an account so    *)
(* says so, or is on its way to: what makes it true is that a request that *)
(* creates the group carries the account's number all the way, and that    *)
(* the deletion of a group names its accounts by the number the group      *)
(* still has, or overlooks those that came later.                          *)
(***************************************************************************)

\* Somebody knows, or a deletion has looked already.
Known == bareKnown \cup overlooked

Bared(u) == Exists(u) /\ HoldersOfGid(users[u].gid) = {}

Seeks(q, u) ==
  /\ q.name = u /\ q.gid = users[u].gid
  /\ \/ q.pc \in {"password", "groupGid", "addGroup"} /\ q.primary
     \/ q.pc \in {"sid", "warn"}

Numbered == \A u \in Names : Exists(u) => users[u].gid # 0

\* The account is written with a number, and without one asked for only when the
\* request creates the group.
Settled(q) ==
  /\ q.pc = "uid" /\ q.gid = 0 => q.primary
  /\ q.pc = "gid" => q.primary
  /\ q.pc = "add" => q.gid # 0
  /\ \A i \in 1..Len(q.rows) : q.rows[i].gid # 0

\* A deletion knows the group's number, and whom it leaves without a group.
GroupIsRead(q) ==
  q.pc \in {"leftovers", "deleteGroup"} /\ q.name \notin q.newGroups => groups[q.name] = q.gid

LeftAreNamed(q) ==
  q.pc = "deleteGroup" =>
    \A u \in Names : Exists(u) /\ users[u].gid = q.gid => u \in q.named \cup q.newUsers

Told(q) == Settled(q) /\ GroupIsRead(q) /\ LeftAreNamed(q)

Bare == Numbered /\ (\A r \in Requests : Told(req[r])) /\ BareNumbersAreKnown

LEMMA IdleIsTold ==
  Idle.pc = "idle" /\ Len(Idle.rows) = 0 /\ (\A u : ~Seeks(Idle, u)) /\ Told(Idle)
<1>1. Idle.pc = "idle" /\ Idle.rows = <<>>
  BY DEF Idle
<1>2. Len(Idle.rows) = 0
  BY <1>1
<1> QED
  BY <1>1, <1>2 DEF Seeks, Told, Settled, GroupIsRead, LeftAreNamed

LEMMA RestIsTold ==
  ASSUME IInv, NEW r \in Requests, Settled(req[r])
  PROVE  Settled(Rest(r)) /\ Rest(r).pc \in {"idle", "uid"}
<1>1. req[r] \in Slot
  BY DEF IInv, Typed
<1>2. CASE req[r].rows = <<>>
  BY <1>2, IdleIsTold DEF Rest, Told
<1>3. CASE req[r].rows # <<>>
  <2> DEFINE rows == req[r].rows
             row == Head(rows)
             new == [Idle EXCEPT !.pc = "uid", !.name = row.name, !.uid = row.uid,
                                 !.gid = row.gid, !.primary = row.primary,
                                 !.rows = Tail(rows)]
  <2>1. rows \in Seq(Row)
    BY <1>1 DEF Slot
  <2>2. row \in Row /\ row.gid # 0 /\ Tail(rows) \in Seq(Row)
        /\ \A i \in 1..Len(Tail(rows)) : Tail(rows)[i].gid # 0
    BY <1>3, <2>1 DEF Settled
  <2>3. Rest(r) = new
    BY <1>3 DEF Rest
  <2> HIDE DEF row, rows
  <2>4. new.pc = "uid" /\ new.gid = row.gid /\ new.rows = Tail(rows)
    BY DEF Idle
  <2> HIDE DEF new
  <2> QED
    BY <2>2, <2>3, <2>4 DEF Settled
<1> QED
  BY <1>2, <1>3

(***************************************************************************)
(* A step that writes nothing: what it forgets of an account, it says.     *)
(***************************************************************************)
LEMMA QuietTold ==
  ASSUME IInv, Bare, NEW r \in Requests, NEW next, Go(r, next), Told(next),
         UNCHANGED <<users, groups>>, Known \subseteq Known',
         \A u \in Names : Seeks(req[r], u) /\ Bared(u) => Seeks(next, u) \/ u \in Known'
  PROVE  Bare'
<1>1. req'[r] = next /\ \A q \in Requests \ {r} : req'[q] = req[q]
  BY DEF Go, IInv, Typed
<1>2. Numbered'
  BY DEF Bare, Numbered, Exists
<1>3. \A q \in Requests : Told(req[q])'
  <2> TAKE q \in Requests
  <2>1. Told(req'[q])
    BY <1>1 DEF Bare
  <2> QED
    BY <2>1 DEF Told, Settled, GroupIsRead, LeftAreNamed, Exists
<1>4. BareNumbersAreKnown'
  <2> SUFFICES ASSUME NEW u \in Names, Bared(u), u \notin Known'
               PROVE  LookingFor(u)'
    BY DEF Known, BareNumbersAreKnown, Bared, Exists, HoldersOfGid
  <2>1. PICK q \in Requests : Seeks(req[q], u)
    BY DEF Known, Bare, BareNumbersAreKnown, Bared, LookingFor, Seeks
  <2>2. Seeks(req'[q], u)
    BY <1>1, <2>1
  <2> QED
    BY <2>2 DEF Seeks, LookingFor
<1> QED
  BY <1>2, <1>3, <1>4 DEF Bare

\* Most steps forget nothing: the request looks for no group, before or after.
LEMMA PlainTold ==
  ASSUME IInv, Bare, NEW r \in Requests, NEW next, Go(r, next), Settled(next),
         next.pc \notin {"leftovers", "deleteGroup"},
         req[r].pc \notin {"password", "groupGid", "addGroup", "sid", "warn"},
         UNCHANGED <<users, groups, Known>>
  PROVE  Bare'
<1>1. Told(next)
  BY DEF Told, GroupIsRead, LeftAreNamed
<1>2. \A u : ~Seeks(req[r], u)
  BY DEF Seeks
<1> QED
  BY <1>1, <1>2, QuietTold

(***************************************************************************)
(* A step that writes: the other requests' histories name what it wrote.   *)
(***************************************************************************)
LEMMA OthersStay ==
  ASSUME IInv, NEW r \in Requests, NEW next, NEW us, NEW gs, GoUnseen(r, next, us, gs)
  PROVE  /\ req'[r] = next
         /\ \A q \in Requests \ {r} :
              /\ req'[q].pc = req[q].pc /\ req'[q].name = req[q].name
              /\ req'[q].gid = req[q].gid /\ req'[q].primary = req[q].primary
              /\ req'[q].rows = req[q].rows /\ req'[q].named = req[q].named
              /\ req[q].pc \in PastUid => req'[q].newUsers = req[q].newUsers \cup us
              /\ req[q].pc \in PastGid => req'[q].newGroups = req[q].newGroups \cup gs
<1>1. req'[r] = next
  BY DEF GoUnseen
<1>2. ASSUME NEW q \in Requests \ {r}
      PROVE  /\ req'[q].pc = req[q].pc /\ req'[q].name = req[q].name
             /\ req'[q].gid = req[q].gid /\ req'[q].primary = req[q].primary
             /\ req'[q].rows = req[q].rows /\ req'[q].named = req[q].named
             /\ req[q].pc \in PastUid => req'[q].newUsers = req[q].newUsers \cup us
             /\ req[q].pc \in PastGid => req'[q].newGroups = req[q].newGroups \cup gs
  <2> DEFINE nu == IF req[q].pc \in PastUid THEN req[q].newUsers \cup us
                   ELSE req[q].newUsers
             ng == IF req[q].pc \in PastGid THEN req[q].newGroups \cup gs
                   ELSE req[q].newGroups
  <2>1. req[q] \in Slot
    BY DEF IInv, Typed
  <2>2. req'[q] = [req[q] EXCEPT !.newUsers = nu, !.newGroups = ng]
    BY DEF GoUnseen
  <2> HIDE DEF nu, ng
  <2>3. /\ req'[q].pc = req[q].pc /\ req'[q].name = req[q].name
        /\ req'[q].gid = req[q].gid /\ req'[q].primary = req[q].primary
        /\ req'[q].rows = req[q].rows /\ req'[q].named = req[q].named
        /\ req'[q].newUsers = nu /\ req'[q].newGroups = ng
    BY <2>1, <2>2 DEF Slot
  <2> QED
    BY <2>3 DEF nu, ng
<1> QED
  BY <1>1, <1>2

LEMMA WriteTold ==
  ASSUME IInv, Bare, NEW r \in Requests, NEW next, NEW us, NEW gs, GoUnseen(r, next, us, gs),
         Settled(next), next.pc \notin {"leftovers", "deleteGroup"},
         \A u \in Names \ us :
           users'[u].uid # 0 => users[u].uid # 0 /\ users'[u].gid = users[u].gid,
         \A g \in Names \ gs : groups'[g] = groups[g]
  PROVE  \A q \in Requests : Told(req[q])'
<1> TAKE q \in Requests
<1>1. CASE q = r
  <2>1. req'[q] = next
    BY <1>1, OthersStay
  <2> QED
    BY <2>1 DEF Told, Settled, GroupIsRead, LeftAreNamed
<1>2. CASE q # r
  <2>1. Told(req[q])
    BY DEF Bare
  <2>2. /\ req'[q].pc = req[q].pc /\ req'[q].name = req[q].name
        /\ req'[q].gid = req[q].gid /\ req'[q].primary = req[q].primary
        /\ req'[q].rows = req[q].rows /\ req'[q].named = req[q].named
        /\ req[q].pc \in PastUid => req'[q].newUsers = req[q].newUsers \cup us
        /\ req[q].pc \in PastGid => req'[q].newGroups = req[q].newGroups \cup gs
    <3>1. \A p \in Requests \ {r} :
            /\ req'[p].pc = req[p].pc /\ req'[p].name = req[p].name
            /\ req'[p].gid = req[p].gid /\ req'[p].primary = req[p].primary
            /\ req'[p].rows = req[p].rows /\ req'[p].named = req[p].named
            /\ req[p].pc \in PastUid => req'[p].newUsers = req[p].newUsers \cup us
            /\ req[p].pc \in PastGid => req'[p].newGroups = req[p].newGroups \cup gs
      BY OthersStay
    <3> QED
      BY <1>2, <3>1
  <2>3. Settled(req[q])'
    BY <2>1, <2>2 DEF Told, Settled
  <2>4. GroupIsRead(req[q])'
    <3>1. req[q].pc # "idle" => req[q].name \in Names
      BY RunningIsNamed
    <3> QED
      BY <2>1, <2>2, <3>1 DEF Told, GroupIsRead, PastGid
  <2>5. LeftAreNamed(req[q])'
    BY <2>1, <2>2 DEF Told, LeftAreNamed, PastUid, Exists
  <2> QED
    BY <2>3, <2>4, <2>5 DEF Told
<1> QED
  BY <1>1, <1>2

\* What another request was looking for, it still is.
LEMMA SeekersStay ==
  ASSUME IInv, NEW r \in Requests, NEW next, NEW us, NEW gs, GoUnseen(r, next, us, gs),
         NEW q \in Requests \ {r}, NEW u, Seeks(req[q], u), users'[u].gid = users[u].gid
  PROVE  LookingFor(u)'
<1>1. /\ req'[q].pc = req[q].pc /\ req'[q].name = req[q].name
      /\ req'[q].gid = req[q].gid /\ req'[q].primary = req[q].primary
  BY OthersStay
<1> QED
  BY <1>1 DEF Seeks, LookingFor

LEMMA SomebodyKnows ==
  ASSUME Bare, NEW u \in Names, Bared(u), u \notin Known
  PROVE  \E q \in Requests : Seeks(req[q], u)
  BY DEF Known, Bare, BareNumbersAreKnown, Bared, LookingFor, Seeks

LEMMA BeginningTold ==
  ASSUME IInv, Bare, NEW r \in Requests,
         BeginCreate(r) \/ BeginImport(r) \/ BeginCreateGroup(r) \/ BeginChange(r)
  PROVE  Bare'
<1>1. forms \subseteq Row
  BY DEF IInv, Typed
<1>2. req[r].pc = "idle" /\ UNCHANGED <<users, groups, Known>>
  BY DEF Known, BeginCreate, BeginImport, BeginCreateGroup, BeginChange, At
<1>3. PICK next : Go(r, next) /\ Settled(next) /\ next.pc \notin {"leftovers", "deleteGroup"}
  <2>1. CASE BeginCreate(r)
    <3>1. PICK row \in {f \in forms : f.gid = 0 => f.primary} :
            Go(r, [Idle EXCEPT !.pc = "uid", !.name = row.name, !.uid = row.uid,
                               !.gid = row.gid, !.primary = row.primary])
      BY <2>1 DEF BeginCreate
    <3> DEFINE new == [Idle EXCEPT !.pc = "uid", !.name = row.name, !.uid = row.uid,
                                   !.gid = row.gid, !.primary = row.primary]
    <3>2. /\ new.pc = "uid" /\ new.gid = row.gid /\ new.primary = row.primary
          /\ new.rows = Idle.rows
      BY DEF Idle
    <3>3. Go(r, new)
      BY <3>1
    <3> HIDE DEF new
    <3>4. Settled(new)
      BY <3>2, IdleIsTold DEF Settled
    <3> QED
      BY <3>2, <3>3, <3>4
  <2>2. CASE BeginImport(r)
    <3>1. PICK first, second \in ImportRows :
            Go(r, [Idle EXCEPT !.pc = "uid", !.name = first.name, !.uid = first.uid,
                               !.gid = first.gid, !.primary = first.primary,
                               !.rows = <<second>>])
      BY <2>2 DEF BeginImport
    <3> DEFINE new == [Idle EXCEPT !.pc = "uid", !.name = first.name, !.uid = first.uid,
                                   !.gid = first.gid, !.primary = first.primary,
                                   !.rows = <<second>>]
    <3>2. new.pc = "uid" /\ new.gid = first.gid /\ new.rows = <<second>>
      BY DEF Idle
    <3>3. Go(r, new)
      BY <3>1
    <3> HIDE DEF new
    <3>4. first.gid # 0 /\ second.gid # 0
      BY DEF ImportRows
    <3>5. Len(<<second>>) = 1 /\ <<second>>[1] = second
      OBVIOUS
    <3>6. \A i \in 1..Len(<<second>>) : <<second>>[i].gid # 0
      BY <3>4, <3>5
    <3>7. Settled(new)
      BY <3>2, <3>4, <3>6 DEF Settled
    <3> QED
      BY <3>2, <3>3, <3>7
  <2>3. CASE BeginCreateGroup(r)
    <3>1. PICK form \in forms :
            Go(r, [Idle EXCEPT !.pc = "groupGid", !.name = form.name, !.gid = form.gid])
      BY <2>3 DEF BeginCreateGroup
    <3> DEFINE new == [Idle EXCEPT !.pc = "groupGid", !.name = form.name, !.gid = form.gid]
    <3>2. new.pc = "groupGid" /\ new.rows = Idle.rows
      BY DEF Idle
    <3>3. Go(r, new)
      BY <3>1
    <3> HIDE DEF new
    <3>4. Settled(new)
      BY <3>2, IdleIsTold DEF Settled
    <3> QED
      BY <3>2, <3>3, <3>4
  <2>4. CASE BeginChange(r)
    <3>1. PICK form \in forms :
            Go(r, [Idle EXCEPT !.pc = IF form.uid = 0 THEN "before" ELSE "holder",
                               !.name = form.name, !.uid = form.uid, !.gid = form.gid])
      BY <2>4 DEF BeginChange
    <3> DEFINE new == [Idle EXCEPT !.pc = IF form.uid = 0 THEN "before" ELSE "holder",
                                   !.name = form.name, !.uid = form.uid, !.gid = form.gid]
    <3>2. new.pc \in {"before", "holder"} /\ new.rows = Idle.rows
      BY DEF Idle
    <3>3. Go(r, new)
      BY <3>1
    <3> HIDE DEF new
    <3>4. Settled(new)
      BY <3>2, IdleIsTold DEF Settled
    <3> QED
      BY <3>2, <3>3, <3>4
  <2> QED
    BY <2>1, <2>2, <2>3, <2>4
<1> QED
  BY <1>2, <1>3, PlainTold

LEMMA SeekTold ==
  ASSUME IInv, Bare, NEW r \in Requests, Seek(r) PROVE Bare'
<1>1. req[r].pc \in {"uid", "gid", "groupGid"} /\ UNCHANGED <<users, groups, Known>>
  BY DEF Known, Seek, At
<1>2. req[r] \in Slot /\ Told(req[r])
  BY <1>1, RunningIsNamed DEF Bare
<1>3. PICK try : Go(r, [req[r] EXCEPT !.try = try])
  BY DEF Seek
<1> DEFINE new == [req[r] EXCEPT !.try = try]
<1>4. /\ new.pc = req[r].pc /\ new.name = req[r].name /\ new.gid = req[r].gid
      /\ new.primary = req[r].primary /\ new.rows = req[r].rows
  BY <1>2 DEF Slot
<1>5. Go(r, new)
  BY <1>3
<1> HIDE DEF new
<1>6. Told(new)
  BY <1>1, <1>2, <1>4 DEF Told, Settled, GroupIsRead, LeftAreNamed
<1>7. \A u \in Names : Seeks(req[r], u) => Seeks(new, u)
  BY <1>4 DEF Seeks
<1> QED
  BY <1>1, <1>5, <1>6, <1>7, QuietTold

\* A number that is taken: the request goes on as it is, or is over.
LEMMA TakenIsTold ==
  ASSUME IInv, NEW r \in Requests, req[r].pc \in {"uid", "gid", "groupGid"},
         Settled(req[r]), NEW asked
  PROVE  /\ Settled(Taken(r, asked))
         /\ Taken(r, asked).pc \in {"idle", "uid", "gid", "groupGid"}
<1>1. CASE asked # 0 \/ req[r].tries + 1 >= Attempts
  BY <1>1, RestIsTold DEF Taken
<1>2. CASE ~(asked # 0 \/ req[r].tries + 1 >= Attempts)
  <2> DEFINE new == [req[r] EXCEPT !.try = @ + 1, !.tries = @ + 1]
  <2>1. req[r] \in Slot
    BY RunningIsNamed
  <2>2. /\ new.pc = req[r].pc /\ new.gid = req[r].gid
        /\ new.primary = req[r].primary /\ new.rows = req[r].rows
    BY <2>1 DEF Slot
  <2>3. Taken(r, asked) = new
    BY <1>2 DEF Taken
  <2> HIDE DEF new
  <2> QED
    BY <2>2, <2>3 DEF Settled
<1> QED
  BY <1>1, <1>2

LEMMA ReservingTold ==
  ASSUME IInv, Bare, NEW r \in Requests, ReserveUid(r) \/ ReserveGid(r)
  PROVE  Bare'
<1>1. req[r].pc \in {"uid", "gid"} /\ UNCHANGED <<users, groups, Known>>
  BY DEF Known, ReserveUid, ReserveGid, At
<1>2. req[r] \in Slot /\ Settled(req[r])
  BY <1>1, RunningIsNamed DEF Bare, Told
<1>3. PICK next : Go(r, next) /\ Settled(next) /\ next.pc \notin {"leftovers", "deleteGroup"}
  <2>1. CASE ReserveUid(r)
    <3> DEFINE n == Candidate(r, req[r].uid)
               new == [req[r] EXCEPT !.pc = IF req[r].primary THEN "gid" ELSE "add",
                                     !.uid = n, !.try = 0, !.tries = 0, !.newUsers = {}]
    <3>1. req[r].pc = "uid"
          /\ Go(r, IF HoldersOfUid(n) # {} THEN Taken(r, req[r].uid) ELSE new)
      BY <2>1 DEF ReserveUid, At
    <3>2. /\ new.pc = IF req[r].primary THEN "gid" ELSE "add"
          /\ new.gid = req[r].gid /\ new.primary = req[r].primary /\ new.rows = req[r].rows
      <4> HIDE DEF n
      <4> QED
        BY <1>2 DEF Slot
    <3> HIDE DEF new, n
    <3>3. Settled(new)
      BY <1>2, <3>1, <3>2 DEF Settled
    <3> QED
      BY <1>1, <1>2, <3>1, <3>2, <3>3, TakenIsTold
  <2>2. CASE ReserveGid(r)
    <3> DEFINE n == Candidate(r, req[r].gid)
               new == [req[r] EXCEPT !.pc = "add", !.gid = n,
                                     !.try = 0, !.tries = 0, !.newGroups = {}]
    <3>1. req[r].pc = "gid" /\ n \in Numbers
          /\ Go(r, IF HoldersOfGid(n) # {} THEN Taken(r, req[r].gid) ELSE new)
      BY <2>2 DEF ReserveGid, At
    <3>2. new.pc = "add" /\ new.gid = n /\ new.rows = req[r].rows
      <4> HIDE DEF n
      <4> QED
        BY <1>2 DEF Slot
    <3> HIDE DEF new, n
    <3>3. Settled(new)
      BY <1>2, <3>1, <3>2, NumbersTyped DEF Settled
    <3> QED
      BY <1>1, <1>2, <3>1, <3>2, <3>3, TakenIsTold
  <2> QED
    BY <2>1, <2>2
<1> QED
  BY <1>1, <1>3, PlainTold

\* CreateGroup settles the number of a primary group again: it is the one asked for.
LEMMA ReserveGroupGidTold ==
  ASSUME IInv, Bare, NEW r \in Requests, ReserveGroupGid(r) PROVE Bare'
<1> DEFINE n == Candidate(r, req[r].gid)
           new == [req[r] EXCEPT !.pc = "addGroup", !.gid = n,
                                 !.try = 0, !.tries = 0, !.newGroups = {}]
<1>1. /\ req[r].pc = "groupGid" /\ UNCHANGED <<users, groups>>
      /\ Go(r, IF HoldersOfGid(n) # {} THEN Taken(r, req[r].gid) ELSE new)
      /\ Known' = IF HoldersOfGid(n) # {} THEN Known \cup TellOf(r) ELSE Known
  BY DEF Known, ReserveGroupGid, At
<1>2. req[r] \in Slot /\ Settled(req[r])
  BY <1>1, RunningIsNamed DEF Bare, Told
<1>3. CASE HoldersOfGid(n) # {}
  <2>1. Go(r, Taken(r, req[r].gid)) /\ Known' = Known \cup TellOf(r)
    BY <1>1, <1>3
  <2>2. Told(Taken(r, req[r].gid))
    BY <1>1, <1>2, TakenIsTold DEF Told, GroupIsRead, LeftAreNamed
  <2>3. \A u \in Names : Seeks(req[r], u) => u \in TellOf(r)
    BY <1>1 DEF Seeks, TellOf
  <2> QED
    BY <1>1, <2>1, <2>2, <2>3, QuietTold
<1>4. CASE HoldersOfGid(n) = {}
  <2>1. Go(r, new) /\ Known' = Known
    BY <1>1, <1>4
  <2>2. /\ new.pc = "addGroup" /\ new.name = req[r].name /\ new.gid = n
        /\ new.primary = req[r].primary /\ new.rows = req[r].rows
    <3> HIDE DEF n
    <3> QED
      BY <1>2 DEF Slot
  <2>3. req[r].gid # 0 => n = req[r].gid
    BY DEF Candidate
  <2> HIDE DEF new, n
  <2>4. Told(new)
    BY <1>2, <2>2 DEF Told, Settled, GroupIsRead, LeftAreNamed
  <2>5. \A u \in Names : Seeks(req[r], u) /\ Bared(u) => Seeks(new, u)
    BY <1>1, <2>2, <2>3 DEF Seeks, Bared, Bare, Numbered
  <2> QED
    BY <1>1, <2>1, <2>4, <2>5, QuietTold
<1> QED
  BY <1>3, <1>4

\* Steps that only fail, warn or go on; what they forget, TellOf or a warning says.
LEMMA EndingTold ==
  ASSUME IInv, Bare, NEW r \in Requests,
         \/ InitialPassword(r) \/ CreateFails(r) \/ AlignSidFails(r) \/ WarnOfGroup(r)
         \/ ChangeFails(r) \/ DeleteGroupFails(r)
  PROVE  Bare'
<1>1. /\ req[r].pc # "idle" /\ UNCHANGED <<users, groups>>
      /\ Known \subseteq Known'
  BY DEF Known, InitialPassword, CreateFails, AlignSidFails, WarnOfGroup, ChangeFails,
         DeleteGroupFails, At
<1>2. req[r] \in Slot /\ Settled(req[r])
  BY <1>1, RunningIsNamed DEF Bare, Told
<1>3. ASSUME NEW pc \in {"groupGid", "warn"}
      PROVE  LET new == [req[r] EXCEPT !.pc = pc] IN
             /\ new.pc = pc /\ new.name = req[r].name /\ new.gid = req[r].gid
             /\ new.primary = req[r].primary /\ Told(new)
  <2> DEFINE new == [req[r] EXCEPT !.pc = pc]
  <2>1. /\ new.pc = pc /\ new.name = req[r].name /\ new.gid = req[r].gid
        /\ new.primary = req[r].primary /\ new.rows = req[r].rows
    BY <1>2 DEF Slot
  <2> HIDE DEF new
  <2>2. Told(new)
    BY <1>2, <2>1 DEF Told, Settled, GroupIsRead, LeftAreNamed
  <2> QED
    BY <2>1, <2>2 DEF new
<1>4. Told(Rest(r)) /\ Told(Idle)
  BY <1>2, RestIsTold, IdleIsTold DEF Told, GroupIsRead, LeftAreNamed
<1>5. PICK next : /\ Go(r, next) /\ Told(next)
                  /\ \A u \in Names :
                       Seeks(req[r], u) /\ Bared(u) => Seeks(next, u) \/ u \in Known'
  <2>1. CASE InitialPassword(r)
    <3>1. CASE req[r].primary
      <4> DEFINE new == [req[r] EXCEPT !.pc = "groupGid"]
      <4>1. /\ new.pc = "groupGid" /\ new.name = req[r].name /\ new.gid = req[r].gid
            /\ new.primary = req[r].primary /\ Told(new)
        BY <1>3
      <4>2. Go(r, new) /\ req[r].pc = "password"
        BY <2>1, <3>1 DEF InitialPassword, At
      <4> HIDE DEF new
      <4>3. \A u \in Names : Seeks(req[r], u) => Seeks(new, u)
        BY <3>1, <4>1, <4>2 DEF Seeks
      <4> QED
        BY <4>1, <4>2, <4>3
    <3>2. CASE ~req[r].primary
      <4>1. Go(r, Rest(r)) /\ \A u : ~Seeks(req[r], u)
        BY <2>1, <3>2 DEF InitialPassword, At, Seeks
      <4> QED
        BY <1>4, <4>1
    <3> QED
      BY <3>1, <3>2
  <2>2. CASE CreateFails(r)
    <3>1. Go(r, Rest(r)) /\ Known' = Known \cup TellOf(r)
          /\ req[r].pc \notin {"sid", "warn"}
      BY <2>2 DEF Known, CreateFails, At
    <3>2. \A u \in Names : Seeks(req[r], u) => u \in TellOf(r)
      BY <3>1 DEF Seeks, TellOf
    <3> QED
      BY <1>4, <3>1, <3>2
  <2>3. CASE AlignSidFails(r)
    <3>1. CASE req[r].gid # 0
      <4> DEFINE new == [req[r] EXCEPT !.pc = "warn"]
      <4>1. new.pc = "warn" /\ new.name = req[r].name /\ new.gid = req[r].gid /\ Told(new)
        BY <1>3
      <4>2. Go(r, new)
        BY <2>3, <3>1 DEF AlignSidFails
      <4> HIDE DEF new
      <4>3. \A u \in Names : Seeks(req[r], u) => Seeks(new, u)
        BY <4>1 DEF Seeks
      <4> QED
        BY <4>1, <4>2, <4>3
    <3>2. CASE req[r].gid = 0
      <4>1. Go(r, Idle) /\ \A u \in Names : ~(Seeks(req[r], u) /\ Bared(u))
        BY <2>3, <3>2 DEF AlignSidFails, Seeks, Bared, Bare, Numbered
      <4> QED
        BY <1>4, <4>1
    <3> QED
      BY <3>1, <3>2
  <2>4. CASE WarnOfGroup(r)
    <3>1. Go(r, Idle)
      BY <2>4 DEF WarnOfGroup
    <3>2. \A u \in Names : Seeks(req[r], u) /\ Bared(u) => u \in Known'
      BY <2>4 DEF Known, WarnOfGroup, Seeks, Bared
    <3> QED
      BY <1>4, <3>1, <3>2
  <2>5. CASE ChangeFails(r) \/ DeleteGroupFails(r)
    <3>1. Go(r, Idle) /\ \A u : ~Seeks(req[r], u)
      BY <2>5 DEF ChangeFails, DeleteGroupFails, At, Seeks
    <3> QED
      BY <1>4, <3>1
  <2> QED
    BY <2>1, <2>2, <2>3, <2>4, <2>5
<1> QED
  BY <1>1, <1>5, QuietTold

LEMMA CheckingTold ==
  ASSUME IInv, Bare, NEW r \in Requests, CheckHolder(r) \/ ReadBefore(r) PROVE Bare'
<1>1. req[r].pc \in {"holder", "before"} /\ UNCHANGED <<users, groups, Known>>
  BY DEF Known, CheckHolder, ReadBefore, At
<1>2. req[r] \in Slot /\ Settled(req[r])
  BY <1>1, RunningIsNamed DEF Bare, Told
<1>3. ASSUME NEW next, next.pc \in {"before", "modify"}, next.rows = req[r].rows
      PROVE  Settled(next)
  BY <1>2, <1>3 DEF Settled
<1>4. PICK next : Go(r, next) /\ Settled(next) /\ next.pc \notin {"leftovers", "deleteGroup"}
  <2>1. CASE CheckHolder(r)
    <3> DEFINE goOn == [req[r] EXCEPT !.pc = "before", !.newUsers = {}]
               past(unseen) == [goOn EXCEPT !.newUsers = unseen]
    <3>1. goOn.pc = "before" /\ goOn.rows = req[r].rows
      BY <1>2 DEF Slot
    <3>2. \A unseen : past(unseen).pc = "before" /\ past(unseen).rows = req[r].rows
      BY <1>2 DEF Slot
    <3>3. Go(r, goOn) \/ (\E unseen : Go(r, past(unseen))) \/ Go(r, Idle)
      BY <2>1 DEF CheckHolder
    <3> HIDE DEF goOn, past
    <3>4. CASE Go(r, goOn)
      BY <1>3, <3>1, <3>4
    <3>5. CASE \E unseen : Go(r, past(unseen))
      BY <1>3, <3>2, <3>5
    <3>6. CASE Go(r, Idle)
      BY <3>6, IdleIsTold DEF Told
    <3> QED
      BY <3>3, <3>4, <3>5, <3>6
  <2>2. CASE ReadBefore(r)
    <3> DEFINE new == [req[r] EXCEPT !.pc = "modify", !.old = users[req[r].name]]
    <3>1. new.pc = "modify" /\ new.rows = req[r].rows
      BY <1>2 DEF Slot
    <3>2. Go(r, new)
      BY <2>2 DEF ReadBefore
    <3> HIDE DEF new
    <3> QED
      BY <1>3, <3>1, <3>2
  <2> QED
    BY <2>1, <2>2
<1> QED
  BY <1>1, <1>4, PlainTold

LEMMA BeginDeleteTold ==
  ASSUME IInv, Bare, NEW r \in Requests, BeginDeleteGroup(r) PROVE Bare'
<1>1. req[r].pc = "idle" /\ UNCHANGED <<users, groups, Known>>
  BY DEF Known, BeginDeleteGroup, At
<1>2. PICK g \in Names :
        Go(r, [Idle EXCEPT !.pc = "leftovers", !.name = g, !.gid = groups[g]])
  BY DEF BeginDeleteGroup
<1> DEFINE new == [Idle EXCEPT !.pc = "leftovers", !.name = g, !.gid = groups[g]]
<1>3. /\ new.pc = "leftovers" /\ new.name = g /\ new.gid = groups[g]
      /\ new.rows = Idle.rows
  BY DEF Idle
<1>4. Go(r, new)
  BY <1>2
<1> HIDE DEF new
<1>5. Told(new)
  BY <1>3, IdleIsTold DEF Told, Settled, GroupIsRead, LeftAreNamed
<1>6. \A u : ~Seeks(req[r], u)
  BY <1>1 DEF Seeks
<1> QED
  BY <1>1, <1>4, <1>5, <1>6, QuietTold

LEMMA NamingTold ==
  ASSUME IInv, Bare, NEW r \in Requests, NameLeftovers(r) PROVE Bare'
<1>1. req[r].pc = "leftovers" /\ UNCHANGED <<users, groups, Known>>
  BY DEF Known, NameLeftovers, At
<1>2. req[r] \in Slot /\ Told(req[r])
  BY <1>1, RunningIsNamed DEF Bare
<1>3. PrimaryOf(req[r].gid) \subseteq Names
  BY DEF PrimaryOf
<1>4. PICK named : /\ PrimaryOf(req[r].gid) \subseteq named
                   /\ Go(r, [req[r] EXCEPT !.pc = "deleteGroup", !.newUsers = {},
                                           !.named = named])
  BY <1>3 DEF NameLeftovers
<1> DEFINE new == [req[r] EXCEPT !.pc = "deleteGroup", !.newUsers = {}, !.named = named]
<1>5. /\ new.pc = "deleteGroup" /\ new.name = req[r].name /\ new.gid = req[r].gid
      /\ new.rows = req[r].rows /\ new.named = named
      /\ new.newGroups = req[r].newGroups
  BY <1>2 DEF Slot
<1>6. Go(r, new)
  BY <1>4
<1> HIDE DEF new
<1>7. Told(new)
  <2>1. Settled(new)
    BY <1>2, <1>5 DEF Told, Settled
  <2>2. GroupIsRead(new)
    BY <1>1, <1>2, <1>5 DEF Told, GroupIsRead
  <2>3. LeftAreNamed(new)
    BY <1>4, <1>5 DEF LeftAreNamed, PrimaryOf
  <2> QED
    BY <2>1, <2>2, <2>3 DEF Told
<1>8. \A u : ~Seeks(req[r], u)
  BY <1>1 DEF Seeks
<1> QED
  BY <1>1, <1>6, <1>7, <1>8, QuietTold

\* A new account's number is one a group has, one this request gives a group, or one
\* that was typed.
LEMMA AddUserTold ==
  ASSUME IInv, Bare, NEW r \in Requests, AddUser(r) PROVE Bare'
<1>0. PICK w \in Names : w = req[r].name /\ req[r].pc = "add"
  BY RunningIsNamed DEF AddUser, At
<1> DEFINE e == [uid |-> req[r].uid, gid |-> req[r].gid, rid |-> 0]
           new == [req[r] EXCEPT !.pc = "password"]
           asked == {w} \ (IF req[r].primary \/ HoldersOfGid(req[r].gid) # {} THEN {w} ELSE {})
<1>1. /\ req[r].pc = "add" /\ UNCHANGED groups
      /\ users' = [users EXCEPT ![w] = e]
      /\ \/ GoUnseen(r, new, {w}, {}) /\ (Known \ {w}) \cup asked \subseteq Known'
         \/ GoUnseen(r, Rest(r), {w}, {}) /\ Known \cup {w} \subseteq Known'
  BY <1>0 DEF Known, AddUser, At
<1>2. req[r] \in Slot /\ w \in Names /\ Settled(req[r]) /\ req[r].gid # 0
  BY <1>1, RunningIsNamed DEF Bare, Told, Settled
<1>3. /\ \A u \in Names \ {w} : users'[u] = users[u]
      /\ users'[w].uid = req[r].uid /\ users'[w].gid = req[r].gid
  BY <1>1, <1>2 DEF IInv, Typed
<1>4. /\ new.pc = "password" /\ new.name = w /\ new.gid = req[r].gid
      /\ new.primary = req[r].primary /\ new.rows = req[r].rows
  BY <1>0, <1>2 DEF Slot
<1>5. Numbered'
  BY <1>2, <1>3 DEF Bare, Numbered, Exists
<1> HIDE DEF new, e
<1>6. PICK next : /\ GoUnseen(r, next, {w}, {}) /\ Settled(next)
                  /\ next.pc \notin {"leftovers", "deleteGroup"}
                  /\ Known \ {w} \subseteq Known'
                  /\ \/ w \in Known' \/ HoldersOfGid(req[r].gid) # {}
                     \/ /\ next.name = w /\ next.gid = req[r].gid
                        /\ next.pc = "password" /\ next.primary
  <2>1. CASE GoUnseen(r, new, {w}, {}) /\ (Known \ {w}) \cup asked \subseteq Known'
    <3>1. Settled(new)
      BY <1>2, <1>4 DEF Settled
    <3> QED
      BY <1>0, <1>4, <2>1, <3>1
  <2>2. CASE GoUnseen(r, Rest(r), {w}, {}) /\ Known \cup {w} \subseteq Known'
    BY <1>2, <2>2, RestIsTold
  <2> QED
    BY <1>1, <2>1, <2>2
<1>7. \A q \in Requests : Told(req[q])'
  <2>1. \A u \in Names \ {w} :
          users'[u].uid # 0 => users[u].uid # 0 /\ users'[u].gid = users[u].gid
    BY <1>3
  <2> QED
    BY <1>1, <1>6, <2>1, WriteTold
<1>8. ASSUME NEW u \in Names, Bared(u)', u \notin Known'
      PROVE  LookingFor(u)'
  <2>1. CASE u = w
    <3>1. req'[r] = next
      BY <1>6, OthersStay
    <3>2. HoldersOfGid(req[r].gid) = {}
      BY <1>1, <1>3, <1>8, <2>1 DEF Bared, HoldersOfGid
    <3> QED
      BY <1>3, <1>6, <1>8, <2>1, <3>1, <3>2 DEF LookingFor
  <2>2. CASE u # w
    <3>1. Bared(u) /\ users'[u] = users[u] /\ u \notin Known
      BY <1>1, <1>3, <1>6, <1>8, <2>2 DEF Bared, Exists, HoldersOfGid
    <3>2. PICK q \in Requests : Seeks(req[q], u)
      BY <3>1, SomebodyKnows
    <3>3. q # r
      BY <1>1, <3>2 DEF Seeks
    <3> QED
      BY <1>6, <3>1, <3>2, <3>3, SeekersStay
  <2> QED
    BY <2>1, <2>2
<1> QED
  BY <1>5, <1>7, <1>8 DEF Known, Bare, BareNumbersAreKnown, Bared

LEMMA AddGroupTold ==
  ASSUME IInv, Bare, NEW r \in Requests, AddGroup(r) PROVE Bare'
<1> DEFINE g == req[r].name  n == req[r].gid
<1>1. /\ req[r].pc = "addGroup" /\ groups[g] = 0 /\ UNCHANGED users
      /\ groups' = [groups EXCEPT ![g] = n]
      /\ Known' = Known \ PrimaryOf(n)
      /\ GoUnseen(r, Rest(r), {}, {g})
  BY DEF Known, AddGroup, At
<1>2. req[r] \in Slot /\ g \in Names /\ Settled(req[r])
  BY <1>1, RunningIsNamed DEF Bare, Told
<1>3. groups'[g] = n /\ \A y \in Names \ {g} : groups'[y] = groups[y]
  BY <1>1, <1>2 DEF IInv, Typed
<1>4. Numbered'
  BY <1>1 DEF Bare, Numbered, Exists
<1>5. PICK next : /\ GoUnseen(r, next, {}, {g}) /\ Settled(next)
                  /\ next.pc \notin {"leftovers", "deleteGroup"}
  BY <1>1, <1>2, RestIsTold
<1>6. \A q \in Requests : Told(req[q])'
  BY <1>1, <1>3, <1>5, WriteTold
<1>7. ASSUME NEW u \in Names, Bared(u)', u \notin Known'
      PROVE  LookingFor(u)'
  <2>1. users'[u].gid # n /\ Exists(u)
    BY <1>1, <1>2, <1>3, <1>7 DEF Bared, Exists, HoldersOfGid
  <2>2. users[u].gid # n /\ users[u].gid # 0
    BY <1>1, <2>1 DEF Bare, Numbered
  <2>3. Bared(u)
    <3>1. \A y \in Names : groups'[y] # users[u].gid
      BY <1>1, <1>7 DEF Bared, HoldersOfGid
    <3>2. \A y \in Names : groups[y] # users[u].gid
      BY <1>1, <1>3, <2>2, <3>1
    <3> QED
      BY <2>1, <3>2 DEF Bared, HoldersOfGid
  <2>4. u \notin Known
    BY <1>1, <1>7, <2>2 DEF PrimaryOf
  <2>5. PICK q \in Requests : Seeks(req[q], u)
    BY <2>3, <2>4, SomebodyKnows
  <2>6. q # r
    BY <2>2, <2>5 DEF Seeks
  <2> QED
    BY <1>1, <1>5, <2>5, <2>6, SeekersStay
<1> QED
  BY <1>4, <1>6, <1>7 DEF Known, Bare, BareNumbersAreKnown, Bared

\* A changed number is looked for after the write, or the answer is lost.
LEMMA ModifyTold ==
  ASSUME IInv, Bare, NEW r \in Requests, Modify(r) PROVE Bare'
<1> DEFINE w == req[r].name  n == req[r].uid
           us == IF NewUid(r) \/ NewGid(r) THEN {w} ELSE {}
           e == [users[w] EXCEPT !.uid = IF NewUid(r) THEN n ELSE @,
                                 !.gid = IF NewGid(r) THEN req[r].gid ELSE @]
<1>1. /\ req[r].pc = "modify" /\ Exists(w) /\ UNCHANGED groups
      /\ users' = [users EXCEPT ![w] = e]
      /\ \/ /\ GoUnseen(r, AfterModify(r), us, {})
            /\ Known' = IF NewGid(r) THEN Known \ {w} ELSE Known
         \/ GoUnseen(r, Idle, us, {}) /\ Known' = Known \cup us
  BY DEF Known, Modify, At
<1>2. req[r] \in Slot /\ w \in Names /\ Settled(req[r])
  BY <1>1, RunningIsNamed DEF Bare, Told
<1>3. users \in [Names -> Entry]
  BY DEF IInv, Typed
<1>4. e.uid = (IF NewUid(r) THEN n ELSE users[w].uid)
      /\ e.gid = (IF NewGid(r) THEN req[r].gid ELSE users[w].gid)
  BY <1>2, <1>3 DEF Entry
<1> HIDE DEF e
<1>5. users'[w] = e /\ \A u \in Names \ {w} : users'[u] = users[u]
  BY <1>1, <1>2, <1>3
<1>6. \A u \in Names : users'[u].uid # 0 => Exists(u)
  BY <1>1, <1>5 DEF Exists
<1>7. NewGid(r) => req[r].gid # 0
  BY DEF NewGid
<1>8. Numbered'
  BY <1>4, <1>5, <1>6, <1>7 DEF Bare, Numbered, Exists
<1>9. PICK next : /\ GoUnseen(r, next, us, {}) /\ Settled(next)
                  /\ next.pc \notin {"leftovers", "deleteGroup"}
                  /\ Known \ {w} \subseteq Known'
                  /\ ~NewGid(r) => Known \subseteq Known'
                  /\ NewGid(r) => \/ w \in Known'
                                  \/ /\ next.name = w /\ next.gid = req[r].gid
                                     /\ next.pc \in {"sid", "warn"}
  <2>1. CASE GoUnseen(r, AfterModify(r), us, {})
             /\ Known' = IF NewGid(r) THEN Known \ {w} ELSE Known
    <3>1. \/ AfterModify(r) = Idle /\ ~NewGid(r)
          \/ \E pc \in {"sid", "warn"} :
               AfterModify(r) = [req[r] EXCEPT !.pc = pc,
                                               !.gid = IF NewGid(r) THEN req[r].gid ELSE 0]
      BY Zenon DEF AfterModify
    <3>2. CASE AfterModify(r) = Idle /\ ~NewGid(r)
      BY <2>1, <3>2, IdleIsTold DEF Told
    <3>3. CASE \E pc \in {"sid", "warn"} :
                 AfterModify(r) = [req[r] EXCEPT !.pc = pc,
                                                 !.gid = IF NewGid(r) THEN req[r].gid ELSE 0]
      <4>1. PICK pc \in {"sid", "warn"} :
                 AfterModify(r) = [req[r] EXCEPT !.pc = pc,
                                                 !.gid = IF NewGid(r) THEN req[r].gid ELSE 0]
        BY <3>3
      <4> DEFINE gid == IF NewGid(r) THEN req[r].gid ELSE 0
                 new == [req[r] EXCEPT !.pc = pc, !.gid = gid]
      <4>2. new.pc = pc /\ new.name = w /\ new.gid = gid /\ new.rows = req[r].rows
        <5> HIDE DEF gid
        <5> QED
          BY <1>2 DEF Slot
      <4>3. AfterModify(r) = new
        BY <4>1
      <4> HIDE DEF new
      <4>4. Settled(new)
        BY <1>2, <4>2 DEF Settled
      <4> QED
        BY <2>1, <4>2, <4>3, <4>4
    <3> QED
      BY <3>1, <3>2, <3>3
  <2>2. CASE GoUnseen(r, Idle, us, {}) /\ Known' = Known \cup us
    BY <2>2, IdleIsTold DEF Told
  <2> QED
    BY <1>1, <2>1, <2>2
<1>10. \A q \in Requests : Told(req[q])'
  <2>1. \A u \in Names \ us :
          users'[u].uid # 0 => users[u].uid # 0 /\ users'[u].gid = users[u].gid
    BY <1>4, <1>5, <1>6 DEF Exists
  <2>2. \A y \in Names \ {} : groups'[y] = groups[y]
    BY <1>1
  <2> HIDE DEF us
  <2> QED
    BY <1>9, <2>1, <2>2, WriteTold
<1> HIDE DEF us
<1>11. ASSUME NEW u \in Names, Bared(u)', u \notin Known'
       PROVE  LookingFor(u)'
  <2>1. CASE u = w /\ NewGid(r)
    <3>1. req'[r] = next /\ users'[u].gid = req[r].gid
      BY <1>4, <1>5, <1>9, <2>1, OthersStay
    <3> QED
      BY <1>9, <1>11, <2>1, <3>1 DEF LookingFor
  <2>2. CASE u # w \/ ~NewGid(r)
    <3>1. users'[u].gid = users[u].gid /\ u \notin Known
      BY <1>4, <1>5, <1>9, <1>11, <2>2
    <3>2. Bared(u)
      BY <1>1, <1>6, <1>11, <3>1 DEF Bared, Exists, HoldersOfGid
    <3>3. PICK q \in Requests : Seeks(req[q], u)
      BY <3>1, <3>2, SomebodyKnows
    <3>4. q # r
      BY <1>1, <3>3 DEF Seeks
    <3> QED
      BY <1>9, <3>1, <3>3, <3>4, SeekersStay
  <2> QED
    BY <2>1, <2>2
<1> QED
  BY <1>8, <1>10, <1>11 DEF Known, Bare, BareNumbersAreKnown, Bared

\* The SID is rewritten; the numbers stay, and with them who is to look for a group.
LEMMA AlignTold ==
  ASSUME IInv, Bare, NEW r \in Requests, AlignSid(r) PROVE Bare'
<1>0. PICK w \in Names : w = req[r].name /\ req[r].pc = "sid"
  BY RunningIsNamed DEF AlignSid, At
<1> DEFINE new == [req[r] EXCEPT !.pc = "warn"]
<1>1. /\ UNCHANGED <<groups, Known>>
      /\ users' = [users EXCEPT ![w].rid =
                     IF @ = 0 THEN 0 ELSE Realigned(req[r].old, req[r].uid)]
      /\ Go(r, IF req[r].gid # 0 THEN new ELSE Idle)
  BY <1>0 DEF Known, AlignSid
<1>2. req[r] \in Slot /\ Settled(req[r])
  BY <1>0, RunningIsNamed DEF Bare, Told
<1>3. \A u \in Names : users'[u].uid = users[u].uid /\ users'[u].gid = users[u].gid
  BY <1>1 DEF IInv, Typed, Entry
<1>4. /\ new.pc = "warn" /\ new.name = w /\ new.gid = req[r].gid
      /\ new.rows = req[r].rows
  BY <1>0, <1>2 DEF Slot
<1> HIDE DEF new
<1>5. PICK next : /\ Go(r, next) /\ Settled(next)
                  /\ next.pc \notin {"leftovers", "deleteGroup"}
                  /\ req[r].gid # 0 => next.pc = "warn" /\ next.name = w /\ next.gid = req[r].gid
  <2>1. CASE req[r].gid # 0
    <3>1. Settled(new)
      BY <1>2, <1>4 DEF Settled
    <3> QED
      BY <1>1, <1>4, <2>1, <3>1
  <2>2. CASE req[r].gid = 0
    BY <1>1, <2>2, IdleIsTold DEF Told
  <2> QED
    BY <2>1, <2>2
<1>6. req'[r] = next /\ \A q \in Requests \ {r} : req'[q] = req[q]
  BY <1>5 DEF Go, IInv, Typed
<1>7. Numbered'
  BY <1>3 DEF Bare, Numbered, Exists
<1>8. \A q \in Requests : Told(req[q])'
  <2> TAKE q \in Requests
  <2>1. Told(req'[q])
    BY <1>5, <1>6 DEF Bare, Told, GroupIsRead, LeftAreNamed
  <2> QED
    BY <1>1, <1>3, <2>1 DEF Told, Settled, GroupIsRead, LeftAreNamed, Exists
<1>9. ASSUME NEW u \in Names, Bared(u)', u \notin Known'
      PROVE  LookingFor(u)'
  <2>1. Bared(u) /\ u \notin Known
    BY <1>1, <1>3, <1>9 DEF Bared, Exists, HoldersOfGid
  <2>2. PICK q \in Requests : Seeks(req[q], u)
    BY <2>1, SomebodyKnows
  <2>3. CASE q # r
    BY <1>3, <1>6, <2>2, <2>3 DEF Seeks, LookingFor
  <2>4. CASE q = r
    <3>1. req[r].gid # 0 /\ req[r].gid = users'[u].gid /\ w = u
      BY <1>0, <1>3, <2>1, <2>2, <2>4 DEF Seeks, Bare, Numbered, Bared
    <3> QED
      BY <1>5, <1>6, <3>1 DEF LookingFor
  <2> QED
    BY <2>3, <2>4
<1> QED
  BY <1>7, <1>8, <1>9 DEF Known, Bare, BareNumbersAreKnown, Bared

\* The accounts a deletion leaves without a group are named, or came later, or the
\* group's number was changed by who re-created it meanwhile.
LEMMA DeleteGroupTold ==
  ASSUME IInv, Bare, NEW r \in Requests, DeleteGroup(r) PROVE Bare'
<1>0. PICK g \in Names : g = req[r].name /\ req[r].pc = "deleteGroup"
  BY RunningIsNamed DEF DeleteGroup, At
<1> DEFINE taken == PrimaryOf(groups[g])
           late == IF g \in req[r].newGroups THEN taken ELSE taken \cap req[r].newUsers
           told == (taken \cap req[r].named) \cup (late \ req[r].named)
<1>1. /\ UNCHANGED users
      /\ groups' = [groups EXCEPT ![g] = 0]
      /\ GoUnseen(r, Idle, {}, {g})
      /\ Known' = Known \cup told \/ Known' = Known \cup taken
  BY <1>0 DEF Known, DeleteGroup
<1>2. groups'[g] = 0 /\ \A y \in Names \ {g} : groups'[y] = groups[y]
  BY <1>1 DEF IInv, Typed
<1>3. Numbered'
  BY <1>1 DEF Bare, Numbered, Exists
<1>4. \A q \in Requests : Told(req[q])'
  BY <1>1, <1>2, IdleIsTold, WriteTold DEF Told
<1>5. taken \subseteq Known'
  <2>1. Told(req[r])
    BY DEF Bare
  <2>2. taken \subseteq told
    <3> SUFFICES ASSUME NEW u \in taken, g \notin req[r].newGroups
                 PROVE  u \in req[r].named \cup req[r].newUsers
      OBVIOUS
    <3>1. u \in Names /\ Exists(u) /\ users[u].gid = groups[g]
      BY DEF PrimaryOf
    <3>2. groups[g] = req[r].gid
      BY <1>0, <2>1 DEF Told, GroupIsRead
    <3> QED
      BY <1>0, <2>1, <3>1, <3>2 DEF Told, LeftAreNamed
  <2> QED
    BY <1>1, <2>2
<1>6. ASSUME NEW u \in Names, Bared(u)', u \notin Known'
      PROVE  LookingFor(u)'
  <2>1. Exists(u) /\ u \notin taken
    BY <1>1, <1>5, <1>6 DEF Bared, Exists
  <2>2. users[u].gid # groups[g]
    BY <2>1 DEF PrimaryOf
  <2>3. Bared(u)
    <3>1. \A y \in Names : groups'[y] # users[u].gid
      BY <1>1, <1>6 DEF Bared, HoldersOfGid
    <3>2. \A y \in Names : groups[y] # users[u].gid
      BY <1>2, <2>2, <3>1
    <3> QED
      BY <2>1, <3>2 DEF Bared, HoldersOfGid
  <2>4. u \notin Known
    BY <1>1, <1>6
  <2>5. PICK q \in Requests : Seeks(req[q], u)
    BY <2>3, <2>4, SomebodyKnows
  <2>6. q # r
    BY <1>0, <2>5 DEF Seeks
  <2> QED
    BY <1>1, <2>5, <2>6, SeekersStay
<1> QED
  BY <1>3, <1>4, <1>6 DEF Known, Bare, BareNumbersAreKnown, Bared

LEMMA DeleteUserTold ==
  ASSUME IInv, Bare, NEW w \in Names, DeleteUser(w) PROVE Bare'
<1>1. /\ users' = [users EXCEPT ![w] = Absent] /\ UNCHANGED <<groups, req>>
      /\ Known' = Known \ {w}
  BY DEF Known, DeleteUser
<1>2. users'[w].uid = 0 /\ \A u \in Names \ {w} : users'[u] = users[u]
  BY <1>1, NumbersTyped DEF IInv, Typed, Absent
<1>3. Numbered'
  BY <1>2 DEF Bare, Numbered, Exists
<1>4. \A q \in Requests : Told(req[q])'
  <2> TAKE q \in Requests
  <2>1. Told(req[q])
    BY DEF Bare
  <2> QED
    BY <1>1, <1>2, <2>1 DEF Told, Settled, GroupIsRead, LeftAreNamed, Exists
<1>5. ASSUME NEW u \in Names, Bared(u)', u \notin Known'
      PROVE  LookingFor(u)'
  <2>1. u # w
    BY <1>2, <1>5 DEF Bared, Exists
  <2>2. Bared(u) /\ u \notin Known /\ users'[u] = users[u]
    BY <1>1, <1>2, <1>5, <2>1 DEF Bared, Exists, HoldersOfGid
  <2>3. PICK q \in Requests : Seeks(req[q], u)
    BY <2>2, SomebodyKnows
  <2> QED
    BY <1>1, <2>2, <2>3 DEF Seeks, LookingFor
<1> QED
  BY <1>3, <1>4, <1>5 DEF Known, Bare, BareNumbersAreKnown, Bared

\* Whoever waits for an answer that never comes looks for themselves.
LEMMA CrashTold ==
  ASSUME IInv, Bare, Crash PROVE Bare'
<1> DEFINE told == UNION {TellOf(r) : r \in Requests}
           named == {req[r].name : r \in {q \in Requests : req[q].pc \in {"sid", "warn"}}}
<1>1. /\ req' = [r \in Requests |-> Idle] /\ UNCHANGED <<users, groups>>
      /\ Known' = Known \cup told \cup named
  BY DEF Known, Crash
<1>2. Numbered'
  BY <1>1 DEF Bare, Numbered, Exists
<1>3. \A q \in Requests : Told(req[q])'
  <2> TAKE q \in Requests
  <2>1. req'[q] = Idle
    BY <1>1
  <2> QED
    BY <2>1, IdleIsTold DEF Told, Settled, GroupIsRead, LeftAreNamed
<1>4. ASSUME NEW u \in Names, Bared(u)', u \notin Known' PROVE FALSE
  <2>1. Bared(u) /\ u \notin Known
    BY <1>1, <1>4 DEF Bared, Exists, HoldersOfGid
  <2>2. PICK q \in Requests : Seeks(req[q], u)
    BY <2>1, SomebodyKnows
  <2>3. u \in TellOf(q) \/ (u = req[q].name /\ req[q].pc \in {"sid", "warn"})
    BY <2>2 DEF Seeks, TellOf
  <2>4. TellOf(q) \subseteq told
    OBVIOUS
  <2>5. req[q].pc \in {"sid", "warn"} => req[q].name \in named
    OBVIOUS
  <2> HIDE DEF told, named
  <2> QED
    BY <1>1, <1>4, <2>3, <2>4, <2>5
<1> QED
  BY <1>2, <1>3, <1>4 DEF Known, Bare, BareNumbersAreKnown, Bared

LEMMA InitIsBare == Init => Bare
<1> SUFFICES ASSUME Init PROVE Bare
  OBVIOUS
<1>1. PICK s \in Starts :
        /\ users = s.users /\ groups = s.groups
        /\ bareKnown = {u \in Names : s.users[u].uid # 0
                                      /\ s.users[u].gid \notin {s.groups[g] : g \in Names}}
  BY DEF Init
<1>2. Numbered
  BY <1>1, AccountsAssumption DEF Numbered, Exists
<1>3. \A r \in Requests : Told(req[r])
  <2> TAKE r \in Requests
  <2>1. req[r] = Idle
    BY DEF Init
  <2> QED
    BY <2>1, IdleIsTold
<1>4. BareNumbersAreKnown
  BY <1>1 DEF BareNumbersAreKnown, Exists, HoldersOfGid
<1> QED
  BY <1>2, <1>3, <1>4 DEF Bare

LEMMA StepIsBare ==
  ASSUME IInv, Bare, [Next]_vars PROVE Bare'
<1>1. CASE UNCHANGED vars
  BY <1>1 DEF vars, Bare, Numbered, Told, Settled, GroupIsRead, LeftAreNamed,
     BareNumbersAreKnown, LookingFor, Exists, HoldersOfGid
<1>2. CASE Next
  BY <1>2, BeginningTold, SeekTold, ReservingTold, AddUserTold, EndingTold,
     ReserveGroupGidTold, AddGroupTold, CheckingTold, ModifyTold, AlignTold, BeginDeleteTold,
     NamingTold, DeleteGroupTold, DeleteUserTold, CrashTold DEF Next
<1> QED
  BY <1>1, <1>2

\* BareNumbersAreKnown: however creations, changes and deletions interleave and fail,
\* nobody is left with a primary group that does not exist and that nobody was told
\* of (GroupDeleteLeftovers, ChangePosixIDs, handleCreateUser), but for accounts that
\* took a group's number between that search and the group's deletion.
THEOREM BareNumbersAreKnownAlways == Spec => []BareNumbersAreKnown
<1>1. Bare => BareNumbersAreKnown
  BY DEF Bare
<1> QED
  BY <1>1, InitHolds, StepKeeps, InitIsBare, StepIsBare, PTL DEF Spec
=============================================================================
