------------------------------ MODULE PosixIds ------------------------------
(***************************************************************************)
(* POSIX numbers: who carries which uidNumber and gidNumber.               *)
(*                                                                         *)
(* Creating accounts and groups (one at a time or from a file), changing   *)
(* an account's numbers and deleting groups: internal/ldap/posixids.go,    *)
(* users.go and groups.go under the handlers of internal/api.  The         *)
(* directory has no transaction and enforces no uniqueness: a number is    *)
(* found free by one search and written by a later call, a primary group   *)
(* is created after the account that names its number, a Samba SID is      *)
(* rewritten after the number it came from.                                *)
(*                                                                         *)
(* A request is a process; one step is one call to the directory.  The     *)
(* audit row before each change is left to Sessions; a request that is     *)
(* refused it has done nothing yet, like one that is never sent.  Mail,    *)
(* expiry and memberUid carry no number and are left out.                  *)
(***************************************************************************)
EXTENDS Naturals, FiniteSets, Sequences

CONSTANTS
  Names,     \* uids of accounts and cns of groups: a primary group has its account's
  Requests,  \* HTTP requests the server may be running at once
  None,      \* "no name"
  Last,      \* bound: numbers are 1..Last, and 1 is both MinUID and MinGID
  Attempts,  \* allocationAttempts
  RidBase,   \* the offset of Samba's conventional rid = 2 * uid + RidBase
  Starts     \* what runs start from: see Start

Numbers == 1..Last

\* An account or group that is not there has the number 0 in the model.
Entry == [uid : 0..Last, gid : 0..Last, rid : Nat]

Absent == [uid |-> 0, gid |-> 0, rid |-> 0]

Ops == {"create", "import", "createGroup", "change", "deleteGroup", "deleteUser"}

\* A call to the directory that fails, one that fails although it was applied,
\* the search for the holder of a number, and the whole process.
Faults == {"call", "reply", "lookup", "crash"}

\* A row of a file, or what a form sends.  A 0 asks for a number when creating,
\* and leaves the number alone when changing.
Row == [name : Names, uid : 0..Last, gid : 0..Last, primary : BOOLEAN]

\* The operations and failures of a run, the forms sent, what is there.
Start == [menu : SUBSET (Ops \cup Faults), rows : SUBSET Row,
          users : [Names -> Entry], groups : [Names -> 0..Last]]

ASSUME ConstantsAssumption ==
  /\ Last \in Nat \ {0}
  /\ Attempts \in Nat \ {0}
  /\ RidBase \in Nat
  /\ None \notin Names
  /\ Starts \subseteq Start

\* An account's schema requires both numbers: one that is there has a gidNumber.
ASSUME AccountsAssumption ==
  \A s \in Starts : \A u \in Names : s.users[u].uid # 0 => s.users[u].gid # 0

VARIABLES
  menu,      \* the operations and failures of this behaviour
  forms,     \* the rows and forms administrators send
  users,     \* users[u]: uidNumber, gidNumber and the RID of sambaSID (0: no SID)
  groups,    \* groups[g]: gidNumber
  req,       \* req[r]: the request running in slot r
  rivals,    \* history: pairs written while the other was being written, or found so
  bareKnown, \* history: accounts whose number names no group, as somebody knows
  overlooked \* history: those a deletion left so after it had looked for them

vars == <<menu, forms, users, groups, req, rivals, bareKnown, overlooked>>

Request ==
  [pc : {"idle", "uid", "gid", "add", "password", "groupGid", "addGroup",
         "holder", "before", "modify", "sid", "warn", "leftovers", "deleteGroup"},
   name : Names \cup {None},
   uid : 0..Last, gid : 0..Last,   \* the numbers asked for, then those settled on
   primary : BOOLEAN,
   try : 0..(Last + 1),            \* the number an allocation is at
   tries : 0..Attempts,
   rows : Seq(Row),                \* rows of the file still to come
   old : Entry,                    \* the account as ChangePosixIDs read it
   named : SUBSET Names,           \* accounts the warnings of a deletion name
   \* History: accounts and groups written by others since this one looked.
   newUsers : SUBSET Names, newGroups : SUBSET Names]

Idle == [pc |-> "idle", name |-> None, uid |-> 0, gid |-> 0, primary |-> FALSE,
         try |-> 0, tries |-> 0, rows |-> <<>>, old |-> Absent, named |-> {},
         newUsers |-> {}, newGroups |-> {}]

TypeOK ==
  /\ menu \subseteq Ops \cup Faults
  /\ forms \subseteq Row
  /\ users \in [Names -> Entry]
  /\ groups \in [Names -> 0..Last]
  /\ req \in [Requests -> Request]
  /\ rivals \subseteq ({"uid", "gid"} \X SUBSET Names)
  /\ bareKnown \subseteq Names
  /\ overlooked \subseteq Names

-----------------------------------------------------------------------------
(* The directory. *)

Exists(u) == users[u].uid # 0

HoldersOfUid(n) == {u \in Names : users[u].uid = n}
HoldersOfGid(n) == {g \in Names : groups[g] = n}
PrimaryOf(n)    == {u \in Names : Exists(u) /\ users[u].gid = n}

\* NextUID and NextGID: the least number nobody of that kind holds.
LeastFree(used) == CHOOSE n \in Numbers \ used : \A m \in Numbers \ used : n <= m

UidsInUse == {users[u].uid : u \in Names}
GidsInUse == {groups[g] : g \in Names}

\* A SID derived from the number: the RID is the number itself, or Samba's.
Derived(e) == e.rid \in {e.uid, 2 * e.uid + RidBase}

\* alignSambaSID: the same derivation, of the new number.
Realigned(e, n) == IF e.rid = e.uid THEN n ELSE 2 * n + RidBase

\* Accounts, and groups, that carry one number already.
Sharing ==
  {<<"uid", {p[1], p[2]}>> : p \in {q \in Names \X Names :
       q[1] # q[2] /\ Exists(q[1]) /\ users[q[1]].uid = users[q[2]].uid}}
    \cup {<<"gid", {p[1], p[2]}>> : p \in {q \in Names \X Names :
            q[1] # q[2] /\ groups[q[1]] # 0 /\ groups[q[1]] = groups[q[2]]}}

Init ==
  \E s \in Starts :
    /\ menu = s.menu
    /\ forms = s.rows
    /\ users = s.users
    /\ groups = s.groups
    /\ req = [r \in Requests |-> Idle]
    /\ rivals = Sharing
    /\ bareKnown = {u \in Names : s.users[u].uid # 0
                                  /\ s.users[u].gid \notin {s.groups[g] : g \in Names}}
    /\ overlooked = {}

-----------------------------------------------------------------------------
(* What every step of a request shares. *)

At(r, pc) == req[r].pc = pc

Go(r, next) == req' = [req EXCEPT ![r] = next]

\* The next row of a file, or the answer.
Rest(r) ==
  IF req[r].rows = <<>> THEN Idle
  ELSE LET row == Head(req[r].rows) IN
       [Idle EXCEPT !.pc = "uid", !.name = row.name, !.uid = row.uid, !.gid = row.gid,
                    !.primary = row.primary, !.rows = Tail(req[r].rows)]

\* Steps at which a write to an account, or to a group, by another request
\* comes too late to be seen.
PastUid  == {"gid", "add", "before", "modify", "sid", "deleteGroup"}
PastGid  == {"add", "password", "addGroup", "leftovers", "deleteGroup"}

\* The record r goes on as next; the others miss the writes of the accounts us
\* and the groups gs.
GoUnseen(r, next, us, gs) ==
  req' = [q \in Requests |->
            IF q = r THEN next
            ELSE [req[q] EXCEPT
                    !.newUsers = IF req[q].pc \in PastUid THEN @ \cup us ELSE @,
                    !.newGroups = IF req[q].pc \in PastGid THEN @ \cup gs ELSE @]]

\* A name takes a number of its kind: the pairs it is in are those with holders
\* whose writing it could not have seen.
Paired(kind, x, holders, unseen) ==
  {p \in rivals : p[1] # kind \/ x \notin p[2]}
    \cup {<<kind, {x, y}>> : y \in (holders \ {x})
                                     \cap (IF x \in unseen THEN Names ELSE unseen)}

-----------------------------------------------------------------------------
(* Creating: reserveUIDNumber, reserveGIDNumber, CreateUser, CreateGroup.   *)

\* Only a group the request is to create can be given a number.
BeginCreate(r) ==
  /\ At(r, "idle") /\ "create" \in menu
  /\ \E row \in {f \in forms : f.gid = 0 => f.primary} :
       Go(r, [Idle EXCEPT !.pc = "uid", !.name = row.name, !.uid = row.uid,
                          !.gid = row.gid, !.primary = row.primary])
  /\ UNCHANGED <<menu, forms, users, groups, rivals, bareKnown, overlooked>>

\* A file asks for every number itself: validateImportUser refuses a row that
\* leaves one to be allocated.  A row that is refused or fails is skipped.
ImportRows == {row \in forms : row.uid # 0 /\ row.gid # 0}

BeginImport(r) ==
  /\ At(r, "idle") /\ "import" \in menu
  /\ \E first, second \in ImportRows :
       Go(r, [Idle EXCEPT !.pc = "uid", !.name = first.name, !.uid = first.uid,
                          !.gid = first.gid, !.primary = first.primary,
                          !.rows = <<second>>])
  /\ UNCHANGED <<menu, forms, users, groups, rivals, bareKnown, overlooked>>

BeginCreateGroup(r) ==
  /\ At(r, "idle") /\ "createGroup" \in menu
  /\ \E form \in forms :
       Go(r, [Idle EXCEPT !.pc = "groupGid", !.name = form.name, !.gid = form.gid])
  /\ UNCHANGED <<menu, forms, users, groups, rivals, bareKnown, overlooked>>

\* Without a number asked for, one search finds where to begin.
Seek(r) ==
  /\ \/ At(r, "uid") /\ req[r].uid = 0
     \/ req[r].pc \in {"gid", "groupGid"} /\ req[r].gid = 0
  /\ req[r].try = 0
  /\ LET used == IF At(r, "uid") THEN UidsInUse ELSE GidsInUse IN
       /\ Numbers \ used # {}
       /\ Go(r, [req[r] EXCEPT !.try = LeastFree(used)])
  /\ UNCHANGED <<menu, forms, users, groups, rivals, bareKnown, overlooked>>

\* The number looked up next: the one asked for, or the allocation's.
Candidate(r, asked) == IF asked # 0 THEN asked ELSE req[r].try

\* A number that is taken: refused if it was asked for, else stepped over.
Taken(r, asked) ==
  IF asked # 0 \/ req[r].tries + 1 >= Attempts THEN Rest(r)
  ELSE [req[r] EXCEPT !.try = @ + 1, !.tries = @ + 1]

\* Mutant: the number asked for is taken at its word.
ReserveUidUnseen(r) ==
  LET asked == req[r].uid
      n == Candidate(r, asked)
  IN /\ At(r, "uid") /\ n \in Numbers
     /\ Go(r, [req[r] EXCEPT !.pc = IF req[r].primary THEN "gid" ELSE "add",
                             !.uid = n, !.try = 0, !.tries = 0, !.newUsers = {}])
     /\ UNCHANGED <<menu, forms, users, groups, rivals, bareKnown, overlooked>>

ReserveUid(r) ==
  LET asked == req[r].uid
      n == Candidate(r, asked)
  IN /\ At(r, "uid") /\ n \in Numbers
     /\ Go(r, IF HoldersOfUid(n) # {} THEN Taken(r, asked)
              ELSE [req[r] EXCEPT !.pc = IF req[r].primary THEN "gid" ELSE "add",
                                  !.uid = n, !.try = 0, !.tries = 0, !.newUsers = {}])
     /\ UNCHANGED <<menu, forms, users, groups, rivals, bareKnown, overlooked>>

\* The number of the primary group, while nothing exists yet.
ReserveGid(r) ==
  LET asked == req[r].gid
      n == Candidate(r, asked)
  IN /\ At(r, "gid") /\ n \in Numbers
     /\ Go(r, IF HoldersOfGid(n) # {} THEN Taken(r, asked)
              ELSE [req[r] EXCEPT !.pc = "add", !.gid = n,
                                  !.try = 0, !.tries = 0, !.newGroups = {}])
     /\ UNCHANGED <<menu, forms, users, groups, rivals, bareKnown, overlooked>>

\* The account.  Adding a name that is there is refused by the directory.  A
\* number that names no group is known to whoever typed it, unless this request
\* is to create the group.
AddUser(r) ==
  LET u == req[r].name
      n == req[r].uid
      asked == {u} \ (IF req[r].primary \/ HoldersOfGid(req[r].gid) # {} THEN {u} ELSE {})
  IN /\ At(r, "add")
     /\ ~Exists(u)
     /\ users' = [users EXCEPT ![u] = [uid |-> n, gid |-> req[r].gid, rid |-> 0]]
     /\ rivals' = Paired("uid", u, HoldersOfUid(n), req[r].newUsers)
     /\ \/ /\ GoUnseen(r, [req[r] EXCEPT !.pc = "password"], {u}, {})
           /\ bareKnown' = (bareKnown \ {u}) \cup asked
        \/ /\ "reply" \in menu
           /\ GoUnseen(r, Rest(r), {u}, {})
           /\ bareKnown' = bareKnown \cup {u}
     /\ UNCHANGED <<menu, forms, groups, overlooked>>

\* PasswordModify, and the end of a request that creates no group.
InitialPassword(r) ==
  /\ At(r, "password")
  /\ Go(r, IF req[r].primary THEN [req[r] EXCEPT !.pc = "groupGid"] ELSE Rest(r))
  /\ UNCHANGED <<menu, forms, users, groups, rivals, bareKnown, overlooked>>

\* A request that stops after the account was added leaves it, with the number of
\* a group that may never be: the answer is an error.
TellOf(r) == IF req[r].pc \in {"password", "groupGid", "addGroup"} /\ req[r].primary
             THEN {req[r].name} ELSE {}

\* CreateGroup settles the number again, the one of a primary group too.
ReserveGroupGid(r) ==
  LET asked == req[r].gid
      n == Candidate(r, asked)
      taken == HoldersOfGid(n) # {}
  IN /\ At(r, "groupGid") /\ n \in Numbers
     /\ Go(r, IF taken THEN Taken(r, asked)
              ELSE [req[r] EXCEPT !.pc = "addGroup", !.gid = n,
                                  !.try = 0, !.tries = 0, !.newGroups = {}])
     /\ bareKnown' = IF taken THEN bareKnown \cup TellOf(r) ELSE bareKnown
     /\ UNCHANGED <<menu, forms, users, groups, rivals, overlooked>>

AddGroup(r) ==
  LET g == req[r].name
      n == req[r].gid
  IN /\ At(r, "addGroup")
     /\ groups[g] = 0
     /\ groups' = [groups EXCEPT ![g] = n]
     /\ rivals' = Paired("gid", g, HoldersOfGid(n), req[r].newGroups)
     /\ bareKnown' = bareKnown \ PrimaryOf(n)
     /\ overlooked' = overlooked \ PrimaryOf(n)
     /\ GoUnseen(r, Rest(r), {}, {g})
     /\ UNCHANGED <<menu, forms, users>>

\* A name that is there, or a call that fails.
CreateFails(r) ==
  /\ \/ At(r, "add") /\ Exists(req[r].name)
     \/ At(r, "addGroup") /\ groups[req[r].name] # 0
     \/ /\ req[r].pc \in {"uid", "gid", "add", "password", "groupGid", "addGroup"}
        /\ "call" \in menu
  /\ Go(r, Rest(r))
  /\ bareKnown' = bareKnown \cup TellOf(r)
  /\ UNCHANGED <<menu, forms, users, groups, rivals, overlooked>>

-----------------------------------------------------------------------------
(* Changing numbers: handleChangePosixIDs and ChangePosixIDs.             *)

BeginChange(r) ==
  /\ At(r, "idle") /\ "change" \in menu
  /\ \E form \in forms :
       LET u == form.name IN
       /\ Exists(u)
       /\ \/ form.uid \notin {0, users[u].uid}
          \/ form.gid \notin {0, users[u].gid}
       /\ Go(r, [Idle EXCEPT !.pc = IF form.uid = 0 THEN "before" ELSE "holder",
                             !.name = u, !.uid = form.uid, !.gid = form.gid])
  /\ UNCHANGED <<menu, forms, users, groups, rivals, bareKnown, overlooked>>

\* Refused if another account holds the number; a search that fails does not
\* refuse.  Of several holders the directory's first is looked at.
CheckHolder(r) ==
  LET u == req[r].name
      holders == HoldersOfUid(req[r].uid)
      goOn == [req[r] EXCEPT !.pc = "before", !.newUsers = {}]
  IN /\ At(r, "holder")
     /\ \/ holders \subseteq {u} /\ Go(r, goOn)
        \/ \E h \in holders : Go(r, IF h = u THEN [goOn EXCEPT !.newUsers = {u}] ELSE Idle)
        \/ "lookup" \in menu /\ Go(r, [goOn EXCEPT !.newUsers = Names])
     /\ UNCHANGED <<menu, forms, users, groups, rivals, bareKnown, overlooked>>

ReadBefore(r) ==
  /\ At(r, "before") /\ Exists(req[r].name)
  /\ Go(r, [req[r] EXCEPT !.pc = "modify", !.old = users[req[r].name]])
  /\ UNCHANGED <<menu, forms, users, groups, rivals, bareKnown, overlooked>>

NewUid(r) == req[r].uid \notin {0, req[r].old.uid}
NewGid(r) == req[r].gid \notin {0, req[r].old.gid}

\* What is left after the write: the SID, then a look at the group.
AfterModify(r) ==
  LET sid == NewUid(r) /\ req[r].old.rid # 0 /\ Derived(req[r].old) IN
  IF sid \/ NewGid(r)
  THEN [req[r] EXCEPT !.pc = IF sid THEN "sid" ELSE "warn",
                      !.gid = IF NewGid(r) THEN @ ELSE 0]
  ELSE Idle

\* Both numbers in one write.  An account whose SID follows no scheme the code
\* knows is reported and left alone.
Modify(r) ==
  LET u == req[r].name
      n == req[r].uid
      e == [users[u] EXCEPT !.uid = IF NewUid(r) THEN n ELSE @,
                            !.gid = IF NewGid(r) THEN req[r].gid ELSE @]
      us == IF NewUid(r) \/ NewGid(r) THEN {u} ELSE {}
  IN /\ At(r, "modify") /\ Exists(u)
     /\ users' = [users EXCEPT ![u] = e]
     /\ rivals' = IF NewUid(r) THEN Paired("uid", u, HoldersOfUid(n), req[r].newUsers)
                  ELSE rivals
     /\ \/ /\ GoUnseen(r, AfterModify(r), us, {})
           /\ bareKnown' = IF NewGid(r) THEN bareKnown \ {u} ELSE bareKnown
        \/ /\ "reply" \in menu
           /\ GoUnseen(r, Idle, us, {})
           /\ bareKnown' = bareKnown \cup us
     /\ overlooked' = IF NewGid(r) THEN overlooked \ {u} ELSE overlooked
     /\ UNCHANGED <<menu, forms, groups>>

\* The SID follows the number this request wrote, from the account it read.  An
\* entry that has no SID any more is of no class that may carry one.
AlignSid(r) ==
  LET u == req[r].name IN
  /\ At(r, "sid")
  /\ users' = [users EXCEPT ![u].rid =
                 IF @ = 0 THEN 0 ELSE Realigned(req[r].old, req[r].uid)]
  /\ Go(r, IF req[r].gid # 0 THEN [req[r] EXCEPT !.pc = "warn"] ELSE Idle)
  /\ UNCHANGED <<menu, forms, groups, rivals, bareKnown, overlooked>>

\* The write of the SID fails: a warning says which SID it should now be.
AlignSidFails(r) ==
  /\ At(r, "sid") /\ "call" \in menu
  /\ Go(r, IF req[r].gid # 0 THEN [req[r] EXCEPT !.pc = "warn"] ELSE Idle)
  /\ UNCHANGED <<menu, forms, users, groups, rivals, bareKnown, overlooked>>

\* A number no group has is legal, and warned about; so is a search that fails.
WarnOfGroup(r) ==
  /\ At(r, "warn")
  /\ \/ bareKnown' = bareKnown \cup (IF HoldersOfGid(req[r].gid) = {} THEN {req[r].name} ELSE {})
     \/ "lookup" \in menu /\ bareKnown' = bareKnown \cup {req[r].name}
  /\ Go(r, Idle)
  /\ UNCHANGED <<menu, forms, users, groups, rivals, overlooked>>

\* The account is gone, or a call fails, before anything was written.
ChangeFails(r) ==
  /\ req[r].pc \in {"before", "modify"} /\ (~Exists(req[r].name) \/ "call" \in menu)
  /\ Go(r, Idle)
  /\ UNCHANGED <<menu, forms, users, groups, rivals, bareKnown, overlooked>>

-----------------------------------------------------------------------------
(* Deleting. *)

BeginDeleteGroup(r) ==
  /\ At(r, "idle") /\ "deleteGroup" \in menu
  /\ \E g \in Names :
       /\ groups[g] # 0
       /\ Go(r, [Idle EXCEPT !.pc = "leftovers", !.name = g, !.gid = groups[g]])
  /\ UNCHANGED <<menu, forms, users, groups, rivals, bareKnown, overlooked>>

\* Mutant: the search compares the wrong number.
NameLeftoversByUid(r) ==
  /\ At(r, "leftovers")
  /\ Go(r, [req[r] EXCEPT !.pc = "deleteGroup", !.newUsers = {},
                          !.named = HoldersOfUid(req[r].gid)])
  /\ UNCHANGED <<menu, forms, users, groups, rivals, bareKnown, overlooked>>

\* GroupDeleteLeftovers, by the number read with the group; a search that fails
\* is a warning about every account.
NameLeftovers(r) ==
  /\ At(r, "leftovers")
  /\ \/ Go(r, [req[r] EXCEPT !.pc = "deleteGroup", !.newUsers = {},
                             !.named = PrimaryOf(req[r].gid)])
     \/ /\ "lookup" \in menu
        /\ Go(r, [req[r] EXCEPT !.pc = "deleteGroup", !.newUsers = {}, !.named = Names])
  /\ UNCHANGED <<menu, forms, users, groups, rivals, bareKnown, overlooked>>

\* The warnings name the accounts the search found.  One that took the number
\* after it, or holds the number of a group that was itself put there after it,
\* goes unmentioned.  An answer that is lost takes the warnings with it, but is
\* an error.
DeleteGroup(r) ==
  LET g == req[r].name
      taken == PrimaryOf(groups[g])
      late == IF g \in req[r].newGroups THEN taken ELSE taken \cap req[r].newUsers
  IN /\ At(r, "deleteGroup")
     /\ groups[g] # 0
     /\ groups' = [groups EXCEPT ![g] = 0]
     /\ rivals' = {p \in rivals : p[1] # "gid" \/ g \notin p[2]}
     /\ \/ /\ bareKnown' = bareKnown \cup (taken \cap req[r].named)
           /\ overlooked' = overlooked \cup (late \ req[r].named)
        \/ "reply" \in menu /\ bareKnown' = bareKnown \cup taken /\ UNCHANGED overlooked
     /\ GoUnseen(r, Idle, {}, {g})
     /\ UNCHANGED <<menu, forms, users>>

DeleteGroupFails(r) ==
  /\ At(r, "deleteGroup")
  /\ groups[req[r].name] = 0 \/ "call" \in menu
  /\ Go(r, Idle)
  /\ UNCHANGED <<menu, forms, users, groups, rivals, bareKnown, overlooked>>

\* An account goes: its name and its number are free.
DeleteUser(u) ==
  /\ "deleteUser" \in menu
  /\ Exists(u)
  /\ users' = [users EXCEPT ![u] = Absent]
  /\ rivals' = {p \in rivals : p[1] # "uid" \/ u \notin p[2]}
  /\ bareKnown' = bareKnown \ {u}
  /\ overlooked' = overlooked \ {u}
  /\ UNCHANGED <<menu, forms, groups, req>>

\* The process stops: whoever was waiting for an answer gets none.
Crash ==
  /\ "crash" \in menu
  /\ req' = [r \in Requests |-> Idle]
  /\ bareKnown' = bareKnown \cup (UNION {TellOf(r) : r \in Requests})
                    \cup {req[r].name : r \in {q \in Requests : req[q].pc \in {"sid", "warn"}}}
  /\ UNCHANGED <<menu, forms, users, groups, rivals, overlooked>>

Next ==
  \/ \E r \in Requests :
       \/ BeginCreate(r) \/ BeginImport(r) \/ BeginCreateGroup(r)
       \/ Seek(r) \/ ReserveUid(r) \/ ReserveGid(r) \/ AddUser(r) \/ InitialPassword(r)
       \/ ReserveGroupGid(r) \/ AddGroup(r) \/ CreateFails(r)
       \/ BeginChange(r) \/ CheckHolder(r) \/ ReadBefore(r) \/ Modify(r) \/ AlignSid(r)
       \/ AlignSidFails(r) \/ WarnOfGroup(r) \/ ChangeFails(r)
       \/ BeginDeleteGroup(r) \/ NameLeftovers(r) \/ DeleteGroup(r) \/ DeleteGroupFails(r)
  \/ \E u \in Names : DeleteUser(u)
  \/ Crash

Spec == Init /\ [][Next]_vars

-----------------------------------------------------------------------------
(* Properties. *)

\* Two accounts carry one uidNumber, or two groups one gidNumber, only when each
\* was written while the other was being written, or when the search for a
\* holder failed and the change went on, or it was so to begin with: the window
\* that is left by settling the number "as late as possible before the write"
\* (posixids.go).
SharedNumbersHaveRivals ==
  \A x, y \in Names :
    x # y =>
      /\ Exists(x) /\ users[x].uid = users[y].uid => <<"uid", {x, y}>> \in rivals
      /\ groups[x] # 0 /\ groups[x] = groups[y] => <<"gid", {x, y}>> \in rivals

\* A request that is still to create, or to look for, the group u's number names.
LookingFor(u) ==
  \E r \in Requests :
    /\ req[r].name = u /\ req[r].gid = users[u].gid
    /\ \/ req[r].pc \in {"password", "groupGid", "addGroup"} /\ req[r].primary
       \/ req[r].pc \in {"sid", "warn"}

\* An account's primary group is a number that names no group only if somebody
\* knows: they typed it, a warning or an error said so, or it is being seen to.
\* A group created later with that number takes the account in, so this is what
\* GroupDeleteLeftovers, the last lookup of ChangePosixIDs and settling a primary
\* group's number before the account is written are for.  Nobody is told of an
\* account that took its group's number between that search and the deletion
\* ("overlooked"): the two are separate calls, and nothing looks again.
BareNumbersAreKnown ==
  \A u \in Names :
    Exists(u) /\ HoldersOfGid(users[u].gid) = {} =>
      u \in bareKnown \/ LookingFor(u) \/ u \in overlooked
=============================================================================
