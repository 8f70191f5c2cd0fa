----------------------------- MODULE References -----------------------------
(***************************************************************************)
(* Names that point at other entries, and what keeps them pointing.        *)
(*                                                                         *)
(* memberUid, sudoUser, netgroup triples, memberNisNetgroup and manager    *)
(* hold plain names the directory does not track.  Renaming and deleting   *)
(* accounts, groups and netgroups (internal/ldap) rewrites them, or says   *)
(* what it leaves behind, one call at a time: lists are read, then written *)
(* back whole, while other administrators edit them.                       *)
(*                                                                         *)
(* A thing is <<kind, name>>; a list is <<attribute, name of its entry>>;  *)
(* a list holds things, and values that are no name: "any" (ALL in         *)
(* sudoUser, an open slot of a triple), "none" (the slot "-") and          *)
(* "unreadable" (a triple the parser refused).  The audit rows, the        *)
(* admin-group guards and the sessions a change ends are in Sessions.      *)
(***************************************************************************)
EXTENDS Naturals, Sequences, FiniteSets

CONSTANTS
  Uids, Cns, Roles, Nets, \* names of accounts, groups, sudo roles and netgroups
  Requests,               \* HTTP requests the server may be running at once
  None,                   \* "nothing"
  Starts                  \* what runs start from: see Start

Anyone     == <<"any", None>>
Nothing    == <<"none", None>>
Unreadable == <<"unreadable", None>>

Thing == ({"user"} \X Uids) \cup ({"group"} \X Cns) \cup ({"role"} \X Roles)
           \cup ({"netgroup"} \X Nets)

\* A value of a list: %cn and +name are a group and a netgroup.
Ref == (Thing \ ({"role"} \X Roles)) \cup {Anyone, Nothing, Unreadable}

\* In the order RenameUser and DeleteUser go through them.
Attributes == <<"memberUid", "sudoUser", "triple", "manager">>
Manager == 4

Lists == ({"manager"} \X Uids) \cup ({"memberUid"} \X Cns) \cup ({"sudoUser"} \X Roles)
           \cup ({"triple", "nesting"} \X Nets)

Owner(l) ==
  <<IF l[1] = "manager" THEN "user"
    ELSE IF l[1] = "memberUid" THEN "group"
    ELSE IF l[1] = "sudoUser" THEN "role" ELSE "netgroup", l[2]>>

ListsOf(t) == {l \in Lists : Owner(l) = t}

\* What the attribute may hold.
Holds(l, ref) ==
  \/ l[1] \in {"manager", "memberUid"} /\ ref[1] = "user"
  \/ l[1] = "sudoUser" /\ ref[1] \in {"user", "group", "netgroup", "any"}
  \/ l[1] = "triple" /\ ref[1] \in {"user", "any", "none", "unreadable"}
  \/ l[1] = "nesting" /\ ref[1] = "netgroup"

\* A manager is one value.
Single(vs) == \A v, w \in vs : v = w

Fits(l, vs) == (\A ref \in vs : Holds(l, ref)) /\ (l[1] = "manager" => Single(vs))

Ops == {"rename", "delete", "create", "renameGroup", "deleteGroup", "deleteNetgroup",
        "deleteRole", "value", "form"}

\* A search that fails, a write that fails, a write whose answer is lost, an
\* unreadable triple written by another tool, the whole process.
Faults == {"search", "call", "reply", "outside", "crash"}

\* edits: the values people add and remove, each in a list.
Start == [menu : SUBSET (Ops \cup Faults), things : SUBSET Thing, lists : [Lists -> SUBSET Ref],
          edits : SUBSET (Lists \X Ref)]

ASSUME ConstantsAssumption ==
  /\ None \notin Uids \cup Cns \cup Roles \cup Nets \cup Requests
  /\ Starts \subseteq Start

\* What is there, and what is edited, is what the attribute may hold.
ASSUME ValuesAssumption ==
  \A s \in Starts :
    /\ \A l \in Lists : Fits(l, s.lists[l])
    /\ \A e \in s.edits : Holds(e[1], e[2]) /\ e[2] # Unreadable

ASSUME FinitenessAssumption == \A s \in Starts : IsFiniteSet(s.things)

VARIABLES
  menu,     \* the operations and failures of this behaviour
  edits,    \* the values that are edited in this behaviour
  things,   \* the entries that exist
  lists,    \* lists[l]: the values of the attribute
  req,      \* req[r]: the request running in slot r
  intended, \* history: the lists as each change, applied to what is there, makes them
  cleared,  \* history: lists a form emptied that it did not send
  known     \* history: references into nothing somebody knows of

vars == <<menu, edits, things, lists, req, intended, cleared, known>>

Request ==
  [pc : {"idle", "move", "remove", "read", "write", "primary", "leftovers", "form", "save"},
   op : Ops \cup {None},
   what : Thing \cup {None},      \* what is renamed or deleted
   to : Thing \cup {None},        \* its new name
   stage : 1..Manager,                  \* the attribute that is being rewritten
   todo : SUBSET Lists,           \* lists still to be written
   read : [Lists -> SUBSET Ref],  \* their values as they were read
   new : (SUBSET Ref) \cup {None},  \* the values a form sends; None: not sent
   unread : BOOLEAN,              \* the entry had unreadable triples to keep
   named : SUBSET Lists,          \* lists the warnings of a deletion name
   since : SUBSET Lists]          \* history: lists others changed since

NoLists == [l \in Lists |-> {}]

Idle == [pc |-> "idle", op |-> None, what |-> None, to |-> None, stage |-> 1,
         todo |-> {}, read |-> NoLists, new |-> None, unread |-> FALSE,
         named |-> {}, since |-> {}]

TypeOK ==
  /\ menu \subseteq Ops \cup Faults
  /\ edits \subseteq Lists \X Ref
  /\ things \subseteq Thing
  /\ lists \in [Lists -> SUBSET Ref]
  /\ \A l \in Lists : Fits(l, lists[l])
  /\ req \in [Requests -> Request]
  /\ intended \in [Lists -> SUBSET Ref]
  /\ cleared \subseteq Lists
  /\ known \subseteq Lists \X Ref

\* References into nothing among the values vs of the list l.
Void(l, vs, ts) == {<<l, ref>> : ref \in {v \in vs : v \in Thing \ ts}}

Init ==
  \E s \in Starts :
    /\ menu = s.menu
    /\ edits = s.edits
    /\ things = s.things
    /\ lists = s.lists
    /\ intended = s.lists
    /\ cleared = {}
    /\ req = [r \in Requests |-> Idle]
    /\ known = UNION {Void(l, lists[l], things) : l \in Lists}

-----------------------------------------------------------------------------
(* Who a sudo role reaches (GetUserSudoRoles): by name, by ALL, through a   *)
(* group, through a netgroup that names the account or nests one that does. *)

Netgroups == {n \in Nets : <<"netgroup", n>> \in things}

\* The graph NetgroupGraph walks.
Graph == [n \in Netgroups |->
            [slots |-> {ref \in lists[<<"triple", n>>] : ref # Unreadable},
             members |-> {ref[2] : ref \in lists[<<"nesting", n>>]}]]

Walk == INSTANCE NetgroupGraph WITH Open <- Anyone, Nobody <- Nothing

GroupsOf(u) == {g \in Cns : u \in lists[<<"memberUid", g>>]}

Reaching(u) ==
  {u, Anyone} \cup {<<"group", g>> : g \in GroupsOf(u)}
           \cup {<<"netgroup", n>> : n \in Walk!ContainingUser(Graph, u)}

\* What the search for one attribute finds: whole entries.
Found(attr, ref) ==
  {l \in Lists : /\ l[1] = attr
                 /\ IF attr = "sudoUser" /\ ref[1] = "user"
                    THEN lists[l] \cap Reaching(ref) # {}
                    ELSE ref \in lists[l]}

-----------------------------------------------------------------------------
(* Steps and history. *)

At(r, pc, op) == req[r].pc = pc /\ req[r].op = op

Go(r, next) == req' = [req EXCEPT ![r] = next]

\* The lists whose changes would escape the request: those it read to write them
\* back, and all of them once a deletion has looked who refers to the entry.
Relies(q) ==
  IF q.pc \in {"write", "form", "save"} THEN q.todo
  ELSE IF q.pc = "remove" /\ q.op # "delete" THEN Lists ELSE {}

\* r goes on as next; the others miss that the lists ls changed.
GoUnseen(r, next, ls) ==
  req' = [q \in Requests |->
            IF q = r THEN next ELSE [req[q] EXCEPT !.since = @ \cup (ls \cap Relies(req[q]))]]

AllVoid(ref, f) == {<<l, ref>> : l \in {m \in Lists : ref \in f[m]}}

\* The list l gets the values vs, where delta is what the change makes of the
\* list as it is; a list that changed since it was read is one two changes met
\* on, and what is left of it is what is left.
WriteList(r, l, vs, delta, next) ==
  /\ lists' = [lists EXCEPT ![l] = vs]
  /\ intended' = [intended EXCEPT ![l] = IF l \in req[r].since THEN vs ELSE delta]
  /\ GoUnseen(r, next, {l})

Swap(vs, a, b) == {IF v = a THEN b ELSE v : v \in vs}

-----------------------------------------------------------------------------
(* Renaming an account or a group: the entry first, then its references.    *)

\* handleChangeUserUID, handleChangeGroupCN: the entry exists, the name is free.
BeginRename(r) ==
  /\ req[r] = Idle
  /\ \E op \in {"rename", "renameGroup"} \cap menu, t \in things, t2 \in Thing \ things :
       /\ t[1] = t2[1] /\ t[1] = (IF op = "rename" THEN "user" ELSE "group")
       /\ Go(r, [Idle EXCEPT !.pc = "move", !.op = op, !.what = t, !.to = t2])
  /\ UNCHANGED <<menu, edits, things, lists, intended, cleared, known>>

\* The lists of the entry t go where it goes.
Moved(f, t, t2) ==
  [l \in Lists |-> IF Owner(l) = t THEN {}
                   ELSE IF Owner(l) = t2 THEN f[<<l[1], t[2]>>] ELSE f[l]]

\* So does what is known of them, and what a change still had to write in them.
MovedPairs(t, t2) ==
  {<<IF Owner(p[1]) = t THEN <<p[1][1], t2[2]>> ELSE p[1], p[2]>> :
     p \in {q \in known : q[2] # t2} \cup
          UNION {{<<l, req[r].what>> : l \in ListsOf(t) \cap req[r].todo} :
                   r \in {q \in Requests : req[q].pc = "write"}}}

\* ModifyDN.  An answer that is lost is an error, and nothing is migrated.
Move(r) ==
  LET t == req[r].what
      t2 == req[r].to
  IN /\ req[r].pc = "move"
     /\ t \in things /\ t2 \notin things
     /\ things' = (things \ {t}) \cup {t2}
     /\ lists' = Moved(lists, t, t2)
     /\ intended' = Moved(intended, t, t2)
     /\ \/ /\ GoUnseen(r, [req[r] EXCEPT !.pc = "read",
                                         !.stage = IF t[1] = "user" THEN 1 ELSE 2],
                       ListsOf(t) \cup ListsOf(t2))
           /\ known' = MovedPairs(t, t2)
        \/ /\ "reply" \in menu
           /\ GoUnseen(r, Idle, ListsOf(t) \cup ListsOf(t2))
           /\ known' = MovedPairs(t, t2) \cup AllVoid(t, lists')
     /\ UNCHANGED <<menu, edits, cleared>>

\* After the last list of a stage: the next attribute, the group that has the
\* account's name, or the answer.
Ahead(r) ==
  LET more == req[r].stage < (IF req[r].what[1] = "user" THEN Manager ELSE 2) IN
  IF more THEN [req[r] EXCEPT !.pc = "read", !.stage = @ + 1, !.todo = {},
                              !.read = NoLists, !.since = {}]
  ELSE IF req[r].op = "rename"
  THEN [req[r] EXCEPT !.pc = "primary", !.todo = {}, !.read = NoLists, !.since = {}]
  ELSE Idle

\* One search per attribute; a search that fails is a warning about all of it.
ReadLists(r) ==
  LET t == req[r].what
      attr == Attributes[req[r].stage]
      found == {l \in Found(attr, t) :
                  attr = "sudoUser" /\ req[r].op = "delete" => t \in lists[l]}
  IN /\ req[r].pc = "read"
     /\ \/ /\ Go(r, IF found = {} THEN Ahead(r)
                    ELSE [req[r] EXCEPT !.pc = "write", !.todo = found, !.since = {},
                            !.read = [l \in Lists |-> IF l \in found THEN lists[l] ELSE {}]])
           /\ UNCHANGED known
        \/ /\ "search" \in menu
           /\ Go(r, Ahead(r))
           /\ known' = known \cup {p \in AllVoid(t, lists) : p[1][1] = attr}
     /\ UNCHANGED <<menu, edits, things, lists, intended, cleared>>

\* The record once the list l is done with.
Done(r, l) ==
  IF req[r].todo = {l} THEN Ahead(r)
  ELSE [req[r] EXCEPT !.todo = @ \ {l}, !.read[l] = {}, !.since = @ \ {l}]

\* Mutant: the triples go back without the ones that could not be read.
WriteSwappedReadable(r) ==
  LET t == req[r].what
      t2 == req[r].to
  IN /\ req[r].pc = "write" /\ req[r].op \in {"rename", "renameGroup"}
     /\ \E l \in req[r].todo :
          /\ Owner(l) \in things
          /\ WriteList(r, l, Swap(req[r].read[l], t, t2) \ {Unreadable},
                       Swap(intended[l], t, t2), Done(r, l))
          /\ known' = known \cup Void(l, lists'[l], things)
     /\ UNCHANGED <<menu, edits, cleared, things>>

\* Each list goes back whole, with one name swapped: memberUid, the sudoUser of
\* every role that reaches the account, the triples with the unreadable ones, a
\* manager.
WriteSwapped(r) ==
  LET t == req[r].what
      t2 == req[r].to
  IN /\ req[r].pc = "write" /\ req[r].op \in {"rename", "renameGroup"}
     /\ \E l \in req[r].todo :
          /\ Owner(l) \in things
          /\ WriteList(r, l, Swap(req[r].read[l], t, t2), Swap(intended[l], t, t2), Done(r, l))
          /\ known' = known \cup Void(l, lists'[l], things)
     /\ UNCHANGED <<menu, edits, cleared, things>>

\* A list that cannot be written, its entry gone or the call failed, is a warning.
WriteFails(r) ==
  /\ req[r].pc = "write"
  /\ \E l \in req[r].todo :
       /\ \/ Owner(l) \notin things \/ "call" \in menu
          \* Deleting a value that is not there is an error.
          \/ req[r].op = "delete" /\ req[r].stage < 3 /\ req[r].what \notin lists[l]
       /\ Go(r, Done(r, l))
       /\ known' = known \cup {<<l, req[r].what>>}
  /\ UNCHANGED <<menu, edits, things, lists, intended, cleared>>

\* Last, a group of the same name, taken for the primary group.  The %name in sudo
\* roles is not rewritten, and nothing says so.
RenamePrimary(r) ==
  LET g == <<"group", req[r].what[2]>>
      g2 == <<"group", req[r].to[2]>>
  IN /\ req[r].pc = "primary"
     /\ \/ /\ g \in things /\ g2 \in Thing \ things
           /\ things' = (things \ {g}) \cup {g2}
           /\ lists' = Moved(lists, g, g2)
           /\ intended' = Moved(intended, g, g2)
           /\ known' = MovedPairs(g, g2) \cup AllVoid(g, lists')
           /\ GoUnseen(r, Idle, ListsOf(g) \cup ListsOf(g2))
        \/ /\ g \notin things \/ g2 \notin Thing \ things \/ menu \cap {"search", "call"} # {}
           /\ Go(r, Idle)
           /\ UNCHANGED <<things, lists, intended, known>>
     /\ UNCHANGED <<menu, edits, cleared>>

-----------------------------------------------------------------------------
(* Deleting. *)

Without(f, t) == [l \in Lists |-> IF Owner(l) = t THEN {} ELSE f[l]]

BeginDelete(r) ==
  /\ req[r] = Idle
  /\ \E t \in things :
       \/ /\ t[1] = "user" /\ "delete" \in menu
          /\ Go(r, [Idle EXCEPT !.pc = "remove", !.op = "delete", !.what = t])
       \/ /\ t[1] = "group" /\ "deleteGroup" \in menu
          /\ Go(r, [Idle EXCEPT !.pc = "leftovers", !.op = "deleteGroup", !.what = t])
       \/ /\ t[1] = "netgroup" /\ "deleteNetgroup" \in menu
          /\ Go(r, [Idle EXCEPT !.pc = "leftovers", !.op = "deleteNetgroup", !.what = t])
  /\ UNCHANGED <<menu, edits, things, lists, intended, cleared, known>>

\* Mutant: only the sudo roles are looked at.
NameSudoRoles(r) ==
  /\ req[r].pc = "leftovers"
  /\ Go(r, [req[r] EXCEPT !.pc = "remove",
                          !.named = {l \in Lists : l[1] = "sudoUser" /\ req[r].what \in lists[l]}])
  /\ UNCHANGED <<menu, edits, things, lists, intended, cleared, known>>

\* GroupDeleteLeftovers and the searches of handleDeleteNetgroup, while the name
\* still resolves; a search that fails is a warning about all of them.
NameLeftovers(r) ==
  /\ req[r].pc = "leftovers"
  /\ \E named \in {{l \in Lists : req[r].what \in lists[l]}}
                    \cup (IF "search" \in menu THEN {Lists} ELSE {}) :
       Go(r, [req[r] EXCEPT !.pc = "remove", !.named = named])
  /\ UNCHANGED <<menu, edits, things, lists, intended, cleared, known>>

\* The entry goes.  An account's references are cleaned up next; those of a group
\* or a netgroup stay where they are.
Remove(r) ==
  LET t == req[r].what
      kept == {p \in known : Owner(p[1]) # t}
      told == {p \in AllVoid(t, lists') : p[1] \in req[r].named \cup req[r].since}
  IN /\ req[r].pc = "remove"
     /\ t \in things
     /\ things' = things \ {t}
     /\ lists' = Without(lists, t)
     /\ intended' = Without(intended, t)
     /\ \/ /\ GoUnseen(r, IF t[1] = "user" THEN [req[r] EXCEPT !.pc = "read", !.stage = 1]
                          ELSE Idle, ListsOf(t))
           /\ known' = IF t[1] = "user" THEN kept ELSE kept \cup told
        \/ /\ "reply" \in menu
           /\ GoUnseen(r, Idle, ListsOf(t))
           /\ known' = kept \cup AllVoid(t, lists')
     /\ UNCHANGED <<menu, edits, cleared>>

\* memberUid and sudoUser lose one value; the triples that name the account go
\* with the rest of the list written back; a manager is cleared.
DropName(r) ==
  LET t == req[r].what IN
  /\ req[r].pc = "write" /\ req[r].op = "delete"
  /\ \E l \in req[r].todo :
       /\ Owner(l) \in things
       /\ req[r].stage < 3 => t \in lists[l]
       /\ LET left == IF l[1] = "manager" THEN {}
                      ELSE (IF l[1] = "triple" THEN req[r].read[l] ELSE lists[l]) \ {t}
          IN /\ WriteList(r, l, left, intended[l] \ {t}, Done(r, l))
             /\ known' = known \cup Void(l, left, things)
  /\ UNCHANGED <<menu, edits, cleared, things>>

\* The entry is gone, or the call fails, before anything was written.
ChangeFails(r) ==
  /\ req[r].pc \in {"move", "remove"}
  /\ \/ req[r].what \notin things \/ req[r].to \in things
     \/ "call" \in menu
  /\ Go(r, Idle)
  /\ UNCHANGED <<menu, edits, things, lists, intended, cleared, known>>

DeleteRole ==
  /\ "deleteRole" \in menu
  /\ \E t \in things :
       /\ t[1] = "role"
       /\ things' = things \ {t}
       /\ lists' = Without(lists, t)
       /\ intended' = Without(intended, t)
       /\ known' = {p \in known : Owner(p[1]) # t}
       /\ GoUnseen(None, Idle, ListsOf(t))
  /\ UNCHANGED <<menu, edits, cleared>>

-----------------------------------------------------------------------------
(* Creating entries and editing lists. *)

\* A name that is referred to is taken again (others would make no difference):
\* what was known to point nowhere points at the new entry.
Create ==
  /\ "create" \in menu
  /\ \E t \in (UNION {lists[l] : l \in Lists}) \cap (Thing \ things) :
       /\ things' = things \cup {t}
       /\ known' = {p \in known : p[2] # t}
       /\ GoUnseen(None, Idle, ListsOf(t))
  /\ UNCHANGED <<menu, edits, lists, intended, cleared>>

\* AddGroupMember, AddUserToSudoRole, AddGroupToSudoRole and their opposites: one
\* value, whatever the list holds.  A name that exists nowhere is accepted.
EditValue ==
  /\ "value" \in menu
  /\ \E e \in edits :
       LET l == e[1]
           ref == e[2]
       IN
       /\ l[1] \in {"memberUid", "sudoUser"} /\ Owner(l) \in things
       /\ \E vs \in {lists[l] \cup {ref}, lists[l] \ {ref}} \ {lists[l]} :
            /\ lists' = [lists EXCEPT ![l] = vs]
            /\ intended' = [intended EXCEPT
                 ![l] = IF ref \in vs THEN @ \cup {ref} ELSE @ \ {ref}]
            /\ known' = {p \in known : p # <<l, ref>>} \cup Void(l, vs \cap {ref}, things)
       /\ GoUnseen(None, Idle, {l})
  /\ UNCHANGED <<menu, edits, cleared, things>>

\* A form loads the values it can show, and sends them all back with one more or
\* one less, or leaves the attribute out.
OpenForm(r) ==
  /\ req[r] = Idle /\ "form" \in menu
  /\ \E e \in edits :
       LET l == e[1]
           ref == e[2]
           shown == lists[l] \ {Unreadable}
       IN
       /\ Owner(l) \in things
       /\ \E new \in {shown \cup {ref}, shown \ {ref}, None} :
            Go(r, [Idle EXCEPT !.pc = "form", !.op = "form", !.todo = {l}, !.new = new,
                               !.read = [NoLists EXCEPT ![l] = shown]])
  /\ UNCHANGED <<menu, edits, things, lists, intended, cleared, known>>

\* handleUpdateNetgroup reads the values the form could not show.
KeepUnreadable(r) ==
  /\ req[r].pc = "form"
  /\ \E l \in req[r].todo :
       Go(r, IF Owner(l) \notin things THEN Idle
             ELSE [req[r] EXCEPT !.pc = "save", !.unread = Unreadable \in lists[l]])
  /\ UNCHANGED <<menu, edits, things, lists, intended, cleared, known>>

\* What the write makes of the list: UpdateNetgroup writes the triples if the form
\* sent any or if there is an unreadable one to keep.
Saved(r, l) ==
  LET kept == IF req[r].unread THEN {Unreadable} ELSE {} IN
  IF req[r].new # None THEN req[r].new \cup kept
  ELSE IF kept # {} THEN kept ELSE lists[l]

\* A form that does not send the triples means to leave them alone.
SaveForm(r) ==
  /\ req[r].pc = "save"
  /\ \E l \in req[r].todo :
       LET vs == Saved(r, l)
           unsent == req[r].new = None
           delta == IF unsent THEN intended[l]
                    ELSE (intended[l] \ (req[r].read[l] \ req[r].new))
                           \cup (req[r].new \ req[r].read[l])
       IN \/ /\ Owner(l) \in things /\ (l[1] = "manager" => Single(vs))
             /\ WriteList(r, l, vs, delta, Idle)
             /\ cleared' = cleared \cup (IF unsent /\ req[r].unread THEN {l} ELSE {})
             /\ known' = known \cup Void(l, vs, things)
          \/ /\ Owner(l) \notin things \/ "call" \in menu \/ l[1] = "manager"
             /\ Go(r, Idle)
             /\ UNCHANGED <<lists, intended, cleared, known>>
  /\ UNCHANGED <<menu, edits, things>>

\* Another tool writes, or removes, a triple this one cannot read.
EditOutside ==
  /\ "outside" \in menu
  /\ \E l \in Lists :
       /\ l[1] = "triple" /\ Owner(l) \in things
       /\ \E vs \in {lists[l] \cup {Unreadable}, lists[l] \ {Unreadable}} \ {lists[l]} :
            /\ lists' = [lists EXCEPT ![l] = vs]
            /\ intended' = [intended EXCEPT ![l] = vs]
       /\ GoUnseen(None, Idle, {l})
  /\ UNCHANGED <<menu, edits, cleared, things, known>>

\* References a running request has yet to see to.
Due(r) ==
  IF req[r].pc \in {"read", "write"}
  THEN {p \in AllVoid(req[r].what, lists) :
          \/ \E i \in 1..Len(Attributes) :
               p[1][1] = Attributes[i] /\ i >= req[r].stage + (IF req[r].pc = "read" THEN 0 ELSE 1)
          \/ p[1] \in req[r].todo}
  ELSE {}

\* The process stops: whoever waited for an answer got none.
Crash ==
  /\ "crash" \in menu
  /\ req' = [r \in Requests |-> Idle]
  /\ known' = known \cup UNION {Due(r) : r \in Requests}
  /\ UNCHANGED <<menu, edits, things, lists, intended, cleared>>

Next ==
  \/ \E r \in Requests :
       \/ BeginRename(r) \/ Move(r) \/ ReadLists(r) \/ WriteSwapped(r) \/ WriteFails(r)
       \/ RenamePrimary(r) \/ BeginDelete(r) \/ NameLeftovers(r) \/ Remove(r) \/ DropName(r)
       \/ ChangeFails(r) \/ OpenForm(r) \/ KeepUnreadable(r) \/ SaveForm(r)
  \/ DeleteRole \/ Create \/ EditValue \/ EditOutside \/ Crash

Spec == Init /\ [][Next]_vars

-----------------------------------------------------------------------------
(* Properties. *)

\* A value of a list is lost, or comes back, only when two changes of the list
\* overlapped: rewriting whole lists (RenameUser, DeleteUser, RenameGroup,
\* UpdateNetgroup) otherwise changes what it is about and nothing else, the
\* triples that could not be read included.  One exception ("cleared"), against the
\* comment on UpdateNetgroupRequest: a form that sent no triples deletes those that
\* can be read, where UpdateNetgroup had unreadable ones to keep.
EditsAreLostOnlyToOverlap == \A l \in Lists \ cleared : lists[l] = intended[l]

\* A name that no entry has any more stays in a list only if somebody knows: it
\* was typed there, a warning or an error named the list, two changes of the list
\* overlapped, or a rename or deletion is yet to see to it.  (The %name of the group
\* RenameUser renames with its account is the exception: nobody is told of it.)  An
\* entry created later under that name would be granted what the list grants.
DanglingIsKnown ==
  \A l \in Lists : \A ref \in lists[l] \cap (Thing \ things) :
    <<l, ref>> \in known \cup UNION {Due(r) : r \in Requests}

\* Following the nesting finds what the paths of the graph lead to, and says who is
\* nearest, what is open and what is missing, whatever loops there are.
ExpansionIsReachability ==
  \A n \in Netgroups : Walk!ExpandsToReachable(Graph, n) /\ Walk!LoopsAreReported(Graph, n)

\* The two directions agree: a netgroup is among those that contain an account
\* (which decides its sudo roles) if and only if expanding it names the account.
MembershipsMirrorExpansion ==
  \A n \in Netgroups : \A u \in {"user"} \X Uids :
    n \in Walk!ContainingUser(Graph, u) <=> u \in DOMAIN Walk!Expand(Graph, n).via
=============================================================================
