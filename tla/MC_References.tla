--------------------------- MODULE MC_References ---------------------------
EXTENDS References, TLC

CONSTANTS ann, bea, role1, net1, net2, net3, r1, r2

MC_Uids == {ann, bea}
MC_Cns == {ann, bea}      \* groups can be named after accounts
MC_Roles == {role1}
MC_Nets == {net1, net2, net3}
MC_Requests == {r1, r2}

User(x) == <<"user", x>>
Group(x) == <<"group", x>>
Net(x) == <<"netgroup", x>>
Role(x) == <<"role", x>>

\* Lists that are not named are empty.
From(ops, ts, f, es) ==
  [menu |-> ops, things |-> ts, edits |-> es,
   lists |-> [l \in Lists |-> IF l \in DOMAIN f THEN f[l] ELSE {}]]

Members(x, vs)  == <<"memberUid", x>> :> vs
SudoUser(vs)    == <<"sudoUser", role1>> :> vs
Triples(x, vs)  == <<"triple", x>> :> vs
Nesting(x, vs)  == <<"nesting", x>> :> vs
ManagerOf(x, y) == <<"manager", x>> :> {User(y)}

\* All graphs of three netgroups, one of which may be missing.
Graphs ==
  {From({}, ts, Triples(net1, t) @@ Triples(net2, u) @@ Nesting(net1, x) @@ Nesting(net2, y) @@
        (IF Net(net3) \in ts THEN Triples(net3, {User(ann)}) @@ Nesting(net3, z) ELSE <<>>), {}) :
     ts \in {{Net(net1), Net(net2)}, {Net(net1), Net(net2), Net(net3)}},
     t \in {{}, {User(ann)}, {Anyone, User(bea)}}, u \in {{User(ann)}, {Nothing, Anyone}},
     x, y, z \in SUBSET {Net(net1), Net(net2), Net(net3)}}

MC_Starts ==
  Graphs \cup
  {From({"rename", "value", "call", "search"}, {User(ann), Group(bea), Role(role1)},
        Members(bea, {User(ann)}) @@ SudoUser({User(ann), Anyone}),
        {<<<<"sudoUser", role1>>, User(bea)>>, <<<<"memberUid", bea>>, User(ann)>>}),
   From({"rename", "form", "outside"}, {User(ann), Net(net1)}, Triples(net1, {User(ann), Unreadable}),
        {<<<<"triple", net1>>, User(bea)>>}),
   From({"delete", "form", "create", "call"}, {User(ann), Net(net1), Role(role1)},
        Triples(net1, {User(ann), Nothing}) @@ SudoUser({User(ann)}),
        {<<<<"triple", net1>>, User(ann)>>}),
   From({"delete", "rename", "reply", "crash"}, {User(ann), User(bea), Group(ann), Role(role1)},
        ManagerOf(bea, ann) @@ ManagerOf(ann, ann) @@ Members(ann, {User(ann)}) @@ SudoUser({Group(ann), User(bea)}), {}),
   From({"delete", "value", "create", "deleteRole"}, {User(ann), Group(bea), Role(role1)},
        Members(bea, {User(ann)}) @@ SudoUser({User(ann), Group(bea)}), {<<<<"sudoUser", role1>>, User(ann)>>}),
   From({"renameGroup", "deleteGroup", "value", "search"}, {Group(ann), Role(role1), User(ann)}, SudoUser({Group(ann)}),
        {<<<<"sudoUser", role1>>, Group(ann)>>, <<<<"sudoUser", role1>>, Group(bea)>>}),
   From({"deleteNetgroup", "form", "create"}, {Net(net1), Net(net2), Role(role1)},
        Nesting(net2, {Net(net1)}) @@ SudoUser({Net(net1)}), {<<<<"nesting", net2>>, Net(net1)>>, <<<<"sudoUser", role1>>, Net(net1)>>})}

Symmetry == Permutations(MC_Requests)
=============================================================================
