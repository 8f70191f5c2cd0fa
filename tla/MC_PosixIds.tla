---------------------------- MODULE MC_PosixIds ----------------------------
EXTENDS PosixIds, TLC

CONSTANTS n1, n2, r1, r2

MC_Names == {n1, n2}
MC_Requests == {r1, r2}

\* One account with a SID of each scheme, or of none, and the groups.
Account(n, m, sid) == [uid |-> n, gid |-> m, rid |-> sid]
From(m, rows, u1, u2, g1, g2) ==
  [menu |-> m, rows |-> rows, users |-> n1 :> u1 @@ n2 :> u2, groups |-> n1 :> g1 @@ n2 :> g2]

Form(n, uid, gid, primary) == [name |-> n, uid |-> uid, gid |-> gid, primary |-> primary]

\* Forms that leave the numbers to the server, ask for them, or name a group;
\* and those of a change.
Free(n)    == Form(n, 0, 0, TRUE)
Fixed(n)   == Form(n, 1, 2, TRUE)
Joining(n) == Form(n, 0, 1, FALSE)
To(n, uid, gid) == Form(n, uid, gid, FALSE)

MC_Starts ==
  {From({"create", "reply"}, {Free(n1), Free(n2), Fixed(n2)}, Absent, Absent, 0, 0),
   From({"create", "createGroup", "call", "crash"}, {Free(n1), Joining(n1)}, Absent, Account(1, 1, 0), 0, 0),
   From({"create", "deleteUser", "call"}, {Free(n1), Fixed(n1)}, Absent, Account(1, 1, 0), 1, 0),
   From({"import"}, {Fixed(n1), Fixed(n2), Free(n1), Form(n2, 2, 2, FALSE)}, Absent, Absent, 0, 0),
   From({"change", "call", "lookup"}, {To(n1, 3, 2), To(n2, 3, 0), To(n1, 2, 0)}, Account(1, 1, 1), Account(2, 2, 14), 1, 0),
   From({"change", "reply", "crash"}, {To(n1, 2, 3), To(n1, 0, 2), To(n2, 1, 1)}, Account(1, 1, 12), Account(3, 2, 7), 2, 1),
   From({"change", "create", "deleteUser"}, {Fixed(n2), To(n1, 2, 0), To(n2, 2, 3)}, Account(1, 1, 12), Absent, 1, 0),
   From({"deleteGroup", "createGroup", "reply", "lookup"}, {Fixed(n1), Free(n1), Free(n2)}, Account(1, 1, 0), Account(2, 1, 0), 1, 0),
   From({"deleteGroup", "change", "createGroup"}, {To(n2, 0, 2), To(n1, 3, 1), To(n1, 0, 3)}, Account(1, 2, 0), Account(2, 1, 0), 1, 2),
   From({"deleteGroup", "create", "call"}, {Joining(n1), Free(n1)}, Absent, Account(1, 1, 0), 0, 1)}

Symmetry == Permutations(MC_Requests)
=============================================================================
