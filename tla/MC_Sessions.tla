---------------------------- MODULE MC_Sessions ----------------------------
(* Small instances of Sessions.  Tokens and request slots are interchangeable; *)
(* the users are not, for some of them start as administrators.                *)
EXTENDS Sessions, TLC

CONSTANTS alice, bob, carol, r1, r2, t1, t2

MCUsers == {alice, bob, carol}
FirstTwo == {alice, bob}
MCRequests == {r1, r2}
MCTokens == {t1, t2}
OneAdmin == {alice}

Symmetry == Permutations(MCRequests) \cup Permutations(MCTokens)

\* A behaviour takes one of these menus: the operations administrators and
\* users call in it, and "lockout" or "outside" where ppolicy locks accounts or
\* another program edits the directory.
Menus == {{"delete", "create"},
          {"removePassword", "resetPassword"},
          {"updateGroup"},
          {"addMember", "updateUser", "setPassword"},
          {"rename", "addMember"},
          {"lock", "unlock", "lockout"},
          {"ownPassword", "expire", "unexpire"},
          {"removeMember", "outside"}}

\* Where no failure stops a handler.  "alone": one request at a time is an
\* administrator's or a change of one's own password, the others sign in.
FairMenus == {{"updateGroup", "alone"}, {"ownPassword", "alone"}, {"delete"}, {"rename"},
              {"lock", "lockout"}, {"setPassword"}, {"expire"}, {"removeMember"}}

VARIABLE menu

\* A rename needs a free name beside two accounts: alice administers, bob is
\* the one promoted and renamed, carol is free until then.  Two users are
\* enough for the other menus, where nothing is done to carol.  The entries
\* another program leaves are whole or gone.  A list of members that is sent
\* names somebody: the menus that remove one empty the group.
Bounded ==
  /\ \A r \in Requests :
       /\ req'[r].op \in menu \cup {"login", None}
       /\ req'[r].op = "create" => req'[r].target = bob
       /\ req'[r].op = "updateGroup" => req'[r].wanted # {}
       /\ IF "rename" \in menu
          THEN req'[r].op # "login" => req'[r].target # alice /\ req'[r].to # bob
          ELSE carol \notin {req'[r].target} \cup req'[r].wanted
  /\ "alone" \in menu => req'[r2].op \in {"login", None}
  /\ "lockout" \notin menu => \A u \in Users : "lockedOut" \notin flags'[u]
  /\ "outside" \in menu => flags'[bob] \in {{}, {"gone"}}
  /\ UNCHANGED menu

MCNext ==
  /\ Serve \/ ("outside" \in menu /\ EditOutside(bob))
  /\ Bounded

MCInit == Init /\ menu \in Menus

MCSpec == MCInit /\ [][MCNext]_<<vars, menu>>

\* Handlers that run.
FairMCInit == Init /\ menu \in FairMenus

FairMCSpec == FairMCInit /\ [][MCNext]_<<vars, menu>> /\ Fairness
=============================================================================
