--------------------------- MODULE MC_Directory ---------------------------
(* Small directories: one or two accounts, two policies, a clock of four instants. *)
EXTENDS DirectoryChanges, TLC

CONSTANTS ann, bea, pol1, pol2, r1, r2

MC_Accounts == {ann, bea}
MC_Policies == {pol1, pol2}
MC_Readers == {r1}
MC_Writers == {r2}

Plain == [lock |-> None, end |-> None, own |-> None, fails |-> 0]
LockedAt(t, own) == [Plain EXCEPT !.lock = t, !.own = own, !.fails = IF t \in Instants THEN MaxFailures ELSE 0]
Only(e) == ann :> e @@ bea :> None
Both(e, f) == ann :> e @@ bea :> f

\* Both policies listed and readable, the default configured as the server has it.
Setting(may, es, ps) ==
  [may |-> may, entry |-> es, policy |-> ps, listed |-> {pol1, pol2}, readable |-> {pol1, pol2},
   configured |-> pol1, server |-> pol1, expiry |-> TRUE, skew |-> 0, database |-> 0, cycle |-> 2, at |-> {0},
   dates |-> {2}, durations |-> {0, 2}, windows |-> {<<0, None>>, <<1, 2>>},
   room |-> 2]
Lasting(d, e) == pol1 :> d @@ pol2 :> e

\* What the figures and the rows make of every kind of entry and setting.
Pictures ==
  {[Setting({}, Both(LockedAt(l, o), Plain), Lasting(d, 2)) EXCEPT
      !.listed = li, !.readable = re, !.configured = c] :
     l \in {None, Permanent, Garbled, 0}, o \in {None, pol1, pol2}, d \in {None, 0, 1},
     li \in SUBSET {pol1, pol2}, re \in {{pol1}, {pol1, pol2}}, c \in {None, pol1}}

MC_Starts ==
  Pictures \cup
  {Setting({"list", "members", "handLock"}, Both(LockedAt(0, None), LockedAt(0, pol2)), Lasting(1, 2)),
   Setting({"list", "overview", "updatePolicy", "deletePolicy", "createPolicy", "bind"}, Only(LockedAt(0, None)), Lasting(2, 0)),
   Setting({"overview", "provision", "limit", "listing"}, Both(LockedAt(0, pol1), Plain), Lasting(2, 0)),
   Setting({"overview", "lock", "unlock"}, Both(LockedAt(0, None), LockedAt(Permanent, None)), Lasting(2, 0)),
   Setting({"overview", "list", "expire", "unexpire"}, Only([Plain EXCEPT !.end = 1]), Lasting(1, 0)),
   [Setting({"overview", "list", "expire", "unexpire", "bind"}, Only(LockedAt(0, None)), Lasting(1, 0)) EXCEPT
      !.expiry = FALSE]} \cup
  {[Setting(may, Both(Plain, LockedAt(0, pol2)), Lasting(d, 3)) EXCEPT !.cycle = c, !.at = {0}, !.listed = l] :
     may \in {{"bind", "scan"}, {"bind", "scan", "down", "handLock"},
             {"bind", "scan", "updatePolicy"}},
     d \in {1, 2}, c \in {1, 2}, l \in {{pol2}, {pol1, pol2}}} \cup
  {[Setting({"bind", "scan"}, Both(Plain, LockedAt(0, pol2)), Lasting(2, 3)) EXCEPT !.cycle = 4, !.at = {0, 1}]} \cup
  {[Setting({"scan", "down", "listing", "database", "trigger"}, Only(Plain), Lasting(2, 0)) EXCEPT
      !.cycle = c, !.at = {0}, !.database = d] : c \in {1, 2, 3}, d \in {-1, 0, 1}} \cup
  {[Setting({"log", "provision"}, Only(Plain), Lasting(1, 0)) EXCEPT !.room = 4]} \cup
  {[Setting({"log"} \cup z[1], Only(Plain), Lasting(1, 0)) EXCEPT !.skew = z[2], !.windows = {<<0, None>>}] :
     z \in {<<{"bind", "lock"}, 0>>, <<{"bind", "lock"}, 1>>, <<{"handLock", "refresh", "lock"}, -1>>,
            <<{"ownPassword", "handLock"}, 0>>}}
=============================================================================
