--------------------------- MODULE Directory_proofs ---------------------------
(***************************************************************************)
(* For any accounts, policies, settings, schedules and limits: what this   *)
(* program tells about locks, missed scans and logged changes is what the  *)
(* properties of PolicyLocks and DirectoryChanges promise.                 *)
(*                                                                         *)
(* Three invariants rest on the types: what the scan and its schedule left *)
(* behind (ScanInv), what a reading may still rely on (ReadInv), and what  *)
(* the log, the audit rows and the view have of each other (LogInv,        *)
(* ViewInv).                                                               *)
(***************************************************************************)
EXTENDS DirectoryChanges, FiniteSetTheorems, TLAPS

-----------------------------------------------------------------------------
(* Least and greatest elements, remainders *)

LEMMA Least ==
  ASSUME NEW S \in SUBSET Int, NEW b \in Int, \A x \in S : b <= x, S # {}
  PROVE  \E m \in S : \A x \in S : m <= x
<1> DEFINE T == {n \in Nat : b + n \in S}
<1>1. PICK x \in S : TRUE
  OBVIOUS
<1>2. x - b \in T
  BY <1>1
<1>3. PICK n \in T : \A k \in T : <<k, n>> \notin OpToRel(<, Nat)
  <2> HIDE DEF T
  <2>1. T \subseteq Nat /\ T # {}
    BY <1>2 DEF T
  <2> QED
    BY <2>1, NatLessThanWellFounded, WFMin, Zenon
<1>4. \A k \in T : ~(k < n)
  BY <1>3 DEF OpToRel
<1>5. \A y \in S : y - b \in T
  OBVIOUS
<1>6. ASSUME NEW y \in S PROVE b + n <= y
  <2>1. y - b \in T /\ y - b \in Int /\ n \in Int
    BY <1>5
  <2>2. ~(y - b < n)
    BY <1>4, <2>1
  <2> QED
    BY <2>1, <2>2
<1> QED
  BY <1>6

LEMMA Greatest ==
  ASSUME NEW S \in SUBSET Int, NEW b \in Int, \A x \in S : x <= b, S # {}
  PROVE  \E m \in S : \A x \in S : x <= m
<1> DEFINE T == {y \in Int : -y \in S}
<1>1. \A x \in S : -x \in T /\ -(-x) = x
  OBVIOUS
<1>2. \A y \in T : -b <= y
  OBVIOUS
<1>3. PICK m \in T : \A y \in T : m <= y
  <2>1. T \subseteq Int
    OBVIOUS
  <2>2. PICK x \in S : TRUE
    OBVIOUS
  <2>3. -x \in T
    BY <1>1
  <2>4. -b \in Int /\ T # {}
    BY <2>3
  <2> HIDE DEF T
  <2> QED
    BY <1>2, <2>1, <2>4, Least
<1>4. -m \in S /\ \A y \in S : y <= -m
  BY <1>1, <1>3
<1> QED
  BY <1>4

LEMMA Division ==
  ASSUME NEW c \in Nat \ {0}, NEW t \in Int
  PROVE  /\ t \div c \in Int /\ t % c \in 0..(c - 1)
         /\ t = (t \div c) * c + (t % c)
<1>1. t = c * (t \div c) + (t % c)
  OBVIOUS
<1>2. t \div c \in Int /\ t % c \in 0..(c - 1)
  OBVIOUS
<1>3. c * (t \div c) = (t \div c) * c
  BY <1>2
<1> QED
  BY <1>1, <1>2, <1>3

LEMMA Remainder ==
  ASSUME NEW c \in Nat \ {0}, NEW q \in Int, NEW r \in 0..(c - 1)
  PROVE  (q * c + r) % c = r
  OBVIOUS

\* Every remainder comes up within a cycle.
LEMMA ComesRound ==
  ASSUME NEW c \in Nat \ {0}, NEW t \in Int, NEW r \in 0..(c - 1)
  PROVE  \E f \in (t + 1)..(t + c) : f % c = r
<1> DEFINE q == t \div c
           s == t % c
<1>1. q \in Int /\ s \in 0..(c - 1) /\ t = q * c + s
  BY Division
<1> HIDE DEF q, s
<1>2. CASE r > s
  <2>1. q * c + r \in (t + 1)..(t + c)
    <3>1. q * c \in Int
      BY <1>1
    <3> DEFINE m == q * c
    <3> HIDE DEF m
    <3>2. m \in Int /\ t = m + s
      BY <1>1, <3>1 DEF m
    <3>3. m + r \in (t + 1)..(t + c)
      BY <1>1, <1>2, <3>2
    <3> QED
      BY <3>3 DEF m
  <2> QED
    BY <1>1, <2>1, Remainder
<1>3. CASE r <= s
  <2>1. (q + 1) * c = q * c + c
    BY <1>1
  <2>2. q * c + c + r \in (t + 1)..(t + c)
    <3>1. q * c \in Int
      BY <1>1
    <3> DEFINE m == q * c
    <3> HIDE DEF m
    <3>2. m \in Int /\ t = m + s
      BY <1>1, <3>1 DEF m
    <3>3. m + c + r \in (t + 1)..(t + c)
      BY <1>1, <1>3, <3>2
    <3> QED
      BY <3>3 DEF m
  <2>3. ((q + 1) * c + r) % c = r
    BY <1>1, Remainder
  <2>4. (q * c + c + r) % c = r
    BY <2>1, <2>3
  <2> QED
    BY <2>2, <2>4
<1> QED
  BY <1>1, <1>2, <1>3

-----------------------------------------------------------------------------
(* The schedule *)

LEMMA NextDueIs ==
  ASSUME start \in Starts, NEW t \in Int
  PROVE  /\ NextDue(t) \in Int /\ t < NextDue(t) /\ Due(NextDue(t))
         /\ \A g \in Int : t < g /\ g < NextDue(t) => ~Due(g)
<1> DEFINE c == start.cycle
           S == {f \in (t + 1)..(t + c) : Due(f)}
<1>1. c \in Nat \ {0} /\ start.at # {} /\ start.at \subseteq 0..(c - 1)
  BY StartsAssumption DEF IsSetting
<1>2. PICK o \in start.at : TRUE
  BY <1>1
<1>3. o \in 0..(c - 1)
  BY <1>1, <1>2
<1> HIDE DEF c
<1>4. PICK f \in (t + 1)..(t + c) : f % c = o
  BY <1>1, <1>3, ComesRound
<1>5. f \in S
  BY <1>2, <1>4 DEF Due, c
<1>6. S \in SUBSET Int /\ S # {} /\ \A x \in S : t <= x
  BY <1>1, <1>5
<1> DEFINE IsNext(g) == Due(g) /\ \A h \in (t + 1)..(g - 1) : ~Due(h)
<1>7. \E g \in (t + 1)..(t + c) : IsNext(g)
  <2>1. PICK m \in S : \A x \in S : m <= x
    <3> HIDE DEF S
    <3> QED
      BY <1>6, Least
  <2>2. \A h \in (t + 1)..(m - 1) : h \in (t + 1)..(t + c) /\ ~(m <= h)
    BY <1>1
  <2>3. IsNext(m)
    BY <2>1, <2>2
  <2> QED
    BY <2>3
<1>8. NextDue(t) = CHOOSE g \in (t + 1)..(t + c) : IsNext(g)
  BY DEF NextDue, c
<1> DEFINE n == NextDue(t)
<1>9. n \in (t + 1)..(t + c) /\ IsNext(n)
  <2> HIDE DEF IsNext
  <2> QED
    BY <1>7, <1>8
<1> HIDE DEF n
<1>10. n \in Int /\ t < n
  BY <1>1, <1>9
<1>11. \A g \in Int : t < g /\ g < n => g \in (t + 1)..(n - 1)
  BY <1>10
<1> QED
  BY <1>9, <1>10, <1>11 DEF n

-----------------------------------------------------------------------------
(* Types *)

PolicyOps == {"updatePolicy", "deletePolicy", "createPolicy"}
Places == {"idle", "read", "write", "listed", "resolve", "figures", "policies",
           "locked", "ended", "inactive", "answered"}

Counting == {"figures", "policies", "locked", "ended", "inactive"}

Ops == Edits \cup Looks \cup {None}
Objects == Accounts \cup Policies \cup {None}
Values == Instants \cup {None, Permanent, Garbled}
Entries == [Accounts -> Entry \cup {None}]
Caches == UNION {[S -> Instants \cup {None}] : S \in SUBSET Policies}
Filters == SUBSET [own : Policies \cup {None}, upTo : Int]
Answers == (SUBSET Accounts) \cup Nat \cup {None}
Request ==
  [pc : Places, op : Ops, on : Objects, row : Nat, read : Values, at : Int, since : Int,
   entries : Entries \cup {None}, cache : Caches, filter : Filters,
   total : Nat, locked : Nat, ended : Nat, limited : BOOLEAN,
   answer : Answers]

Attributes == {"modifyTimestamp", "pwdChangedTime", "pwdFailureTime", "pwdAccountLockedTime",
               "entry", "pwdEndTime", "pwdLockoutDuration", "userPassword"}
Actors == Accounts \cup {Root, Admin}
Row == [at : Int, actor : Actors, writes : BOOLEAN]
Change == [at : Instants, by : {"ppolicy", "hand", "app"}, actor : Actors, row : Nat,
           reqMod : (SUBSET Attributes) \ {{}}]
Watching == [open : SUBSET Accounts, running : SUBSET Accounts, touched : SUBSET Accounts]

\* A request that reads is at none of the places of one that writes.
Fitting ==
  {q \in Request :
     /\ q.op = None <=> q.pc = "idle"
     /\ q.pc \in {"idle", "read", "write"} <=> q.op \in Edits \cup {None}
     /\ q.pc \in {"listed", "resolve"} => q.entries \in Entries /\ q.op \in {"list", "members"}
     /\ q.pc \in Counting => q.op = "overview"
     /\ q.pc = "answered" => q.answer \in IF q.op = "overview" THEN Nat ELSE SUBSET Accounts
     /\ q.op \in Edits => q.on \in IF q.op \in PolicyOps THEN Policies ELSE Accounts}

\* The directory, and what the settings say of it.
Pictured ==
  /\ start \in Starts /\ now \in Instants
  /\ entry \in Entries
  /\ policy \in [Policies -> Instants \cup {None}]

Stored ==
  /\ Pictured
  /\ scan \in Ledger
  /\ req \in [Requests -> Fitting]
  /\ rows \in Seq(Row) /\ log \in Seq(Change)

Typed == Stored /\ watch \in [Requests -> Watching]

LEMMA Settings ==
  ASSUME start \in Starts
  PROVE  /\ start.listed \subseteq Policies /\ start.readable \subseteq Policies
         /\ start.configured \in Policies \cup {None} /\ start.server \in Policies \cup {None}
         /\ start.skew \in Int /\ start.database \in Int
         /\ start.dates \subseteq Instants /\ start.durations \subseteq Instants
  BY StartsAssumption DEF IsSetting

-----------------------------------------------------------------------------
(* What the program makes of a lock *)

LEMMA Clocks ==
  ASSUME Pictured
  PROVE  now \in Nat /\ AppClock \in Int /\ DatabaseClock \in Int
  BY Settings, BoundsAssumption DEF Pictured, Instants, AppClock, DatabaseClock

LEMMA PoliciesRead ==
  ASSUME Pictured, NEW p \in Policies \cup {None}
  PROVE  /\ GetPasswordPolicy(p) \in Instants \cup {None}
         /\ GetPasswordPolicy(p) # None =>
              p \in Policies /\ p \in start.readable /\ GetPasswordPolicy(p) = policy[p]
         /\ p \in DOMAIN ListPasswordPolicies =>
              /\ p \in Policies /\ p \in start.listed
              /\ policy[p] \in Instants /\ GetPasswordPolicy(p) = policy[p]
              /\ ListPasswordPolicies[p] = policy[p]
<1>1. None \notin Instants /\ None \notin Policies
  BY ValuesAssumption, BoundsAssumption DEF Instants
<1> QED
  BY <1>1, Settings DEF Pictured, GetPasswordPolicy, ListPasswordPolicies

LEMMA LockValues ==
  /\ None \notin Instants /\ Permanent \notin Instants /\ Garbled \notin Instants
  /\ \A t \in Instants : t \in Nat
  /\ None # Permanent /\ None # Garbled /\ Permanent # Garbled
  BY ValuesAssumption, BoundsAssumption DEF Instants

LEMMA Reported ==
  ASSUME NEW lock \in Instants \cup {None, Permanent, Garbled},
         NEW d \in Instants \cup {None}, NEW t \in Int
  PROVE  ~Locked(lockoutFor(lock, d, t)) <=>
           \/ lock = None
           \/ lock \in Instants /\ d # None /\ d > 0 /\ t >= lock + d
<1>1. CASE lock \notin Instants
  BY <1>1, LockValues DEF Locked, lockoutFor
<1>2. CASE lock \in Instants /\ d = None
  BY <1>2, LockValues DEF Locked, lockoutFor
<1>3. CASE lock \in Instants /\ d # None
  <2>1. lockoutFor(lock, d, t) = IF d > 0 /\ t >= lock + d THEN "lifted" ELSE "active"
    BY <1>3, LockValues DEF lockoutFor
  <2> QED
    BY <1>3, <2>1, LockValues DEF Locked
<1> QED
  BY <1>1, <1>2, <1>3

\* A branch of the filter is a policy whose duration has passed.
LEMMA FilterLapses ==
  ASSUME Pictured, NEW e \in Entry, NEW t \in Int
  PROVE  Lapsed(e, LapsedFilter(ListPasswordPolicies, t)) <=>
           /\ e.lock \in Instants
           /\ PolicyDN(e) \in DOMAIN ListPasswordPolicies
           /\ policy[PolicyDN(e)] > 0 /\ e.lock <= t - policy[PolicyDN(e)]
<1> DEFINE L == ListPasswordPolicies
<1>1. \A p \in DOMAIN L : p \in Policies /\ p # None /\ L[p] = policy[p] /\ policy[p] \in Nat
  <2> TAKE p \in DOMAIN L
  <2>1. p \in Policies
    BY Settings DEF ListPasswordPolicies, Pictured
  <2> QED
    BY <2>1, PoliciesRead, LockValues, ValuesAssumption
<1>2. e.own \in Policies \cup {None}
  BY DEF Entry
<1> HIDE DEF L
<1>3. ASSUME NEW b \in LapsedFilter(L, t), b.own = e.own
      PROVE  PolicyDN(e) \in DOMAIN L /\ L[PolicyDN(e)] > 0 /\ b.upTo = t - L[PolicyDN(e)]
  BY <1>1, <1>3 DEF LapsedFilter, PolicyDN
<1>4. ASSUME PolicyDN(e) \in DOMAIN L, L[PolicyDN(e)] > 0
      PROVE  [own |-> e.own, upTo |-> t - L[PolicyDN(e)]] \in LapsedFilter(L, t)
  BY <1>1, <1>4 DEF LapsedFilter, PolicyDN
<1>5. Lapsed(e, LapsedFilter(L, t)) <=>
        /\ e.lock \in Instants
        /\ PolicyDN(e) \in DOMAIN L /\ L[PolicyDN(e)] > 0 /\ e.lock <= t - L[PolicyDN(e)]
  BY <1>3, <1>4 DEF Lapsed
<1> QED
  BY <1>1, <1>5 DEF L

LEMMA FiguresAgree ==
  ASSUME Pictured
  PROVE  FiguresAgreeWithRows
<1> SUFFICES ASSUME NEW a \in There
    PROVE LET e == entry[a]
              row == lockoutFor(e.lock, GetPasswordPolicy(PolicyDN(e)), AppClock)
              figure == LockedNow(e, LapsedFilter(ListPasswordPolicies, AppClock))
          IN  /\ Locked(row) => figure
              /\ figure /\ PolicyDN(e) \in DOMAIN ListPasswordPolicies => Locked(row)
  BY DEF FiguresAgreeWithRows
<1> DEFINE e == entry[a]
           p == PolicyDN(e)
           d == GetPasswordPolicy(p)
<1>1. e \in Entry /\ AppClock \in Int
  BY Clocks DEF Pictured, There, Entries
<1>2. p \in Policies \cup {None} /\ e.lock \in Instants \cup {None, Permanent, Garbled}
  BY <1>1, Settings DEF PolicyDN, Entry, Pictured
<1> HIDE DEF e
<1>3. d \in Instants \cup {None}
  BY <1>2, PoliciesRead
<1>4. Lapsed(e, LapsedFilter(ListPasswordPolicies, AppClock)) <=>
        /\ e.lock \in Instants /\ p \in DOMAIN ListPasswordPolicies
        /\ policy[p] > 0 /\ e.lock <= AppClock - policy[p]
  BY <1>1, FilterLapses
<1>5. p \in DOMAIN ListPasswordPolicies => d = policy[p] /\ d \in Instants
  BY <1>2, PoliciesRead
<1> HIDE DEF p, d
<1>6. ~Locked(lockoutFor(e.lock, d, AppClock)) <=>
        \/ e.lock = None
        \/ e.lock \in Instants /\ d # None /\ d > 0 /\ AppClock >= e.lock + d
  BY <1>1, <1>2, <1>3, Reported
<1> DEFINE row == Locked(lockoutFor(e.lock, d, AppClock))
           lapsed == Lapsed(e, LapsedFilter(ListPasswordPolicies, AppClock))
           figure == LockedNow(e, LapsedFilter(ListPasswordPolicies, AppClock))
           open == d # None /\ d > 0 /\ AppClock >= e.lock + d
<1>7. figure <=> e.lock # None /\ ~lapsed
  BY DEF LockedNow
<1>8. ~row <=> e.lock = None \/ (e.lock \in Instants /\ open)
  BY <1>6
<1> HIDE DEF row, lapsed, figure
<1>9. ASSUME p \in DOMAIN ListPasswordPolicies
      PROVE  lapsed <=> e.lock \in Instants /\ open
  <2>1. d = policy[p] /\ d \in Nat /\ d # None
    BY <1>5, <1>9, LockValues
  <2>2. e.lock \in Instants => (e.lock <= AppClock - d <=> AppClock >= e.lock + d)
    <3>1. \A l, t, n \in Int : l <= t - n <=> t >= l + n
      OBVIOUS
    <3>2. e.lock \in Instants => e.lock \in Int
      <4> DEFINE l == e.lock
      <4> HIDE DEF l
      <4>1. l \in Instants => l \in Int
        BY LockValues
      <4> QED
        BY <4>1 DEF l
    <3>3. d \in Int
      BY <2>1
    <3> QED
      BY <1>1, <3>1, <3>2, <3>3
  <2>3. lapsed <=> e.lock \in Instants /\ d > 0 /\ e.lock <= AppClock - d
    BY <1>4, <1>9, <2>1 DEF lapsed
  <2> QED
    BY <2>1, <2>2, <2>3
<1>10. lapsed => p \in DOMAIN ListPasswordPolicies
  BY <1>4 DEF lapsed
<1> HIDE DEF open
<1>11. (row => figure) /\ (figure /\ p \in DOMAIN ListPasswordPolicies => row)
  BY <1>7, <1>8, <1>9, <1>10
<1> QED
  BY <1>11 DEF e, p, d, row, figure

-----------------------------------------------------------------------------
(* Types hold *)

LEMMA IdleFits == Idle \in Fitting
<1>1. <<>> \in [{} -> Instants \cup {None}]
  OBVIOUS
<1>2. <<>> \in Caches /\ {} \in Filters
  BY <1>1 DEF Caches, Filters
<1>3. /\ "idle" \in Places /\ None \in Ops /\ None \in Objects /\ None \in Values
      /\ None \in Answers /\ 0 \in Nat /\ FALSE \in BOOLEAN
  BY DEF Places, Ops, Objects, Values, Answers
<1>4. Idle \in Request
  BY <1>2, <1>3 DEF Idle, Request
<1> QED
  BY <1>4, NoneAssumption DEF Idle, Fitting, Counting

LEMMA Sizes ==
  ASSUME NEW S \in SUBSET Accounts
  PROVE  IsFiniteSet(S) /\ Cardinality(S) \in Nat
  BY AccountsAssumption, FS_Subset, FS_CardinalityType

\* The actions of a request that only reads.
Glance(r) ==
  \/ SearchUsersPage(r) \/ GroupMembers(r) \/ NewResolver(r) \/ ResolvePolicy(r) \/ AnswerList(r)
  \/ CountUsers(r) \/ AskTime(r) \/ ListPolicies(r) \/ CountLocked(r)
  \/ CountEnded(r) \/ AnswerOverview(r) \/ Dismiss(r)

LEMMA WantedArePolicies ==
  ASSUME Pictured, NEW es \in Entries, NEW p \in Wanted(es)
  PROVE  p \in Policies
<1>1. PICK a \in Accounts : es[a] # None /\ p = PolicyDN(es[a]) /\ p # None
  BY DEF Wanted, Timestamped
<1>2. es[a].own \in Policies \cup {None}
  BY <1>1 DEF Entries, Entry
<1> QED
  BY <1>1, <1>2, Settings DEF PolicyDN, Pictured

LEMMA FilterTyped ==
  ASSUME Pictured, NEW t \in Int
  PROVE  LapsedFilter(ListPasswordPolicies, t) \in Filters
<1>1. \A p \in DOMAIN ListPasswordPolicies : p \in Policies /\ ListPasswordPolicies[p] \in Int
  <2> TAKE p \in DOMAIN ListPasswordPolicies
  <2>1. p \in Policies
    BY Settings DEF ListPasswordPolicies, Pictured
  <2> QED
    BY <2>1, PoliciesRead, LockValues
<1> QED
  BY <1>1 DEF LapsedFilter, Filters

LEMMA GlanceFits ==
  ASSUME Typed, NEW r \in Requests, Glance(r)
  PROVE  /\ req' \in [Requests -> Fitting]
         /\ \A s \in Requests \ {r} : req'[s] = req[s]
         /\ UNCHANGED <<start, now, entry, policy, rows, log, scan>>
<1> DEFINE q == req[r]
<1>1. q \in Fitting /\ q \in Request
  BY DEF Typed, Stored, Fitting
<1>2. ASSUME NEW x \in Fitting, req' = [req EXCEPT ![r] = x]
      PROVE  /\ req' \in [Requests -> Fitting]
             /\ \A s \in Requests \ {r} : req'[s] = req[s]
  BY <1>2 DEF Typed, Stored
<1> HIDE DEF q
<1>3. ASSUME NEW op \in {"list", "members"}, BeginRows(r, op) PROVE req' \in [Requests -> Fitting]
  <2>1. req' = [req EXCEPT ![r] = [Idle EXCEPT !.op = op, !.pc = "listed", !.entries = entry]]
    BY <1>3 DEF BeginRows
  <2>2. [Idle EXCEPT !.op = op, !.pc = "listed", !.entries = entry] \in Fitting
    <3>1. op \in Ops /\ "listed" \in Places /\ entry \in Entries
      BY DEF Ops, Looks, Places, Typed, Stored, Pictured, Entries
    <3> QED
      BY IdleFits, <3>1, NoneAssumption DEF Fitting, Request, Edits, Looks, Counting
  <2> QED
    BY <1>2, <2>1, <2>2
<1>4. ASSUME NewResolver(r) PROVE req' \in [Requests -> Fitting]
  <2>1. [q EXCEPT !.pc = "resolve", !.at = AppClock] \in Fitting
    <3>1. AppClock \in Int /\ "resolve" \in Places
      BY Clocks DEF Typed, Stored, Places
    <3>2. q.pc = "listed"
      BY <1>4 DEF NewResolver, q
    <3> QED
      BY <1>1, <3>1, <3>2 DEF Fitting, Request, Counting
  <2> QED
    BY <1>2, <1>4, <2>1 DEF NewResolver, Typed, Stored, q
<1>5. ASSUME ResolvePolicy(r) PROVE req' \in [Requests -> Fitting]
  <2>1. q.pc = "resolve"
    BY <1>5 DEF ResolvePolicy, q
  <2>2. PICK p \in Wanted(q.entries) \ DOMAIN q.cache :
          req' = [req EXCEPT ![r].cache =
                    [x \in DOMAIN @ \cup {p} |-> IF x = p THEN GetPasswordPolicy(p) ELSE @[x]]]
    BY <1>5 DEF ResolvePolicy, q
  <2> DEFINE c == [x \in DOMAIN q.cache \cup {p} |-> IF x = p THEN GetPasswordPolicy(p) ELSE q.cache[x]]
  <2>3. q.cache \in Caches
    BY <1>1 DEF Request
  <2>4. p \in Policies
    BY <1>1, <2>1, <2>2, WantedArePolicies DEF Fitting, Typed, Stored
  <2>5. GetPasswordPolicy(p) \in Instants \cup {None}
    BY <2>4, PoliciesRead DEF Typed, Stored
  <2>6. c \in Caches
    <3>1. PICK S \in SUBSET Policies : q.cache \in [S -> Instants \cup {None}]
      BY <2>3 DEF Caches
    <3>2. c \in [S \cup {p} -> Instants \cup {None}]
      BY <2>5, <3>1
    <3> QED
      BY <2>4, <3>2 DEF Caches
  <2>7. req' = [req EXCEPT ![r] = [q EXCEPT !.cache = c]]
    BY <2>2 DEF q, Typed, Stored
  <2> HIDE DEF c
  <2>8. [q EXCEPT !.cache = c] \in Fitting
    BY <1>1, <2>1, <2>6 DEF Fitting, Request, Counting
  <2> QED
    BY <1>2, <2>7, <2>8
<1>6. ASSUME AnswerList(r) PROVE req' \in [Requests -> Fitting]
  <2> DEFINE usable == {a \in Accounts : /\ q.entries[a] # None
                                         /\ ~Locked(Resolved(q, q.entries[a]))
                                         /\ q.op = "list" => ~Expired(q.entries[a])}
  <2>1. /\ req' = [req EXCEPT ![r] = [Idle EXCEPT !.op = q.op, !.pc = "answered", !.answer = usable]]
        /\ q.pc = "resolve"
    BY <1>6 DEF AnswerList, q
  <2>2. usable \in Answers /\ usable \in SUBSET Accounts
    BY DEF Answers
  <2> HIDE DEF usable
  <2>3. q.op \in Ops \ (Edits \cup {None}) /\ q.op # "overview" /\ "answered" \in Places
    BY <1>1, <2>1, NoneAssumption DEF Request, Fitting, Places, Edits
  <2>4. [Idle EXCEPT !.op = q.op, !.pc = "answered", !.answer = usable] \in Fitting
    BY <2>2, <2>3, IdleFits DEF Fitting, Request, Counting
  <2> QED
    BY <1>2, <2>1, <2>4
<1>7. ASSUME NEW S \in SUBSET Accounts, NEW x \in Fitting, NEW n, Count(r, S, x, n)
      PROVE  /\ n \in Nat
             /\ [x EXCEPT !.limited = @ \/ n < Cardinality(S)] \in Fitting
             /\ req' = [req EXCEPT ![r] = [x EXCEPT !.limited = @ \/ n < Cardinality(S)]]
  <2>1. n \in Nat
    BY <1>7, Sizes DEF Count
  <2> DEFINE limited == x.limited \/ n < Cardinality(S)
  <2>2. limited \in BOOLEAN
    BY DEF Fitting, Request
  <2> HIDE DEF limited
  <2>3. [x EXCEPT !.limited = limited] \in Fitting
    BY <2>2 DEF Fitting, Request, Counting
  <2> QED
    BY <1>7, <2>1, <2>3 DEF Count, limited
<1>8. There \in SUBSET Accounts
  BY DEF There
<1>9. "overview" \in Ops \ (Edits \cup {None}) /\ Counting \subseteq Places
  BY NoneAssumption DEF Ops, Looks, Edits, Counting, Places
<1>10. ASSUME CountUsers(r) PROVE req' \in [Requests -> Fitting]
  <2>1. PICK n \in 0..Cardinality(There) :
          Count(r, There, [Idle EXCEPT !.op = "overview", !.pc = "figures",
                                       !.since = AppClock, !.total = n], n)
    BY <1>10 DEF CountUsers
  <2>2. n \in Nat /\ AppClock \in Int
    BY <1>8, Sizes, Clocks DEF Typed, Stored
  <2>3. [Idle EXCEPT !.op = "overview", !.pc = "figures", !.since = AppClock, !.total = n] \in Fitting
    BY <1>9, <2>2, IdleFits DEF Fitting, Request, Counting
  <2> QED
    BY <1>2, <1>7, <1>8, <2>1, <2>3
<1>11. ASSUME AskTime(r) PROVE req' \in [Requests -> Fitting]
  <2>1. [q EXCEPT !.pc = "policies", !.at = AppClock] \in Fitting
    <3>1. AppClock \in Int /\ q.pc = "figures"
      BY <1>11, Clocks DEF AskTime, q, Typed, Stored
    <3> QED
      BY <1>1, <1>9, <3>1 DEF Fitting, Request, Counting
  <2> QED
    BY <1>2, <1>11, <2>1 DEF AskTime, Typed, Stored, q
<1>12. ASSUME ListPolicies(r) PROVE req' \in [Requests -> Fitting]
  <2>1. PICK filter \in {LapsedFilter(ListPasswordPolicies, q.at)} \cup {{}} :
          req' = [req EXCEPT ![r].pc = "locked", ![r].filter = filter]
    BY <1>12 DEF ListPolicies, q
  <2>2. filter \in Filters
    BY <1>1, FilterTyped DEF Typed, Stored, Request, Filters
  <2>3. q.pc = "policies"
    BY <1>12 DEF ListPolicies, q
  <2>4. [q EXCEPT !.pc = "locked", !.filter = filter] \in Fitting
    BY <1>1, <1>9, <2>2, <2>3 DEF Fitting, Request, Counting
  <2> QED
    BY <1>2, <2>1, <2>4 DEF Typed, Stored, q
<1>13. ASSUME NEW pc \in {"ended", "inactive"}, NEW n \in Nat, q.pc \in Counting
       PROVE  /\ [q EXCEPT !.pc = pc, !.locked = n] \in Fitting
              /\ [q EXCEPT !.pc = pc, !.ended = n] \in Fitting
  BY <1>1, <1>9, <1>13 DEF Fitting, Request, Counting
<1>14. ASSUME CountLocked(r) PROVE req' \in [Requests -> Fitting]
  <2> DEFINE pc == IF start.expiry THEN "ended" ELSE "inactive"
  <2>1. PICK n \in 0..Cardinality(There) :
          Count(r, LockedBy(q.filter), [q EXCEPT !.pc = pc, !.locked = n], n)
    BY <1>14 DEF CountLocked, q
  <2>2. LockedBy(q.filter) \in SUBSET Accounts /\ n \in Nat
    BY <1>8, Sizes DEF LockedBy
  <2>3. pc \in {"ended", "inactive"} /\ q.pc \in Counting
    BY <1>14 DEF CountLocked, q, Counting
  <2> HIDE DEF pc
  <2>4. [q EXCEPT !.pc = pc, !.locked = n] \in Fitting
    BY <1>13, <2>2, <2>3
  <2> QED
    BY <1>2, <1>7, <2>1, <2>2, <2>4
<1>15. ASSUME CountEnded(r) PROVE req' \in [Requests -> Fitting]
  <2>1. PICK n \in 0..Cardinality(There) :
          Count(r, EndedBy(q.since), [q EXCEPT !.pc = "inactive", !.ended = n], n)
    BY <1>15 DEF CountEnded, q
  <2>2. EndedBy(q.since) \in SUBSET Accounts /\ n \in Nat
    BY <1>8, Sizes DEF EndedBy
  <2>3. [q EXCEPT !.pc = "inactive", !.ended = n] \in Fitting
    BY <1>13, <1>15, <2>2 DEF CountEnded, q, Counting
  <2> QED
    BY <1>2, <1>7, <2>1, <2>2, <2>3
<1>16. ASSUME AnswerOverview(r) PROVE req' \in [Requests -> Fitting]
  <2> DEFINE answered(n) == [Idle EXCEPT !.op = "overview", !.pc = "answered",
                                         !.limited = q.limited, !.answer = Active(q.total, n)]
             union == LockedBy(q.filter) \cup EndedBy(q.since)
  <2>1. \/ req' = [req EXCEPT ![r] = answered(0)]
        \/ req' = [req EXCEPT ![r] = answered(q.locked)]
        \/ \E n \in 0..Cardinality(There) : Count(r, union, answered(n), n)
    BY <1>16 DEF AnswerOverview, q
  <2>2. ASSUME NEW n \in Nat PROVE answered(n) \in Fitting
    <3>1. q.total \in Nat /\ q.limited \in BOOLEAN
      BY <1>1 DEF Request
    <3>2. Active(q.total, n) \in Nat
      BY <3>1 DEF Active
    <3> DEFINE x == Active(q.total, n)
    <3>3. x \in Nat /\ x \in Answers
      BY <3>2 DEF Answers
    <3> HIDE DEF x
    <3>4. [Idle EXCEPT !.op = "overview", !.pc = "answered", !.limited = q.limited, !.answer = x] \in Fitting
      BY <1>9, <3>1, <3>3, IdleFits DEF Fitting, Request, Counting, Places
    <3> QED
      BY <3>4 DEF x
  <2>3. q.locked \in Nat
    BY <1>1 DEF Request
  <2>4. union \in SUBSET Accounts /\ Cardinality(There) \in Nat
    BY <1>8, Sizes DEF LockedBy, EndedBy
  <2> HIDE DEF answered, union
  <2>5. CASE req' = [req EXCEPT ![r] = answered(0)]
    BY <1>2, <2>2, <2>5
  <2>6. CASE req' = [req EXCEPT ![r] = answered(q.locked)]
    BY <1>2, <2>2, <2>3, <2>6
  <2>7. ASSUME NEW n \in 0..Cardinality(There), Count(r, union, answered(n), n)
        PROVE  req' \in [Requests -> Fitting]
    <3>1. n \in Nat
      BY <2>4
    <3>2. answered(n) \in Fitting
      BY <2>2, <3>1
    <3> QED
      BY <1>2, <1>7, <2>4, <2>7, <3>2
  <2> QED
    BY <2>1, <2>5, <2>6, <2>7
<1>17. ASSUME Dismiss(r) PROVE req' \in [Requests -> Fitting]
  BY <1>2, <1>17, IdleFits DEF Dismiss
<1>18. req' \in [Requests -> Fitting]
  BY <1>3, <1>4, <1>5, <1>6, <1>10, <1>11, <1>12, <1>14, <1>15, <1>16, <1>17
     DEF Glance, SearchUsersPage, GroupMembers
<1>19. PICK x : req' = [req EXCEPT ![r] = x]
  BY DEF Glance, SearchUsersPage, GroupMembers, BeginRows, NewResolver, ResolvePolicy, AnswerList,
         CountUsers, AskTime, ListPolicies, CountLocked, CountEnded, AnswerOverview, Dismiss, Count
<1>20. UNCHANGED <<start, now, entry, policy, rows, log, scan>>
  BY DEF Glance, SearchUsersPage, GroupMembers, BeginRows, NewResolver, ResolvePolicy, AnswerList,
         CountUsers, AskTime, ListPolicies, CountLocked, CountEnded, AnswerOverview, Dismiss, Count
<1> QED
  BY <1>18, <1>19, <1>20 DEF Typed, Stored

\* What leaves a record, a row, and the ledger behind.
LEMMA RecordTyped ==
  ASSUME Typed, NEW by \in {"ppolicy", "hand", "app"}, NEW actor \in Actors,
         NEW wrote \in SUBSET Attributes, NEW row \in Nat, Record(by, actor, wrote, row)
  PROVE  log' \in Seq(Change)
<1>1. wrote \cup Maintained(wrote) \in (SUBSET Attributes) \ {{}}
  BY DEF Maintained, Attributes
<1>2. now \in Instants
  BY DEF Typed, Stored, Pictured
<1>3. [at |-> now, by |-> by, actor |-> actor, row |-> row, reqMod |-> wrote \cup Maintained(wrote)] \in Change
  BY <1>1, <1>2 DEF Change
<1> QED
  BY <1>3 DEF Record, Typed, Stored

LEMMA AuditTyped ==
  ASSUME Typed, NEW actor \in Actors, NEW writes \in BOOLEAN, Audit(actor, writes)
  PROVE  /\ rows' \in Seq(Row)
         /\ May("log") => /\ rows' = Append(rows, [at |-> DatabaseClock, actor |-> actor, writes |-> writes])
                          /\ Len(rows') = Len(rows) + 1
         /\ ~May("log") => rows' = rows
<1>1. [at |-> DatabaseClock, actor |-> actor, writes |-> writes] \in Row
  BY Clocks DEF Row, Typed, Stored
<1> QED
  BY <1>1 DEF Audit, Typed, Stored

LEMMA EditedTyped ==
  ASSUME Typed, NEW es \in SUBSET Accounts
  PROVE  Edited(es) \in Ledger
  BY DEF Edited, Typed, Stored, Ledger

\* The actions of a request that writes.
Edit(r) ==
  \/ BeginEdit(r) \/ ReadBeforeWrite(r) \/ GiveUp(r)
  \/ WriteLock(r) \/ WriteExpiry(r) \/ WritePolicy(r) \/ AddOrRemovePolicy(r) \/ WritePassword(r)

LEMMA BeginTyped ==
  ASSUME Typed, NEW r \in Requests, BeginEdit(r)
  PROVE  Stored'
<1>1. PICK op \in Edits \cap start.may :
        \E on \in (IF op \in PolicyOps THEN start.listed ELSE Accounts) :
          /\ Audit(IF op = "ownPassword" THEN on ELSE Admin, TRUE)
          /\ req' = [req EXCEPT ![r] = [Idle EXCEPT
                       !.op = op, !.on = on, !.row = Len(rows'),
                       !.pc = IF op \in {"lock", "unlock", "expire", "unexpire", "updatePolicy"}
                                THEN "read" ELSE "write"]]
  BY DEF BeginEdit, PolicyOps
<1>2. PICK on \in (IF op \in PolicyOps THEN start.listed ELSE Accounts) :
        /\ Audit(IF op = "ownPassword" THEN on ELSE Admin, TRUE)
        /\ req' = [req EXCEPT ![r] = [Idle EXCEPT
                     !.op = op, !.on = on, !.row = Len(rows'),
                     !.pc = IF op \in {"lock", "unlock", "expire", "unexpire", "updatePolicy"}
                              THEN "read" ELSE "write"]]
  BY <1>1
<1> DEFINE pc == IF op \in {"lock", "unlock", "expire", "unexpire", "updatePolicy"} THEN "read" ELSE "write"
           row == Len(rows')
<1>3. op = "ownPassword" => op \notin PolicyOps
  BY DEF PolicyOps
<1>4. /\ on \in IF op \in PolicyOps THEN Policies ELSE Accounts
      /\ (IF op = "ownPassword" THEN on ELSE Admin) \in Actors
  BY <1>2, <1>3, Settings DEF Typed, Stored, Pictured, Actors
<1>5. rows' \in Seq(Row) /\ row \in Nat
  <2> DEFINE actor == IF op = "ownPassword" THEN on ELSE Admin
  <2>1. actor \in Actors /\ Audit(actor, TRUE)
    BY <1>2, <1>4
  <2> HIDE DEF actor
  <2>2. rows' \in Seq(Row)
    BY <2>1, AuditTyped
  <2> QED
    BY <2>2
<1>6. op \in Edits /\ op \in Ops /\ on \in Objects /\ pc \in {"read", "write"} /\ pc \in Places
  BY <1>4 DEF Ops, Objects, Places
<1>7. req' = [req EXCEPT ![r] = [Idle EXCEPT !.op = op, !.on = on, !.row = row, !.pc = pc]]
  BY <1>2
<1> HIDE DEF pc, row
<1>8. [Idle EXCEPT !.op = op, !.on = on, !.row = row, !.pc = pc] \in Fitting
  BY <1>4, <1>5, <1>6, IdleFits, NoneAssumption DEF Fitting, Request, Counting
<1>9. req' \in [Requests -> Fitting]
  BY <1>7, <1>8 DEF Typed, Stored
<1> QED
  BY <1>5, <1>9 DEF BeginEdit, Typed, Stored, Pictured

LEMMA ReadTyped ==
  ASSUME Typed, NEW r \in Requests, ReadBeforeWrite(r)
  PROVE  Stored'
<1> DEFINE q == req[r]
           e == IF q.on \in Accounts THEN entry[q.on] ELSE None
           d == GetPasswordPolicy(q.on)
<1>1. q \in Fitting /\ q.pc = "read"
  BY DEF Typed, Stored, ReadBeforeWrite
<1>2. e # None => e.lock \in Values /\ e.end \in Values
  BY DEF Typed, Stored, Pictured, Entries, Entry, Values
<1>3. q.op = "updatePolicy" => d \in Values
  BY <1>1, PoliciesRead DEF Fitting, PolicyOps, Edits, Typed, Stored, Values
<1>4. ASSUME NEW value, NEW goesOn, goesOn => value \in Values, Found(r, value, goesOn)
      PROVE  req' \in [Requests -> Fitting]
  <2>1. CASE goesOn
    <3>1. [q EXCEPT !.read = value, !.pc = "write"] \in Fitting
      BY <1>1, <1>4, <2>1 DEF Fitting, Request, Counting, Places
    <3>2. req' = [req EXCEPT ![r] = [q EXCEPT !.read = value, !.pc = "write"]]
      BY <1>4, <2>1 DEF Found, Typed, Stored
    <3> QED
      BY <3>1, <3>2 DEF Typed, Stored
  <2>2. CASE ~goesOn
    BY <1>4, <2>2, IdleFits DEF Found, Typed, Stored
  <2> QED
    BY <2>1, <2>2
<1>5. None \in Values
  BY DEF Values
<1>6. \/ Found(r, IF e = None THEN None ELSE e.lock, e # None)
      \/ Found(r, None, IF e = None THEN FALSE ELSE e.lock # None)
      \/ Found(r, IF e = None THEN None ELSE e.end, e # None /\ start.expiry)
      \/ Found(r, None, IF e = None THEN FALSE ELSE e.end # None)
      \/ q.op = "updatePolicy" /\ Found(r, d, d # None)
  BY DEF ReadBeforeWrite
<1> HIDE DEF e, d, q
<1>7. req' \in [Requests -> Fitting]
  BY <1>2, <1>3, <1>4, <1>5, <1>6
<1> QED
  BY <1>7 DEF ReadBeforeWrite, Typed, Stored, Pictured

LEMMA GiveUpTyped ==
  ASSUME Typed, NEW r \in Requests, GiveUp(r)
  PROVE  Stored'
  BY IdleFits DEF GiveUp, Typed, Stored, Pictured

LEMMA WriteTyped ==
  ASSUME Typed, NEW r \in Requests, NEW wrote \in SUBSET Attributes, NEW holds,
         NEW es \in Entries, NEW ps \in [Policies -> Instants \cup {None}],
         NEW touched \in SUBSET Accounts, req[r].op = "ownPassword" => req[r].on \in Accounts,
         Write(r, wrote, holds, es, ps, touched)
  PROVE  Stored'
<1>1. (IF req[r].op = "ownPassword" THEN req[r].on ELSE Root) \in Actors /\ req[r].row \in Nat
  BY DEF Actors, Typed, Stored, Fitting, Request
<1>2. log' \in Seq(Change)
  BY <1>1, RecordTyped DEF Write
<1>3. scan' \in Ledger
  BY EditedTyped DEF Write
<1>4. req' \in [Requests -> Fitting]
  BY IdleFits DEF Write, Typed, Stored
<1> QED
  BY <1>2, <1>3, <1>4 DEF Write, Typed, Stored, Pictured

LEMMA EditTyped ==
  ASSUME Typed, NEW r \in Requests, Edit(r)
  PROVE  Stored'
<1> DEFINE q == req[r]
           a == q.on
<1>1. q \in Fitting
  BY DEF Typed, Stored
<1>2. /\ q.op \in {"lock", "unlock", "expire", "unexpire", "ownPassword"} => a \in Accounts
      /\ q.op \in PolicyOps => a \in Policies
      /\ q.op = "ownPassword" => a \in Accounts
  BY <1>1 DEF Fitting, PolicyOps, Edits
<1>3. entry \in Entries /\ policy \in [Policies -> Instants \cup {None}] /\ start \in Starts
  BY DEF Typed, Stored, Pictured
<1>4. \A p \in Policies : Governed(p) \in SUBSET Accounts
  BY DEF Governed
<1> HIDE DEF q
<1>5. ASSUME WriteLock(r) PROVE Stored'
  <2> DEFINE lock == IF q.op = "lock" THEN Permanent ELSE None
             es == [entry EXCEPT ![a] = [entry[a] EXCEPT !.lock = lock]]
  <2>1. a \in Accounts /\ entry[a] # None
    BY <1>2, <1>5 DEF WriteLock, q
  <2>2. [entry[a] EXCEPT !.lock = lock] \in Entry
    BY <1>3, <2>1 DEF Entries, Entry
  <2>3. es \in Entries
    BY <1>3, <2>1, <2>2 DEF Entries
  <2>4. PICK holds : Write(r, {"pwdAccountLockedTime"}, holds, es, policy, {a})
    BY <1>5 DEF WriteLock, Put, q
  <2> HIDE DEF es
  <2> QED
    BY <1>2, <1>3, <2>1, <2>3, <2>4, WriteTyped DEF Attributes, q
<1>6. ASSUME WriteExpiry(r) PROVE Stored'
  <2>1. a \in Accounts /\ entry[a] # None
    BY <1>2, <1>6 DEF WriteExpiry, q
  <2>2. PICK t \in (IF q.op = "expire" THEN start.dates ELSE {None}) :
          \E holds : Write(r, {"pwdEndTime"}, holds, Put(a, [entry[a] EXCEPT !.end = t]), policy, {})
    BY <1>6 DEF WriteExpiry, q
  <2> DEFINE es == [entry EXCEPT ![a] = [entry[a] EXCEPT !.end = t]]
  <2>3. [entry[a] EXCEPT !.end = t] \in Entry
    BY <1>3, <2>1, <2>2, Settings DEF Entries, Entry
  <2>4. es \in Entries
    BY <1>3, <2>1, <2>3 DEF Entries
  <2>5. PICK holds : Write(r, {"pwdEndTime"}, holds, es, policy, {})
    BY <2>2 DEF Put
  <2> HIDE DEF es
  <2> QED
    BY <1>2, <1>3, <2>4, <2>5, WriteTyped DEF Attributes, q
<1>7. ASSUME NEW d \in Instants \cup {None}, NEW wrote \in SUBSET Attributes, NEW holds, a \in Policies,
             Write(r, wrote, holds, entry, [policy EXCEPT ![a] = d], Governed(a))
      PROVE  Stored'
  <2>1. [policy EXCEPT ![a] = d] \in [Policies -> Instants \cup {None}]
    BY <1>3
  <2> QED
    BY <1>2, <1>3, <1>4, <1>7, <2>1, WriteTyped DEF q
<1>8. ASSUME WritePolicy(r) PROVE Stored'
  <2>1. PICK d \in start.durations : \E holds :
          Write(r, {"pwdLockoutDuration"}, holds, entry, [policy EXCEPT ![a] = d], Governed(a))
    BY <1>8 DEF WritePolicy, q
  <2>2. d \in Instants \cup {None} /\ a \in Policies
    BY <1>2, <1>3, <1>8, Settings DEF WritePolicy, PolicyOps, q
  <2> QED
    BY <1>7, <2>1, <2>2 DEF Attributes
<1>9. ASSUME AddOrRemovePolicy(r) PROVE Stored'
  <2>1. PICK d \in start.durations \cup {None} : \E holds :
          Write(r, {"entry"}, holds, entry, [policy EXCEPT ![a] = d], Governed(a))
    BY <1>9 DEF AddOrRemovePolicy, q
  <2>2. d \in Instants \cup {None} /\ a \in Policies
    BY <1>2, <1>3, <1>9, Settings DEF AddOrRemovePolicy, PolicyOps, q
  <2> QED
    BY <1>7, <2>1, <2>2 DEF Attributes
<1>10. ASSUME WritePassword(r) PROVE Stored'
  <2>1. PICK holds : Write(r, {"userPassword"}, holds, entry, policy, {})
    BY <1>10 DEF WritePassword
  <2> QED
    BY <1>2, <1>3, <2>1, WriteTyped DEF Attributes, q
<1> QED
  BY <1>5, <1>6, <1>8, <1>9, <1>10, BeginTyped, ReadTyped, GiveUpTyped DEF Edit

\* The directory's own steps, other tools', the clock's and the scan's.
LEMMA EntryTyped ==
  ASSUME Typed, NEW a \in Accounts, NEW e \in Entry \cup {None}
  PROVE  Put(a, e) \in Entries
  BY DEF Put, Typed, Stored, Pictured, Entries

LEMMA DroppedTyped ==
  ASSUME Typed, NEW a \in Accounts, Bindable(a)
  PROVE  Dropped(a) \in Ledger
<1> DEFINE e == entry[a]
           m == [warned |-> CadenceWarning, listed |-> Governs(e) \in DOMAIN ListPasswordPolicies,
                 duration |-> policy[Governs(e)], interval |-> Measured(AppClock),
                 altered |-> a \in scan.altered]
<1>1. e \in Entry /\ ~RefusesLock(e)
  BY DEF Bindable, Typed, Stored, Pictured, Entries
<1>2. CASE e.lock = None \/ a \in scan.seen
  <2>1. Dropped(a) = [scan EXCEPT !.seen = @ \ {a}, !.altered = @ \ {a}, !.missed = @]
    BY <1>2 DEF Dropped
  <2> QED
    BY <2>1 DEF Typed, Stored, Ledger
<1>3. CASE ~(e.lock = None \/ a \in scan.seen)
  <2>1. Dropped(a) = [scan EXCEPT !.seen = @ \ {a}, !.altered = @ \ {a}, !.missed = @ \cup {m}]
    BY <1>3 DEF Dropped
  <2>2. e.lock \in Instants /\ Governs(e) # None /\ policy[Governs(e)] # None
    BY <1>1, <1>3 DEF Entry, RefusesLock
  <2>3. policy[Governs(e)] \in Instants
    BY <1>1, <2>2, Settings DEF Governs, Entry, Typed, Stored, Pictured
  <2>4. Measured(AppClock) \in Int
    <3>1. start \in Starts /\ AppClock \in Int
      BY Clocks DEF Typed, Stored, Pictured
    <3>2. NextDue(AppClock) \in Int
      BY <3>1, NextDueIs
    <3>3. NextDue(NextDue(AppClock)) \in Int
      BY <3>1, <3>2, NextDueIs
    <3> QED
      BY <3>2, <3>3 DEF Measured
  <2> DEFINE warned == CadenceWarning
             listed == Governs(e) \in DOMAIN ListPasswordPolicies
  <2>5. warned \in BOOLEAN /\ listed \in BOOLEAN
    BY DEF CadenceWarning
  <2> HIDE DEF warned, listed
  <2>6. m \in Missed
    BY <2>3, <2>4, <2>5 DEF Missed, warned, listed
  <2> HIDE DEF m
  <2>7. scan \in Ledger /\ scan.missed \cup {m} \in SUBSET Missed
    BY <2>6 DEF Typed, Stored, Ledger
  <2> QED
    BY <2>1, <2>7 DEF Ledger
<1> QED
  BY <1>2, <1>3

LEMMA BindTyped ==
  ASSUME Typed, NEW a \in Accounts, NEW fails \in 0..MaxFailures, NEW lock \in Instants \cup {None},
         Bindable(a), Bind(a, fails, lock)
  PROVE  Stored'
<1> DEFINE wrote == (IF fails # entry[a].fails \/ fails > 0 THEN {"pwdFailureTime"} ELSE {}) \cup
                    (IF lock # entry[a].lock THEN {"pwdAccountLockedTime"} ELSE {})
<1>1. entry[a] \in Entry
  BY DEF Bindable, Typed, Stored, Pictured, Entries
<1>2. [entry[a] EXCEPT !.fails = fails, !.lock = lock] \in Entry
  BY <1>1 DEF Entry
<1>3. entry' \in Entries
  BY <1>2, EntryTyped DEF Bind
<1>4. wrote \in SUBSET Attributes /\ Root \in Actors /\ 0 \in Nat
  BY DEF Attributes, Actors
<1>5. Record("ppolicy", Root, wrote, 0) /\ scan' = Dropped(a) /\ UNCHANGED <<start, now, policy, req, rows>>
  BY DEF Bind
<1> HIDE DEF wrote
<1>6. log' \in Seq(Change)
  BY <1>4, <1>5, RecordTyped
<1>7. scan' \in Ledger
  BY <1>5, DroppedTyped
<1> QED
  BY <1>3, <1>5, <1>6, <1>7 DEF Typed, Stored, Pictured

LEMMA OutsideTyped ==
  ASSUME Typed,
         \/ \E a \in Accounts : FailedBind(a) \/ GoodBind(a) \/ LockByHand(a) \/ Provision(a)
         \/ Tick \/ RunScan \/ TriggerScan \/ AuditOnly
  PROVE  Stored'
<1>1. ASSUME NEW a \in Accounts, FailedBind(a) PROVE Stored'
  <2>1. PICK n \in 1..MaxFailures : Bind(a, n, IF n = MaxFailures THEN now ELSE None)
    BY <1>1 DEF FailedBind
  <2>2. /\ n \in 0..MaxFailures /\ Bindable(a)
        /\ (IF n = MaxFailures THEN now ELSE None) \in Instants \cup {None}
    BY <1>1, BoundsAssumption DEF FailedBind, Typed, Stored, Pictured
  <2> QED
    BY <2>1, <2>2, BindTyped
<1>2. ASSUME NEW a \in Accounts, GoodBind(a) PROVE Stored'
  <2>1. 0 \in 0..MaxFailures /\ None \in Instants \cup {None}
    BY BoundsAssumption
  <2> QED
    BY <1>2, <2>1, BindTyped DEF GoodBind
<1>3. ASSUME NEW a \in Accounts, LockByHand(a) PROVE Stored'
  <2>1. PICK lock \in {None, Permanent} : entry' = Put(a, [entry[a] EXCEPT !.lock = lock])
    BY <1>3 DEF LockByHand
  <2>2. [entry[a] EXCEPT !.lock = lock] \in Entry
    BY <1>3 DEF LockByHand, Typed, Stored, Pictured, Entries, Entry
  <2>3. entry' \in Entries
    BY <2>1, <2>2, EntryTyped
  <2>4. log' \in Seq(Change)
    BY <1>3, RecordTyped DEF LockByHand, Attributes, Actors
  <2> QED
    BY <1>3, <2>3, <2>4, EditedTyped DEF LockByHand, Typed, Stored, Pictured
<1>4. ASSUME NEW a \in Accounts, Provision(a) PROVE Stored'
  <2>1. [lock |-> None, end |-> None, own |-> None, fails |-> 0] \in Entry
    BY BoundsAssumption DEF Entry
  <2>2. entry' \in Entries
    BY <1>4, <2>1, EntryTyped DEF Provision
  <2>3. log' \in Seq(Change)
    BY <1>4, RecordTyped DEF Provision, Attributes, Actors
  <2> QED
    BY <1>4, <2>2, <2>3, EditedTyped DEF Provision, Typed, Stored, Pictured
<1>5. LeftOut(scan) \in Ledger
  BY Clocks DEF LeftOut, Typed, Stored, Ledger
<1>6. ASSUME Tick PROVE Stored'
  <2> DEFINE before == IF ScanDue THEN LeftOut(scan) ELSE scan
  <2>1. before \in Ledger
    BY <1>5 DEF Typed, Stored
  <2> HIDE DEF before
  <2> DEFINE later == [before EXCEPT !.fired = FALSE]
  <2>2. later \in Ledger /\ [later EXCEPT !.startedAt = AppClock + 1] \in Ledger
    <3>1. later \in Ledger
      BY <2>1 DEF Ledger
    <3>2. AppClock + 1 \in Int
      BY Clocks DEF Typed, Stored
    <3> HIDE DEF later
    <3> QED
      BY <3>1, <3>2 DEF Ledger
  <2>3. scan' \in Ledger
    BY <1>6, <2>2 DEF Tick, before
  <2>4. now' \in Instants
    BY <1>6, BoundsAssumption DEF Tick, Typed, Stored, Pictured, Instants
  <2> QED
    BY <1>6, <2>3, <2>4 DEF Tick, Typed, Stored, Pictured
<1>7. ASSUME NEW by \in {"scheduler", "hand"} PROVE Started(by) \in Ledger
  <2>1. [at |-> DatabaseClock, by |-> by] \in TaskRun
    BY Clocks DEF TaskRun, Typed, Stored
  <2> QED
    BY <2>1 DEF Started, Typed, Stored, Ledger
<1>8. \A ledger \in Ledger : Scanned(ledger) \in Ledger
  BY DEF Scanned, Ledger, SelfLocked, There
<1>9. ASSUME RunScan PROVE Stored'
  <2> DEFINE run == Started("scheduler")
  <2>1. run \in Ledger
    BY <1>7
  <2> HIDE DEF run
  <2> DEFINE fired == [run EXCEPT !.fired = TRUE]
  <2>2. /\ fired \in Ledger /\ [fired EXCEPT !.altered = Accounts] \in Ledger
        /\ [LeftOut(scan) EXCEPT !.fired = TRUE] \in Ledger
    BY <1>5, <2>1 DEF Ledger
  <2>3. \/ scan' = Scanned(fired) \/ scan' = [fired EXCEPT !.altered = Accounts]
        \/ scan' = [LeftOut(scan) EXCEPT !.fired = TRUE]
    BY <1>9 DEF RunScan, run
  <2> HIDE DEF fired
  <2>4. scan' \in Ledger
    BY <1>8, <2>2, <2>3
  <2> QED
    BY <1>9, <2>4 DEF RunScan, Typed, Stored, Pictured
<1>10. ASSUME TriggerScan PROVE Stored'
  BY <1>7, <1>8, <1>10 DEF TriggerScan, Typed, Stored, Pictured
<1>11. ASSUME AuditOnly PROVE Stored'
  <2>1. rows' \in Seq(Row)
    BY <1>11, AuditTyped DEF AuditOnly, Actors
  <2> QED
    BY <1>11, <2>1 DEF AuditOnly, Typed, Stored, Pictured
<1> QED
  BY <1>1, <1>2, <1>3, <1>4, <1>6, <1>9, <1>10, <1>11

LEMMA ObserveTyped ==
  ASSUME Typed, Observe
  PROVE  watch' \in [Requests -> Watching]
<1>1. \A r \in Requests :
        watch'[r] = IF ~Looking(r)' THEN Unwatched
                    ELSE [open    |-> Unlocked' \cup IF Looking(r) THEN watch[r].open ELSE {},
                          running |-> Unended' \cup IF Looking(r) THEN watch[r].running ELSE {},
                          touched |-> IF Looking(r)
                                        THEN watch[r].touched \cup {a \in Accounts : entry[a] # entry'[a]}
                                        ELSE {}]
  BY DEF Observe
<1>2. Unlocked' \in SUBSET Accounts /\ Unended' \in SUBSET Accounts
  BY DEF Unlocked, Unended
<1>3. \A r \in Requests : watch'[r] \in Watching
  <2> TAKE r \in Requests
  <2>1. watch[r] \in Watching
    BY DEF Typed
  <2> DEFINE open == Unlocked' \cup IF Looking(r) THEN watch[r].open ELSE {}
             running == Unended' \cup IF Looking(r) THEN watch[r].running ELSE {}
             touched == IF Looking(r)
                          THEN watch[r].touched \cup {a \in Accounts : entry[a] # entry'[a]} ELSE {}
  <2>2. open \in SUBSET Accounts /\ running \in SUBSET Accounts /\ touched \in SUBSET Accounts
    BY <1>2, <2>1 DEF Watching
  <2>3. watch'[r] = IF ~Looking(r)' THEN Unwatched
                    ELSE [open |-> open, running |-> running, touched |-> touched]
    BY <1>1
  <2> HIDE DEF open, running, touched
  <2> QED
    BY <2>2, <2>3 DEF Watching, Unwatched
<1>4. watch' = [r \in Requests |-> watch'[r]]
  BY DEF Observe
<1> QED
  BY <1>3, <1>4

LEMMA TypedInit == Init => Typed
<1> SUFFICES ASSUME Init PROVE Typed
  OBVIOUS
<1>1. Pictured
  BY StartsAssumption, BoundsAssumption DEF Init, LockInit, IsSetting, Pictured, Entries, Instants
<1>2. scan \in Ledger
  BY <1>1, Clocks DEF Init, LockInit, Ledger
<1> QED
  BY <1>1, <1>2, IdleFits DEF Init, LockInit, Typed, Stored, Watching, Unwatched

LEMMA StepTyped == Typed /\ [Next]_<<vars, view>> => Typed'
<1> SUFFICES ASSUME Typed, [Next]_<<vars, view>> PROVE Typed'
  OBVIOUS
<1>1. ASSUME LockNext PROVE Typed'
  <2>1. Stored'
    <3>1. ASSUME NEW r \in Requests, Glance(r) PROVE Stored'
      BY <3>1, GlanceFits DEF Typed, Stored, Pictured
    <3> QED
      BY <1>1, <3>1, EditTyped, OutsideTyped DEF LockNext, Step, Edit, Glance
  <2>2. watch' \in [Requests -> Watching]
    BY <1>1, ObserveTyped DEF LockNext
  <2> QED
    BY <2>1, <2>2 DEF Typed
<1>2. ASSUME UNCHANGED vars PROVE Typed'
  BY <1>2 DEF vars, Typed, Stored, Pictured
<1>3. See => UNCHANGED vars
  BY DEF See, Open, ReadPage, Match, vars
<1> QED
  BY <1>1, <1>2, <1>3 DEF Next, vars

-----------------------------------------------------------------------------
(* The scan and its schedule *)

LEMMA SameSchedule ==
  ASSUME UNCHANGED start
  PROVE  /\ \A t : Due(t)' <=> Due(t)
         /\ EvenSchedule' <=> EvenSchedule
         /\ \A what : May(what)' <=> May(what)
<1>1. \A t : Due(t)' <=> Due(t)
  BY DEF Due
<1>2. \A t : NextDue(t)' = NextDue(t)
  BY DEF NextDue, Due
<1>3. \A t : Measured(t)' = Measured(t)
  BY DEF NextDue, Due, Measured
<1>4. EvenSchedule' <=> EvenSchedule
  BY DEF EvenSchedule, Clock, Measured, NextDue, Due
<1> QED
  BY <1>1, <1>4 DEF May

\* The instants whose scan is behind us, and what a scheduled run leaves.
Behind(x) == x < AppClock \/ (x = AppClock /\ scan.fired)
Ran(x) == [at |-> x + start.database, by |-> "scheduler"] \in scan.runs

\* Every firing left a row or is known to have left none.
Ledgered ==
  /\ start.skew <= scan.startedAt
  /\ \A run \in scan.runs : start.skew + start.database <= run.at /\ run.at <= DatabaseClock
  /\ \A x \in scan.left : Due(x)
  /\ May("scan") => \A x \in Int :
       Due(x) /\ start.skew <= x /\ Behind(x) => x \in scan.left \/ Ran(x)

\* A lock that no scan has found, nothing having interfered, has met none.
Unscanned ==
  May("scan") => \A a \in There \ (scan.seen \cup scan.altered) : entry[a].lock \in Instants =>
    \A x \in Int : Due(x) /\ entry[a].lock + start.skew < x => ~Behind(x)

ScanInv == Ledgered /\ Unscanned /\ MissedIsWarned

\* Steps that run no scan and pass no time.
LEMMA LedgerKept ==
  ASSUME Ledgered, UNCHANGED <<start, now>>, scan'.fired = scan.fired,
         scan'.left = scan.left, scan'.runs = scan.runs, scan'.startedAt = scan.startedAt
  PROVE  Ledgered'
  BY SameSchedule DEF Ledgered, Behind, Ran, AppClock, DatabaseClock

LEMMA UnscannedKept ==
  ASSUME Typed, Unscanned, UNCHANGED <<start, now>>, scan'.fired = scan.fired,
         \A a \in There' \ (scan'.seen \cup scan'.altered) :
           \/ a \in There \ (scan.seen \cup scan.altered) /\ entry'[a].lock = entry[a].lock
           \/ entry'[a].lock = now
           \/ entry'[a].lock \notin Instants
  PROVE  Unscanned'
<1>1. \A x \in Int : now + start.skew < x => ~Behind(x)
  BY Settings, LockValues DEF Behind, AppClock, Typed, Stored, Pictured
<1>2. \A x : Behind(x)' <=> Behind(x)
  BY DEF Behind, AppClock
<1>3. (\A x : Due(x)' <=> Due(x)) /\ (May("scan")' <=> May("scan"))
  BY SameSchedule
<1> SUFFICES ASSUME May("scan"), NEW a \in There' \ (scan'.seen \cup scan'.altered),
                    entry'[a].lock \in Instants, NEW x \in Int, Due(x),
                    entry'[a].lock + start.skew < x
             PROVE  ~Behind(x)
  BY <1>2, <1>3 DEF Unscanned
<1>4. CASE a \in There \ (scan.seen \cup scan.altered) /\ entry'[a].lock = entry[a].lock
  BY <1>4 DEF Unscanned
<1>5. CASE entry'[a].lock = now
  BY <1>1, <1>5
<1> QED
  BY <1>4, <1>5

LEMMA MissedKept ==
  ASSUME MissedIsWarned, UNCHANGED start, scan'.missed = scan.missed
  PROVE  MissedIsWarned'
  BY SameSchedule DEF MissedIsWarned

LEMMA EditedKeeps ==
  ASSUME Typed, ScanInv, NEW es \in SUBSET Accounts, scan' = Edited(es), UNCHANGED <<start, now>>,
         \A a \in Accounts \ es : entry'[a] # None => entry[a] # None /\ entry'[a].lock = entry[a].lock
  PROVE  ScanInv'
<1>1. /\ scan'.fired = scan.fired /\ scan'.left = scan.left /\ scan'.runs = scan.runs
      /\ scan'.startedAt = scan.startedAt /\ scan'.missed = scan.missed
      /\ scan'.seen = scan.seen \ es /\ scan'.altered = scan.altered \cup es
  BY DEF Edited, Typed, Stored, Ledger
<1>2. \A a \in There' \ (scan'.seen \cup scan'.altered) :
        a \in There \ (scan.seen \cup scan.altered) /\ entry'[a].lock = entry[a].lock
  BY <1>1 DEF There
<1> QED
  BY <1>1, <1>2, LedgerKept, UnscannedKept, MissedKept DEF ScanInv

LEMMA SameKeeps ==
  ASSUME Typed, ScanInv, UNCHANGED <<start, now, entry, scan>>
  PROVE  ScanInv'
<1>1. Unscanned'
  <2>1. There' = There
    BY DEF There
  <2> QED
    BY <2>1, UnscannedKept DEF ScanInv
<1> QED
  BY <1>1, LedgerKept, MissedKept DEF ScanInv

LEMMA Shortest ==
  ASSUME Pictured, NEW d \in Durations
  PROVE  /\ MinLockoutDuration \in Int /\ MinLockoutDuration # None
         /\ MinLockoutDuration <= d
<1>1. \A x \in Durations : x \in Nat
  <2> TAKE x \in Durations
  <2>1. PICK p \in DOMAIN ListPasswordPolicies : x = ListPasswordPolicies[p]
    BY DEF Durations
  <2>2. p \in Policies
    BY Settings DEF ListPasswordPolicies, Pictured
  <2> QED
    BY <2>1, <2>2, PoliciesRead, LockValues
<1> DEFINE D == Durations
           IsLeast(x) == \A o \in D : x <= o
<1>2. D \in SUBSET Int /\ D # {} /\ \A x \in D : 0 <= x
  BY <1>1
<1>3. MinLockoutDuration = CHOOSE x \in D : IsLeast(x)
  BY DEF MinLockoutDuration
<1>4. \E x \in D : IsLeast(x)
  <2> HIDE DEF D
  <2> QED
    BY <1>2, Least
<1>5. MinLockoutDuration \in D /\ IsLeast(MinLockoutDuration)
  <2> HIDE DEF D, IsLeast
  <2> QED
    BY <1>3, <1>4
<1> QED
  BY <1>2, <1>5, ValuesAssumption

\* A lapsed lock that no scan has found was shorter than the interval, or next to.
LEMMA DroppedIsWarned ==
  ASSUME Typed, Unscanned, NEW a \in Accounts, Bindable(a), entry[a].lock # None,
         a \notin scan.seen, a \notin scan.altered, May("scan"), EvenSchedule,
         Governs(entry[a]) \in DOMAIN ListPasswordPolicies
  PROVE  CadenceWarning \/ Measured(AppClock) = policy[Governs(entry[a])]
<1> DEFINE e == entry[a]
           p == Governs(e)
           d == policy[p]
<1>1. /\ e \in Entry /\ ~RefusesLock(e) /\ a \in There
      /\ e.own \in Policies \cup {None}
  BY DEF Bindable, Typed, Stored, Pictured, Entries, There, Entry
<1>2. p \in Policies \cup {None}
  BY <1>1, Settings DEF Governs, Typed, Stored, Pictured
<1>3. d \in Instants /\ ListPasswordPolicies[p] = d
  BY <1>2, PoliciesRead DEF Typed, Stored
<1>4. e.lock \in Instants /\ d # 0 /\ ~(now < e.lock + d)
  BY <1>1 DEF RefusesLock, Entry
<1> DEFINE lock == e.lock
           t == lock + start.skew
           wait == Measured(AppClock)
<1> HIDE DEF e, p, d
<1>5. /\ lock \in Int /\ lock \in 0..MaxTime /\ d \in Int /\ d > 0
      /\ now \in Int /\ now >= lock + d /\ start.skew \in Int
  <2>1. lock \in Instants /\ lock \in Nat /\ d \in Nat /\ now \in Nat
    BY <1>3, <1>4, LockValues DEF Typed, Stored, Pictured
  <2> HIDE DEF lock
  <2>2. ~(now < lock + d)
    BY <1>4 DEF lock
  <2> QED
    BY <1>4, <2>1, <2>2, Settings DEF Typed, Stored, Pictured, Instants
<1> HIDE DEF lock
<1>6. t \in Int /\ t \in Clock /\ AppClock \in Int
  BY <1>5, BoundsAssumption, Clocks DEF Clock, Typed, Stored
<1>7. AppClock \in Clock
  BY <1>5, <1>6, BoundsAssumption DEF Clock, AppClock, Typed, Stored, Pictured, Instants
<1>8. d \in Durations
  BY <1>3, <1>5 DEF Durations, d, p, e
<1>9. wait \in Int
  BY <1>6, NextDueIs DEF Measured, Typed, Stored, Pictured
<1> HIDE DEF t, wait
<1> SUFFICES ASSUME ~CadenceWarning, wait # d PROVE FALSE
  BY DEF wait, d, p, e
<1>10. wait < d
  <2>1. MinLockoutDuration \in Int /\ MinLockoutDuration # None /\ MinLockoutDuration <= d
    BY <1>8, Shortest DEF Typed, Stored
  <2>2. ~(wait > MinLockoutDuration)
    BY <2>1 DEF CadenceWarning, wait
  <2> QED
    BY <1>5, <1>9, <2>1, <2>2
<1> DEFINE x == NextDue(t)
<1>11. x \in Int /\ t < x /\ Due(x)
  BY <1>6, NextDueIs DEF Typed, Stored, Pictured
<1>12. x - t <= wait
  BY <1>6, <1>7 DEF EvenSchedule, wait
<1> HIDE DEF x
<1>13. x < AppClock
  BY <1>5, <1>6, <1>9, <1>10, <1>11, <1>12 DEF t, AppClock
<1>14. ~Behind(x)
  BY <1>1, <1>4, <1>11 DEF Unscanned, t, lock, e
<1> QED
  BY <1>13, <1>14 DEF Behind

LEMMA BindKeeps ==
  ASSUME Typed, ScanInv, NEW a \in Accounts, NEW fails, NEW lock \in {now, None},
         Bindable(a), Bind(a, fails, lock)
  PROVE  ScanInv'
<1> DEFINE m == [warned |-> CadenceWarning, listed |-> Governs(entry[a]) \in DOMAIN ListPasswordPolicies,
                 duration |-> policy[Governs(entry[a])], interval |-> Measured(AppClock),
                 altered |-> a \in scan.altered]
           lost == entry[a].lock # None /\ a \notin scan.seen
<1>1. scan' = [scan EXCEPT !.seen = @ \ {a}, !.altered = @ \ {a},
                           !.missed = IF lost THEN @ \cup {m} ELSE @]
  BY DEF Bind, Dropped
<1> HIDE DEF m
<1>2. /\ scan'.fired = scan.fired /\ scan'.left = scan.left /\ scan'.runs = scan.runs
      /\ scan'.startedAt = scan.startedAt
      /\ scan'.seen = scan.seen \ {a} /\ scan'.altered = scan.altered \ {a}
      /\ scan'.missed = IF lost THEN scan.missed \cup {m} ELSE scan.missed
  BY <1>1 DEF Typed, Stored, Ledger
<1>3. entry' = Put(a, [entry[a] EXCEPT !.fails = fails, !.lock = lock]) /\ UNCHANGED <<start, now>>
  BY DEF Bind
<1>4. /\ entry'[a].lock = lock
      /\ \A b \in Accounts \ {a} : entry'[b] = entry[b]
  BY <1>3 DEF Put, Bindable, Typed, Stored, Pictured, Entries, Entry
<1>5. Unscanned'
  <2>1. \A b \in There' \ (scan'.seen \cup scan'.altered) :
           \/ b \in There \ (scan.seen \cup scan.altered) /\ entry'[b].lock = entry[b].lock
           \/ entry'[b].lock = now
           \/ entry'[b].lock \notin Instants
    BY <1>2, <1>4, LockValues DEF There
  <2> QED
    BY <1>2, <1>3, <2>1, UnscannedKept DEF ScanInv
<1>6. MissedIsWarned'
  <2>1. lost /\ May("scan") /\ EvenSchedule =>
          m.warned \/ m.altered \/ ~m.listed \/ m.interval = m.duration
    BY DroppedIsWarned DEF m, ScanInv
  <2> QED
    BY <1>2, <1>3, <2>1, SameSchedule DEF MissedIsWarned, ScanInv
<1> QED
  BY <1>2, <1>3, <1>5, <1>6, LedgerKept DEF ScanInv

\* The clock: an instant is behind us when it is left, or its scan has run.
LEMMA TickKeeps ==
  ASSUME Typed, ScanInv, Tick
  PROVE  ScanInv'
<1> DEFINE before == IF ScanDue THEN LeftOut(scan) ELSE scan
<1>1. /\ scan'.fired = FALSE /\ scan'.left = before.left /\ scan'.runs = scan.runs
      /\ scan'.seen = scan.seen /\ scan'.altered = before.altered /\ scan'.missed = scan.missed
      /\ scan'.startedAt \in {scan.startedAt, AppClock + 1}
  <2>1. before \in Ledger
    BY Clocks DEF LeftOut, Typed, Stored, Ledger
  <2>2. before.runs = scan.runs /\ before.seen = scan.seen /\ before.missed = scan.missed
        /\ before.startedAt = scan.startedAt
    BY DEF LeftOut, Typed, Stored, Ledger
  <2> HIDE DEF before
  <2> DEFINE later == [before EXCEPT !.fired = FALSE]
  <2>3. /\ later.fired = FALSE /\ later.left = before.left /\ later.runs = before.runs
        /\ later.seen = before.seen /\ later.altered = before.altered /\ later.missed = before.missed
        /\ later.startedAt = before.startedAt /\ later \in Ledger
    BY <2>1 DEF Ledger
  <2>4. scan' = later \/ scan' = [later EXCEPT !.startedAt = AppClock + 1]
    BY DEF Tick, before
  <2> HIDE DEF later
  <2>5. \/ scan' = later
        \/ /\ scan'.fired = later.fired /\ scan'.left = later.left /\ scan'.runs = later.runs
           /\ scan'.seen = later.seen /\ scan'.altered = later.altered /\ scan'.missed = later.missed
           /\ scan'.startedAt = AppClock + 1
    BY <2>3, <2>4 DEF Ledger
  <2> QED
    BY <2>2, <2>3, <2>5
<1>2. /\ start.skew \in Int /\ start.database \in Int /\ now \in Nat /\ now' = now + 1
      /\ UNCHANGED <<start, entry>>
  BY Settings, Clocks DEF Tick, Typed, Stored, Pictured
<1>3. AppClock \in Int /\ AppClock' = AppClock + 1 /\ DatabaseClock' = DatabaseClock + 1
  BY <1>2 DEF AppClock, DatabaseClock
<1>4. \A x \in Int : Behind(x)' => Behind(x) \/ (x = AppClock /\ ~scan.fired)
  BY <1>1, <1>3 DEF Behind
<1>5. ScanDue => /\ before.left = scan.left \cup {AppClock} /\ before.altered = Accounts
                 /\ Due(AppClock)
  BY DEF LeftOut, Typed, Stored, Ledger, ScanDue
<1>6. ~ScanDue => before.left = scan.left /\ before.altered = scan.altered
  OBVIOUS
<1>7. Ledgered'
  <2>1. start.skew <= scan'.startedAt
    BY <1>1, <1>2 DEF Ledgered, ScanInv, AppClock
  <2>2. \A run \in scan'.runs : start.skew + start.database <= run.at /\ run.at <= DatabaseClock'
    <3>1. \A run \in scan.runs : run.at \in Int
      BY DEF Typed, Stored, Ledger, TaskRun
    <3> QED
      BY <1>1, <1>2, <1>3, <3>1, Clocks DEF Ledgered, ScanInv, Typed, Stored
  <2>3. \A x \in scan'.left : Due(x)
    BY <1>1, <1>5, <1>6 DEF Ledgered, ScanInv
  <2>4. ASSUME May("scan"), NEW x \in Int, Due(x), start.skew <= x, Behind(x)'
        PROVE  x \in scan'.left \/ Ran(x)'
    <3>1. CASE Behind(x)
      BY <1>1, <1>2, <1>5, <1>6, <2>4, <3>1 DEF Ledgered, ScanInv, Ran
    <3>2. CASE x = AppClock /\ ~scan.fired
      BY <1>1, <1>5, <2>4, <3>2 DEF ScanDue
    <3> QED
      BY <1>4, <2>4, <3>1, <3>2
  <2> QED
    BY <1>2, <2>1, <2>2, <2>3, <2>4, SameSchedule DEF Ledgered
<1>8. Unscanned'
  <2>1. There' = There
    BY <1>2 DEF There
  <2>2. ASSUME May("scan"), NEW a \in There \ (scan'.seen \cup scan'.altered), entry[a].lock \in Instants,
               NEW x \in Int, Due(x), entry[a].lock + start.skew < x, Behind(x)'
        PROVE  FALSE
    <3>1. ~ScanDue /\ a \in There \ (scan.seen \cup scan.altered)
      BY <1>1, <1>5, <1>6, <2>2 DEF There
    <3>2. ~Behind(x)
      BY <2>2, <3>1 DEF Unscanned, ScanInv
    <3>3. x = AppClock /\ ~scan.fired
      BY <1>4, <2>2, <3>2
    <3> QED
      BY <2>2, <3>1, <3>3 DEF ScanDue
  <2> QED
    BY <1>2, <2>1, <2>2, SameSchedule DEF Unscanned
<1> QED
  BY <1>1, <1>2, <1>7, <1>8, MissedKept DEF ScanInv

LEMMA ScannedFields ==
  ASSUME Typed, NEW ledger \in Ledger
  PROVE  LET s == Scanned(ledger)
         IN  /\ s.fired = ledger.fired /\ s.left = ledger.left /\ s.runs = ledger.runs
             /\ s.startedAt = ledger.startedAt /\ s.missed = ledger.missed
             /\ s.altered = ledger.altered
             /\ s.seen = ledger.seen \cup {a \in SelfLocked : entry[a].lock \in Instants}
  BY DEF Scanned, Ledger

LEMMA StartedFields ==
  ASSUME Typed, NEW by \in {"scheduler", "hand"}
  PROVE  LET s == Started(by)
         IN  /\ s \in Ledger
             /\ s.fired = scan.fired /\ s.left = scan.left /\ s.startedAt = scan.startedAt
             /\ s.missed = scan.missed /\ s.altered = scan.altered /\ s.seen = scan.seen
             /\ s.runs = scan.runs \cup {[at |-> DatabaseClock, by |-> by]}
<1>1. [at |-> DatabaseClock, by |-> by] \in TaskRun
  BY Clocks DEF TaskRun, Typed, Stored
<1> QED
  BY <1>1 DEF Started, Typed, Stored, Ledger

\* A lock that can be read has been seen once a scan has read it.
LEMMA ReadIsSeen ==
  ASSUME Typed, NEW a \in There, entry[a].lock \in Instants
  PROVE  a \in {b \in SelfLocked : entry[b].lock \in Instants}
  BY LockValues DEF SelfLocked

LEMMA TriggerKeeps ==
  ASSUME Typed, ScanInv, TriggerScan
  PROVE  ScanInv'
<1> DEFINE s == Started("hand")
           seen == {a \in SelfLocked : entry[a].lock \in Instants}
<1>1. /\ s \in Ledger
      /\ s.fired = scan.fired /\ s.left = scan.left /\ s.startedAt = scan.startedAt
      /\ s.missed = scan.missed /\ s.altered = scan.altered /\ s.seen = scan.seen
      /\ s.runs = scan.runs \cup {[at |-> DatabaseClock, by |-> "hand"]}
  BY StartedFields
<1> HIDE DEF s
<1>2. scan' = Scanned(s) /\ UNCHANGED <<start, now, entry>>
  BY DEF TriggerScan, s
<1>3. /\ scan'.fired = scan.fired /\ scan'.left = scan.left /\ scan'.startedAt = scan.startedAt
      /\ scan'.missed = scan.missed /\ scan'.altered = scan.altered
      /\ scan'.seen = scan.seen \cup seen
      /\ scan'.runs = scan.runs \cup {[at |-> DatabaseClock, by |-> "hand"]}
  BY <1>1, <1>2, ScannedFields
<1> HIDE DEF seen
<1>4. Unscanned'
  <2>1. \A a \in There' \ (scan'.seen \cup scan'.altered) :
           \/ a \in There \ (scan.seen \cup scan.altered) /\ entry'[a].lock = entry[a].lock
           \/ entry'[a].lock = now
           \/ entry'[a].lock \notin Instants
    BY <1>2, <1>3 DEF There
  <2> QED
    BY <1>2, <1>3, <2>1, UnscannedKept DEF ScanInv
<1>5. Ledgered'
  <2>1. start.skew + start.database <= DatabaseClock /\ DatabaseClock \in Int
    BY Settings, Clocks DEF DatabaseClock, AppClock, Typed, Stored, Pictured
  <2>2. DatabaseClock' = DatabaseClock /\ \A x : Behind(x)' <=> Behind(x)
    BY <1>2, <1>3 DEF DatabaseClock, AppClock, Behind
  <2>3. \A run \in scan'.runs : start.skew + start.database <= run.at /\ run.at <= DatabaseClock
    BY <1>3, <2>1 DEF Ledgered, ScanInv
  <2>4. \A x : Ran(x) => Ran(x)'
    BY <1>2, <1>3 DEF Ran
  <2> QED
    BY <1>2, <1>3, <2>2, <2>3, <2>4, SameSchedule DEF Ledgered, ScanInv
<1> QED
  BY <1>2, <1>3, <1>4, <1>5, MissedKept DEF ScanInv

LEMMA RunKeeps ==
  ASSUME Typed, ScanInv, RunScan
  PROVE  ScanInv'
<1> DEFINE s == Started("scheduler")
           seen == {a \in SelfLocked : entry[a].lock \in Instants}
           run == [at |-> DatabaseClock, by |-> "scheduler"]
<1>1. /\ s \in Ledger
      /\ s.fired = scan.fired /\ s.left = scan.left /\ s.startedAt = scan.startedAt
      /\ s.missed = scan.missed /\ s.altered = scan.altered /\ s.seen = scan.seen
      /\ s.runs = scan.runs \cup {run}
  BY StartedFields
<1> HIDE DEF s
<1> DEFINE f == [s EXCEPT !.fired = TRUE]
<1>2. /\ f \in Ledger /\ f.fired = TRUE /\ f.left = s.left /\ f.startedAt = s.startedAt
      /\ f.missed = s.missed /\ f.altered = s.altered /\ f.seen = s.seen /\ f.runs = s.runs
  BY <1>1 DEF Ledger
<1>3. /\ UNCHANGED <<start, now, entry>> /\ ScanDue
      /\ \/ scan' = Scanned(f) \/ scan' = [f EXCEPT !.altered = Accounts]
         \/ scan' = [LeftOut(scan) EXCEPT !.fired = TRUE]
  BY DEF RunScan, s
<1> HIDE DEF f
<1>4. /\ scan'.fired = TRUE /\ scan'.startedAt = scan.startedAt /\ scan'.missed = scan.missed
      /\ \/ scan'.left = scan.left /\ scan'.runs = scan.runs \cup {run}
         \/ scan'.left = scan.left \cup {AppClock} /\ scan'.runs = scan.runs
      /\ scan'.seen = scan.seen \cup seen \/ scan'.altered = Accounts
  <2>1. CASE scan' = Scanned(f)
    BY <1>1, <1>2, <2>1, ScannedFields
  <2>2. CASE scan' = [f EXCEPT !.altered = Accounts]
    BY <1>1, <1>2, <2>2 DEF Ledger
  <2>3. CASE scan' = [LeftOut(scan) EXCEPT !.fired = TRUE]
    BY <2>3 DEF LeftOut, Typed, Stored, Ledger
  <2> QED
    BY <1>3, <2>1, <2>2, <2>3
<1>5. \A a \in There' \ (scan'.seen \cup scan'.altered) : entry'[a].lock \notin Instants
  <2>1. \A a \in There : entry[a].lock \in Instants => a \in seen
    BY ReadIsSeen
  <2> HIDE DEF seen
  <2>2. There' = There /\ There \subseteq Accounts
    BY <1>3 DEF There
  <2> QED
    BY <1>3, <1>4, <2>1, <2>2
<1>6. Unscanned'
  BY <1>5 DEF Unscanned
<1>7. Ledgered'
  <2>1. /\ start.skew + start.database <= DatabaseClock /\ DatabaseClock \in Int
        /\ DatabaseClock = AppClock + start.database /\ AppClock \in Int
    BY Settings, Clocks DEF DatabaseClock, AppClock, Typed, Stored, Pictured
  <2>2. DatabaseClock' = DatabaseClock /\ AppClock' = AppClock
    BY <1>3 DEF DatabaseClock, AppClock
  <2>3. \A r \in scan'.runs : start.skew + start.database <= r.at /\ r.at <= DatabaseClock
    BY <1>4, <2>1 DEF Ledgered, ScanInv
  <2>4. \A x \in scan'.left : Due(x)
    BY <1>3, <1>4 DEF Ledgered, ScanInv, ScanDue
  <2>5. ASSUME May("scan"), NEW x \in Int, Due(x), start.skew <= x, Behind(x)'
        PROVE  x \in scan'.left \/ Ran(x)'
    <3>1. CASE Behind(x)
      BY <1>3, <1>4, <2>5, <3>1 DEF Ledgered, ScanInv, Ran
    <3>2. CASE ~Behind(x)
      <4>1. x = AppClock
        BY <2>2, <2>5, <3>2 DEF Behind
      <4> QED
        BY <1>3, <1>4, <2>1, <4>1 DEF Ran
    <3> QED
      BY <3>1, <3>2
  <2> QED
    BY <1>3, <1>4, <2>2, <2>3, <2>4, <2>5, SameSchedule DEF Ledgered, ScanInv
<1> QED
  BY <1>3, <1>4, <1>6, <1>7, MissedKept DEF ScanInv

\* Requests leave the ledger alone until they write, and then mark what they edit.
LEMMA EditKeeps ==
  ASSUME Typed, ScanInv, NEW r \in Requests, Edit(r)
  PROVE  ScanInv'
<1> DEFINE a == req[r].on
<1>1. CASE BeginEdit(r) \/ ReadBeforeWrite(r) \/ GiveUp(r)
  BY <1>1, SameKeeps DEF BeginEdit, ReadBeforeWrite, GiveUp
<1>2. req[r] \in Fitting /\ entry \in Entries
  BY DEF Typed, Stored, Pictured
<1>3. ASSUME NEW wrote, NEW holds, NEW es, NEW ps, NEW touched \in SUBSET Accounts,
             \A b \in Accounts \ touched : es[b] # None => entry[b] # None /\ es[b].lock = entry[b].lock,
             Write(r, wrote, holds, es, ps, touched)
      PROVE  ScanInv'
  BY <1>3, EditedKeeps DEF Write
<1>4. CASE WriteLock(r)
  <2>1. a \in Accounts
    BY <1>2, <1>4 DEF WriteLock, Fitting, PolicyOps, Edits
  <2>2. PICK holds, e : Write(r, {"pwdAccountLockedTime"}, holds, Put(a, e), policy, {a})
    BY <1>4 DEF WriteLock
  <2>3. \A b \in Accounts \ {a} : Put(a, e)[b] = entry[b]
    BY <1>2 DEF Put, Entries
  <2> QED
    BY <1>3, <2>1, <2>2, <2>3
<1>5. CASE WriteExpiry(r)
  <2>1. a \in Accounts /\ entry[a] # None
    BY <1>2, <1>5 DEF WriteExpiry, Fitting, PolicyOps, Edits
  <2>2. PICK holds, t : Write(r, {"pwdEndTime"}, holds, Put(a, [entry[a] EXCEPT !.end = t]), policy, {})
    BY <1>5 DEF WriteExpiry
  <2>3. [entry[a] EXCEPT !.end = t].lock = entry[a].lock
    BY <1>2, <2>1 DEF Entries, Entry
  <2>4. \A b \in Accounts : Put(a, [entry[a] EXCEPT !.end = t])[b] # None =>
           entry[b] # None /\ Put(a, [entry[a] EXCEPT !.end = t])[b].lock = entry[b].lock
    BY <1>2, <2>1, <2>3 DEF Put, Entries
  <2> QED
    BY <1>3, <2>2, <2>4
<1>6. Governed(a) \in SUBSET Accounts
  BY DEF Governed
<1>7. CASE WritePolicy(r)
  <2>1. PICK holds, ps : Write(r, {"pwdLockoutDuration"}, holds, entry, ps, Governed(a))
    BY <1>7 DEF WritePolicy
  <2> QED
    BY <1>3, <1>6, <2>1
<1>8. CASE AddOrRemovePolicy(r)
  <2>1. PICK holds, ps : Write(r, {"entry"}, holds, entry, ps, Governed(a))
    BY <1>8 DEF AddOrRemovePolicy
  <2> QED
    BY <1>3, <1>6, <2>1
<1>9. CASE WritePassword(r)
  <2>1. PICK holds : Write(r, {"userPassword"}, holds, entry, policy, {})
    BY <1>9 DEF WritePassword
  <2> QED
    BY <1>3, <2>1
<1> QED
  BY <1>1, <1>4, <1>5, <1>7, <1>8, <1>9 DEF Edit

LEMMA ScanInit == Init => ScanInv
<1> SUFFICES ASSUME Init PROVE ScanInv
  OBVIOUS
<1>1. start \in Starts /\ Pictured
  BY TypedInit DEF Typed, Stored, Pictured
<1>2. /\ scan.runs = {} /\ scan.left = {} /\ ~scan.fired /\ scan.missed = {}
      /\ scan.startedAt = AppClock /\ scan.seen = {} /\ now = 0
      /\ start.skew \in Int /\ AppClock = start.skew
  BY <1>1, Settings DEF Init, LockInit, AppClock
<1>3. \A x \in Int : start.skew <= x => ~Behind(x)
  BY <1>2 DEF Behind
<1>4. \A a \in There : entry[a].lock \in Instants => entry[a].lock \in Nat
  BY LockValues
<1> QED
  BY <1>2, <1>3, <1>4 DEF ScanInv, Ledgered, Unscanned, MissedIsWarned

LEMMA ScanStep == Typed /\ ScanInv /\ [Next]_<<vars, view>> => ScanInv'
<1> SUFFICES ASSUME Typed, ScanInv, [Next]_<<vars, view>> PROVE ScanInv'
  OBVIOUS
<1>1. ASSUME NEW a \in Accounts, FailedBind(a) PROVE ScanInv'
  BY <1>1, BindKeeps DEF FailedBind
<1>2. ASSUME NEW a \in Accounts, GoodBind(a) PROVE ScanInv'
  BY <1>2, BindKeeps DEF GoodBind
<1>3. ASSUME NEW a \in Accounts, NEW e, entry' = Put(a, e), scan' = Edited({a}), UNCHANGED <<start, now>>
      PROVE  ScanInv'
  <2>1. \A b \in Accounts \ {a} : entry'[b] = entry[b]
    BY <1>3 DEF Put, Typed, Stored, Pictured, Entries
  <2> QED
    BY <1>3, <2>1, EditedKeeps
<1>4. ASSUME NEW a \in Accounts, LockByHand(a) \/ Provision(a) PROVE ScanInv'
  BY <1>3, <1>4 DEF LockByHand, Provision
<1>5. ASSUME NEW r \in Requests, Glance(r) PROVE ScanInv'
  BY <1>5, GlanceFits, SameKeeps
<1>6. ASSUME AuditOnly \/ UNCHANGED vars \/ See PROVE ScanInv'
  BY <1>6, SameKeeps DEF AuditOnly, vars, See
<1> QED
  BY <1>1, <1>2, <1>4, <1>5, <1>6, TickKeeps, RunKeeps, TriggerKeeps, EditKeeps
     DEF Next, LockNext, Step, Edit, Glance, vars

\* What the ledger says of a scan that is overdue.
LEMMA LedgerTells ==
  ASSUME Typed, Ledgered
  PROVE  OverdueIsMissed
<1> DEFINE scheduled == {run.at : run \in {q \in scan.runs : q.by = "scheduler"}}
           missed(t) == {f \in scan.left :
                          /\ f + OverdueGrace <= t
                          /\ \A at \in scheduled : at < f
                          /\ scheduled = {} => scan.startedAt < f}
<1> SUFFICES ASSUME May("scan"), NEW t \in 0..AppClock
             PROVE  /\ Overdue(t) /\ start.database >= 0 => missed(t) # {}
                    /\ missed(t) # {} => Overdue(t)
  BY DEF OverdueIsMissed
<1>1. /\ start \in Starts /\ start.skew \in Int /\ start.database \in Int
      /\ AppClock \in Int /\ DatabaseClock \in Int /\ t \in Int /\ t <= AppClock
      /\ OverdueGrace \in Int /\ OverdueGrace > 0
      /\ scan.startedAt \in Int /\ scan.left \in SUBSET Int
  BY Settings, Clocks, BoundsAssumption DEF Typed, Stored, Pictured, Ledger
<1>2. scheduled \in SUBSET Int
  BY DEF Typed, Stored, Ledger, TaskRun
<1>3. \A at \in scheduled : start.skew + start.database <= at /\ at <= DatabaseClock
  BY DEF Ledgered
<1>4. \A x \in Int : Ran(x) => x + start.database \in scheduled
  BY DEF Ran
<1>5. LastTaskRun(TRUE) = IF scheduled = {} THEN None
                          ELSE CHOOSE m \in scheduled : \A u \in scheduled : u <= m
  BY DEF LastTaskRun
<1> DEFINE Last == IF LastTaskRun(TRUE) = None THEN scan.startedAt ELSE LastTaskRun(TRUE)
<1> HIDE DEF scheduled
<1>6. /\ scheduled = {} => Last = scan.startedAt
      /\ scheduled # {} => Last \in scheduled /\ \A u \in scheduled : u <= Last
  <2>1. CASE scheduled = {}
    BY <1>5, <2>1
  <2>2. CASE scheduled # {}
    <3> DEFINE IsLast(m) == \A u \in scheduled : u <= m
    <3>1. \E m \in scheduled : IsLast(m)
      BY <1>1, <1>2, <1>3, <2>2, Greatest
    <3>2. LastTaskRun(TRUE) = CHOOSE m \in scheduled : IsLast(m)
      BY <1>5, <2>2
    <3>3. LastTaskRun(TRUE) \in scheduled /\ IsLast(LastTaskRun(TRUE))
      <4> HIDE DEF IsLast
      <4> QED
        BY <3>1, <3>2
    <3> QED
      BY <1>2, <2>2, <3>3, ValuesAssumption
  <2> QED
    BY <2>1, <2>2
<1>7. Overdue(t) <=> NextDue(Last) + OverdueGrace <= t
  BY DEF Overdue, expectedRun
<1> HIDE DEF Last
<1>8. Last \in Int
  BY <1>1, <1>2, <1>6
<1> DEFINE f == NextDue(Last)
<1>9. f \in Int /\ Last < f /\ Due(f) /\ \A g \in Int : Last < g /\ g < f => ~Due(g)
  BY <1>1, <1>8, NextDueIs
<1> HIDE DEF f
<1>10. ASSUME f + OverdueGrace <= t, start.database >= 0 PROVE f \in missed(t)
  <2>1. f < AppClock /\ start.skew <= f
    BY <1>1, <1>2, <1>3, <1>6, <1>8, <1>9, <1>10 DEF Ledgered
  <2>2. ~Ran(f)
    BY <1>1, <1>2, <1>4, <1>6, <1>8, <1>9, <1>10
  <2>3. f \in scan.left
    BY <1>9, <2>1, <2>2 DEF Ledgered, Behind
  <2>4. \A at \in scheduled : at < f
    BY <1>2, <1>6, <1>8, <1>9
  <2> QED
    BY <1>6, <1>9, <1>10, <2>3, <2>4
<1>11. ASSUME NEW g \in missed(t) PROVE f + OverdueGrace <= t
  <2>1. g \in Int /\ Due(g) /\ Last < g /\ g + OverdueGrace <= t
    BY <1>1, <1>6 DEF Ledgered
  <2>2. f <= g
    BY <1>9, <2>1
  <2> QED
    BY <1>1, <1>9, <2>1, <2>2
<1> QED
  BY <1>7, <1>10, <1>11 DEF f

-----------------------------------------------------------------------------
(* Readings *)

\* The accounts that are as they were when the reading began, and those that may
\* be called usable.
Untouched(r) == {a \in There : a \notin watch[r].touched}
Usable(r) == (watch[r].open \cap watch[r].running) \cup watch[r].touched

\* What is true now has been seen to be.
Fresh(r) ==
  Looking(r) => Unlocked \subseteq watch[r].open /\ Unended \subseteq watch[r].running

\* A policy that was read lets go of the locks it outlasts.
Outlasted(q, e) ==
  /\ PolicyDN(e) \in DOMAIN q.cache /\ q.cache[PolicyDN(e)] # None /\ q.cache[PolicyDN(e)] > 0
  /\ e.lock \in Instants /\ q.at >= e.lock + q.cache[PolicyDN(e)]

RowFacts(r) ==
  /\ req[r].pc \in {"listed", "resolve"} =>
       \A a \in Accounts \ watch[r].touched : req[r].entries[a] = entry[a]
  /\ req[r].pc = "listed" => DOMAIN req[r].cache = {}
  /\ req[r].pc = "resolve" => req[r].at <= AppClock
  /\ req[r].pc = "resolve" /\ InStep =>
       \A a \in Untouched(r) : Outlasted(req[r], entry[a]) => a \in watch[r].open

\* What the figures have, search by search.
EndedAt(e, t) == e.end # None /\ e.end <= t
StillLocked(r) == {a \in Untouched(r) : LockedNow(entry[a], req[r].filter)}
StillEnded(r) == {a \in Untouched(r) : EndedAt(entry[a], req[r].since)}

FigureFacts(r) ==
  /\ req[r].pc \in Counting /\ ~req[r].limited =>
       req[r].total <= Cardinality(There \cup watch[r].touched)
  /\ req[r].pc \in Counting /\ InStep =>
       \A a \in Untouched(r) : EndedAt(entry[a], req[r].since) \/ a \in watch[r].running
  /\ req[r].pc \in Counting \ {"figures"} => req[r].at <= AppClock
  /\ req[r].pc \in {"locked", "ended", "inactive"} /\ InStep =>
       \A a \in Untouched(r) : Lapsed(entry[a], req[r].filter) => a \in watch[r].open
  /\ req[r].pc \in {"ended", "inactive"} /\ ~req[r].limited =>
       Cardinality(StillLocked(r)) <= req[r].locked
  /\ req[r].pc = "inactive" /\ start.expiry /\ ~req[r].limited =>
       Cardinality(StillEnded(r)) <= req[r].ended
  /\ req[r].pc = "ended" => start.expiry

AnswerFacts(r) ==
  req[r].pc = "answered" /\ InStep /\ ~req[r].limited =>
    /\ req[r].op = "list" => req[r].answer \subseteq Usable(r)
    /\ req[r].op = "members" => req[r].answer \subseteq watch[r].open \cup watch[r].touched
    /\ req[r].op = "overview" => req[r].answer <= Cardinality(Usable(r))

ReadingFacts(r) == Fresh(r) /\ RowFacts(r) /\ FigureFacts(r) /\ AnswerFacts(r)
ReadInv == \A r \in Requests : ReadingFacts(r)

LEMMA AnswersAreSafe == Typed /\ ReadInv => LockedNeverReadsUsable
<1> SUFFICES ASSUME Typed, ReadInv, NEW r \in Requests, InStep, req[r].pc = "answered", ~req[r].limited
    PROVE LET unlocked == watch[r].open \cup watch[r].touched
              usable == (watch[r].open \cap watch[r].running) \cup watch[r].touched
          IN  CASE req[r].op = "list"     -> req[r].answer \subseteq usable
                [] req[r].op = "members"  -> req[r].answer \subseteq unlocked
                [] req[r].op = "overview" -> req[r].answer <= Cardinality(usable)
  BY DEF LockedNeverReadsUsable
<1>1. req[r].op \in {"list", "members", "overview"}
  BY NoneAssumption DEF Typed, Stored, Fitting, Request, Ops, Looks
<1>2. AnswerFacts(r)
  BY DEF ReadInv, ReadingFacts
<1>3. CASE req[r].op = "list"
  BY <1>2, <1>3 DEF AnswerFacts, Usable
<1>4. CASE req[r].op = "members"
  BY <1>2, <1>4 DEF AnswerFacts
<1>5. CASE req[r].op = "overview"
  BY <1>2, <1>5 DEF AnswerFacts, Usable
<1> QED
  BY <1>1, <1>3, <1>4, <1>5

\* What a step leaves of what was observed.
LEMMA Watched ==
  ASSUME Typed, Observe, NEW r \in Requests, Looking(r), Looking(r)'
  PROVE  /\ watch[r].open \subseteq watch'[r].open /\ Unlocked' \subseteq watch'[r].open
         /\ watch[r].running \subseteq watch'[r].running /\ Unended' \subseteq watch'[r].running
         /\ watch[r].touched \subseteq watch'[r].touched
         /\ \A a \in Accounts \ watch'[r].touched : entry'[a] = entry[a]
         /\ \A a \in Untouched(r)' : a \in Untouched(r) /\ entry'[a] = entry[a]
         /\ There \cup watch[r].touched \subseteq There' \cup watch'[r].touched
<1>1. watch'[r] = [open    |-> Unlocked' \cup watch[r].open,
                   running |-> Unended' \cup watch[r].running,
                   touched |-> watch[r].touched \cup {a \in Accounts : entry[a] # entry'[a]}]
  BY DEF Observe
<1>2. \A a \in Accounts \ watch'[r].touched : entry'[a] = entry[a]
  BY <1>1
<1> QED
  BY <1>1, <1>2 DEF Untouched, There

LEMMA FirstWatched ==
  ASSUME Observe, NEW r \in Requests, ~Looking(r), Looking(r)'
  PROVE  watch'[r] = [open |-> Unlocked', running |-> Unended', touched |-> {}]
  BY DEF Observe

LEMMA ObserveFresh ==
  ASSUME Typed, Observe, NEW r \in Requests
  PROVE  Fresh(r)'
<1>1. CASE Looking(r) /\ Looking(r)'
  BY <1>1, Watched DEF Fresh
<1>2. CASE ~Looking(r) /\ Looking(r)'
  BY <1>2, FirstWatched DEF Fresh
<1> QED
  BY <1>1, <1>2 DEF Fresh

\* A request that reads is one of Looks.
LEMMA Reading ==
  ASSUME Typed, NEW r \in Requests, req[r].pc \notin {"idle", "read", "write"}
  PROVE  Looking(r)
  BY DEF Typed, Stored, Fitting, Request, Ops, Looking

LEMMA Larger ==
  ASSUME NEW T \in SUBSET Accounts, NEW S \in SUBSET T
  PROVE  /\ Cardinality(S) \in Nat /\ Cardinality(T) \in Nat
         /\ Cardinality(S) <= Cardinality(T)
<1>1. IsFiniteSet(T) /\ Cardinality(T) \in Nat /\ Cardinality(S) \in Nat
  BY Sizes
<1> QED
  BY <1>1, FS_Subset

\* Whatever the others do, a reading can rely on what it had.
LEMMA ReadingKept ==
  ASSUME Typed, Typed', Observe, NEW r \in Requests, req'[r] = req[r],
         UNCHANGED start, now <= now', ReadingFacts(r)
  PROVE  ReadingFacts(r)'
<1> DEFINE q == req[r]
<1>1. Fresh(r)'
  BY ObserveFresh
<1>2. CASE q.pc \in {"idle", "read", "write"}
  BY <1>1, <1>2 DEF ReadingFacts, RowFacts, FigureFacts, AnswerFacts, Counting
<1>3. CASE q.pc \notin {"idle", "read", "write"}
  <2>1. Looking(r) /\ Looking(r)'
    BY <1>3, Reading DEF Looking
  <2>2. /\ watch[r].open \subseteq watch'[r].open /\ watch[r].running \subseteq watch'[r].running
        /\ watch[r].touched \subseteq watch'[r].touched
        /\ \A a \in Accounts \ watch'[r].touched : entry'[a] = entry[a]
        /\ \A a \in Untouched(r)' : a \in Untouched(r) /\ entry'[a] = entry[a]
        /\ There \cup watch[r].touched \subseteq There' \cup watch'[r].touched
    BY <2>1, Watched
  <2>3. AppClock <= AppClock' /\ AppClock \in Int /\ AppClock' \in Int /\ (InStep' <=> InStep)
    BY Settings, Clocks DEF AppClock, InStep, Typed, Stored, Pictured, Instants
  <2>4. /\ watch'[r] \in Watching /\ q \in Fitting
        /\ There' \subseteq Accounts /\ Untouched(r) \subseteq Accounts
    BY DEF Typed, Stored, There, Untouched
  <2>5. RowFacts(r)'
    <3>1. \A e : Outlasted(q, e)' <=> Outlasted(q, e)
      BY DEF Outlasted, PolicyDN
    <3>2. q.at \in Int
      BY <2>4 DEF Fitting, Request
    <3> QED
      BY <2>2, <2>3, <3>1, <3>2 DEF ReadingFacts, RowFacts
  <2>6. FigureFacts(r)'
    <3>1. q.at \in Int /\ q.total \in Nat /\ q.locked \in Nat /\ q.ended \in Nat
      BY <2>4 DEF Fitting, Request
    <3>2. Cardinality(There \cup watch[r].touched) <= Cardinality(There' \cup watch'[r].touched)
          /\ Cardinality(There \cup watch[r].touched) \in Nat
          /\ Cardinality(There' \cup watch'[r].touched) \in Nat
      BY <2>2, <2>4, Larger DEF Watching
    <3>3. /\ StillLocked(r)' \subseteq StillLocked(r) /\ StillLocked(r) \subseteq Accounts
          /\ StillEnded(r)' \subseteq StillEnded(r) /\ StillEnded(r) \subseteq Accounts
      BY <2>2, <2>4 DEF StillLocked, StillEnded, LockedNow, Lapsed, EndedAt
    <3>4. /\ Cardinality(StillLocked(r)') <= Cardinality(StillLocked(r))
          /\ Cardinality(StillLocked(r)') \in Nat /\ Cardinality(StillLocked(r)) \in Nat
          /\ Cardinality(StillEnded(r)') <= Cardinality(StillEnded(r))
          /\ Cardinality(StillEnded(r)') \in Nat /\ Cardinality(StillEnded(r)) \in Nat
      BY <3>3, Larger
    <3> QED
      BY <2>2, <2>3, <3>1, <3>2, <3>4 DEF ReadingFacts, FigureFacts, EndedAt, Lapsed
  <2>7. AnswerFacts(r)'
    <3>1. Usable(r) \subseteq Usable(r)' /\ Usable(r)' \in SUBSET Accounts
      BY <2>2, <2>4 DEF Usable, Watching
    <3>2. /\ Cardinality(Usable(r)) <= Cardinality(Usable(r)')
          /\ Cardinality(Usable(r)) \in Nat /\ Cardinality(Usable(r)') \in Nat
      BY <3>1, Larger
    <3>3. q.pc = "answered" /\ q.op = "overview" => q.answer \in Nat
      BY <2>4 DEF Fitting
    <3> QED
      BY <2>2, <2>3, <3>1, <3>2, <3>3 DEF ReadingFacts, AnswerFacts
  <2> QED
    BY <1>1, <2>5, <2>6, <2>7 DEF ReadingFacts
<1> QED
  BY <1>2, <1>3

\* A reading's own step: the directory stands still.
LEMMA StandsStill ==
  ASSUME Typed, NEW r \in Requests, Glance(r)
  PROVE  /\ AppClock' = AppClock /\ There' = There /\ Unlocked' = Unlocked /\ Unended' = Unended
         /\ (InStep' <=> InStep) /\ UNCHANGED <<start, now, entry, policy>>
<1>1. UNCHANGED <<start, now, entry, policy>>
  BY GlanceFits
<1> QED
  BY <1>1 DEF AppClock, There, Unlocked, Unended, RefusesLock, Governs, Ended, InStep

\* While a reading goes on, what was untouched is untouched.
LEMMA StillWatched ==
  ASSUME Typed, Observe, NEW r \in Requests, Glance(r), Looking(r), Looking(r)'
  PROVE  /\ watch[r].open \subseteq watch'[r].open /\ watch[r].running \subseteq watch'[r].running
         /\ Unlocked \subseteq watch'[r].open /\ Unended \subseteq watch'[r].running
         /\ watch'[r].touched = watch[r].touched
         /\ Untouched(r)' = Untouched(r)
<1>1. watch'[r] = [open    |-> Unlocked' \cup watch[r].open,
                   running |-> Unended' \cup watch[r].running,
                   touched |-> watch[r].touched \cup {a \in Accounts : entry[a] # entry'[a]}]
  BY DEF Observe
<1>2. /\ Unlocked' = Unlocked /\ Unended' = Unended /\ There' = There /\ UNCHANGED entry
  BY StandsStill
<1> QED
  BY <1>1, <1>2 DEF Untouched

LEMMA BeginRowsReads ==
  ASSUME Typed, Typed', Observe, NEW r \in Requests, NEW op \in {"list", "members"}, BeginRows(r, op)
  PROVE  ReadingFacts(r)'
<1>1. Fresh(r)'
  BY ObserveFresh
<1>2. req'[r] = [Idle EXCEPT !.op = op, !.pc = "listed", !.entries = entry]
  BY DEF BeginRows, Typed, Stored
<1>3. req'[r].pc = "listed" /\ req'[r].entries = entry /\ DOMAIN req'[r].cache = {}
  BY <1>2 DEF Idle
<1>4. UNCHANGED entry
  BY DEF BeginRows
<1> QED
  BY <1>1, <1>3, <1>4 DEF ReadingFacts, RowFacts, FigureFacts, AnswerFacts, Counting

LEMMA NewResolverReads ==
  ASSUME Typed, Typed', Observe, NEW r \in Requests, NewResolver(r), ReadingFacts(r)
  PROVE  ReadingFacts(r)'
<1> DEFINE q == req[r]
<1>1. Fresh(r)' /\ q \in Request /\ q.pc = "listed"
  BY ObserveFresh DEF NewResolver, Typed, Stored, Fitting
<1>2. req'[r] = [q EXCEPT !.pc = "resolve", !.at = AppClock]
  BY DEF NewResolver, Typed, Stored
<1> HIDE DEF q
<1>3. /\ req'[r].pc = "resolve" /\ req'[r].at = AppClock /\ req'[r].entries = q.entries
      /\ req'[r].cache = q.cache /\ req'[r].op = q.op
  BY <1>1, <1>2 DEF Request
<1>4. Looking(r) /\ Looking(r)' /\ Glance(r)
  BY <1>1, <1>3, Reading DEF Looking, q, Glance
<1>5. AppClock' = AppClock /\ AppClock \in Int /\ UNCHANGED entry
  BY <1>4, StandsStill, Clocks DEF Typed, Stored
<1>6. \A a \in Accounts \ watch'[r].touched : q.entries[a] = entry[a]
  BY <1>1, <1>4, StillWatched DEF ReadingFacts, RowFacts, q
<1>7. DOMAIN q.cache = {}
  BY <1>1 DEF ReadingFacts, RowFacts, q
<1>8. RowFacts(r)'
  BY <1>3, <1>5, <1>6, <1>7 DEF RowFacts, Outlasted
<1> QED
  BY <1>1, <1>3, <1>8 DEF ReadingFacts, FigureFacts, AnswerFacts, Counting

\* In step with the server, a policy that was read lets the lock go there too.
LEMMA LetsGo ==
  ASSUME Pictured, InStep, NEW a \in There, entry[a].lock \in Instants,
         PolicyDN(entry[a]) \in Policies, policy[PolicyDN(entry[a])] # None,
         policy[PolicyDN(entry[a])] > 0, AppClock >= entry[a].lock + policy[PolicyDN(entry[a])]
  PROVE  a \in Unlocked
<1>1. /\ entry[a] \in Entry /\ a \in Accounts /\ entry[a] # None
      /\ entry[a].own \in Policies \cup {None}
  BY DEF Pictured, Entries, There, Entry
<1>2. Governs(entry[a]) = PolicyDN(entry[a])
  BY <1>1, ValuesAssumption DEF Governs, PolicyDN, InStep
<1>3. AppClock = now
  BY Clocks DEF AppClock, InStep
<1> DEFINE d == policy[PolicyDN(entry[a])]
           lock == entry[a].lock
<1>4. d \in Nat /\ lock \in Nat /\ now \in Nat /\ PolicyDN(entry[a]) # None
  BY Clocks, LockValues, ValuesAssumption DEF Pictured
<1>5. ~(d = None \/ d = 0 \/ now < lock + d)
  <2> HIDE DEF d, lock
  <2>1. now >= lock + d /\ d > 0 /\ d # None
    BY <1>3 DEF d, lock
  <2> QED
    BY <1>4, <2>1
<1>6. ~RefusesLock(entry[a])
  BY <1>2, <1>4, <1>5, LockValues DEF RefusesLock
<1> QED
  BY <1>1, <1>6 DEF Unlocked

LEMMA ResolveReads ==
  ASSUME Typed, Typed', Observe, NEW r \in Requests, ResolvePolicy(r), ReadingFacts(r)
  PROVE  ReadingFacts(r)'
<1> DEFINE q == req[r]
<1>1. Fresh(r)' /\ q \in Fitting /\ q \in Request /\ q.pc = "resolve"
  BY ObserveFresh DEF ResolvePolicy, Typed, Stored, Fitting
<1>2. PICK p \in Wanted(q.entries) \ DOMAIN q.cache :
        req' = [req EXCEPT ![r].cache =
                  [x \in DOMAIN @ \cup {p} |-> IF x = p THEN GetPasswordPolicy(p) ELSE @[x]]]
  BY DEF ResolvePolicy
<1> DEFINE c == [x \in DOMAIN q.cache \cup {p} |-> IF x = p THEN GetPasswordPolicy(p) ELSE q.cache[x]]
<1>3. req'[r] = [q EXCEPT !.cache = c]
  BY <1>2 DEF Typed, Stored
<1>4. p \in Policies
  BY <1>1, <1>2, WantedArePolicies DEF Fitting, Typed, Stored
<1> HIDE DEF q
<1>5. /\ DOMAIN c = DOMAIN q.cache \cup {p} /\ c[p] = GetPasswordPolicy(p)
      /\ \A x \in DOMAIN q.cache : c[x] = q.cache[x]
  BY <1>2
<1> HIDE DEF c
<1>6. /\ req'[r].pc = "resolve" /\ req'[r].at = q.at /\ req'[r].entries = q.entries
      /\ req'[r].cache = c /\ req'[r].op = q.op /\ q.at \in Int
  BY <1>1, <1>3 DEF Request
<1>7. Looking(r) /\ Looking(r)' /\ Glance(r)
  BY <1>1, <1>6, Reading DEF Looking, q, Glance
<1>8. AppClock' = AppClock /\ AppClock \in Int /\ UNCHANGED <<entry, start>> /\ (InStep' <=> InStep)
  BY <1>7, StandsStill, Clocks DEF Typed, Stored
<1>9. /\ watch[r].open \subseteq watch'[r].open /\ Unlocked \subseteq watch'[r].open
      /\ watch'[r].touched = watch[r].touched /\ Untouched(r)' = Untouched(r)
  BY <1>7, StillWatched
<1>10. q.at <= AppClock
  BY <1>1 DEF ReadingFacts, RowFacts, q
<1>11. ASSUME InStep, NEW a \in Untouched(r), Outlasted(req'[r], entry[a])
       PROVE  a \in watch'[r].open
  <2> DEFINE n == PolicyDN(entry[a])
             lock == entry[a].lock
  <2>1. /\ n \in DOMAIN c /\ c[n] # None /\ c[n] > 0 /\ lock \in Instants /\ q.at >= lock + c[n]
    BY <1>6, <1>11 DEF Outlasted
  <2>2. CASE n \in DOMAIN q.cache
    <3>1. Outlasted(q, entry[a])
      BY <1>5, <2>1, <2>2 DEF Outlasted
    <3> QED
      BY <1>1, <1>9, <1>11, <3>1 DEF ReadingFacts, RowFacts, q
  <2>3. CASE n = p
    <3>1. GetPasswordPolicy(p) # None /\ GetPasswordPolicy(p) = policy[p]
      BY <1>4, <1>5, <2>1, <2>3, PoliciesRead DEF Typed, Stored
    <3>2. policy[p] \in Nat /\ lock \in Nat
      BY <1>4, <2>1, <3>1, LockValues DEF Typed, Stored, Pictured
    <3> HIDE DEF n, lock
    <3>3. AppClock >= lock + policy[p] /\ policy[p] > 0
      BY <1>5, <1>6, <1>8, <1>10, <2>1, <2>3, <3>1, <3>2
    <3> USE DEF n, lock
    <3>4. a \in Unlocked
      BY <1>4, <1>11, <2>1, <2>3, <3>1, <3>3, LetsGo DEF Typed, Stored, Untouched
    <3> QED
      BY <1>9, <3>4
  <2> QED
    BY <1>5, <2>1, <2>2, <2>3
<1>12. \A a \in Accounts \ watch'[r].touched : q.entries[a] = entry[a]
  BY <1>1, <1>9 DEF ReadingFacts, RowFacts, q
<1>13. \A e : Outlasted(req[r], e)' <=> Outlasted(req'[r], e)
  BY <1>8 DEF Outlasted, PolicyDN
<1>14. RowFacts(r)'
  BY <1>6, <1>8, <1>9, <1>10, <1>11, <1>12, <1>13 DEF RowFacts
<1> QED
  BY <1>1, <1>6, <1>14 DEF ReadingFacts, FigureFacts, AnswerFacts, Counting

LEMMA AnswerListReads ==
  ASSUME Typed, Typed', Observe, NEW r \in Requests, AnswerList(r), ReadingFacts(r)
  PROVE  ReadingFacts(r)'
<1> DEFINE q == req[r]
           usable == {a \in Accounts : /\ q.entries[a] # None
                                       /\ ~Locked(Resolved(q, q.entries[a]))
                                       /\ q.op = "list" => ~Expired(q.entries[a])}
<1>1. Fresh(r)' /\ q \in Fitting /\ q \in Request /\ q.pc = "resolve"
  BY ObserveFresh DEF AnswerList, Typed, Stored, Fitting
<1>2. req'[r] = [Idle EXCEPT !.op = q.op, !.pc = "answered", !.answer = usable]
  BY DEF AnswerList, Typed, Stored
<1> HIDE DEF q, usable
<1>3. req'[r].pc = "answered" /\ req'[r].op = q.op /\ req'[r].answer = usable
  BY <1>2, IdleFits DEF Fitting, Request
<1>4. Looking(r) /\ Looking(r)' /\ Glance(r)
  BY <1>1, <1>3, Reading DEF Looking, q, Glance
<1>5. /\ AppClock' = AppClock /\ AppClock \in Int /\ UNCHANGED <<entry, start>> /\ (InStep' <=> InStep)
      /\ now \in Int /\ start.skew \in Int
  BY <1>4, StandsStill, Clocks, Settings DEF Typed, Stored, Pictured
<1>6. /\ watch[r].open \subseteq watch'[r].open /\ watch[r].running \subseteq watch'[r].running
      /\ Unlocked \subseteq watch'[r].open /\ Unended \subseteq watch'[r].running
      /\ watch'[r].touched = watch[r].touched /\ Untouched(r)' = Untouched(r)
  BY <1>4, StillWatched
<1>7. ASSUME InStep, NEW a \in usable, a \notin watch[r].touched
      PROVE  /\ a \in watch'[r].open
             /\ q.op = "list" => a \in watch'[r].running
  <2> DEFINE e == entry[a]
             d == IF PolicyDN(e) \in DOMAIN q.cache THEN q.cache[PolicyDN(e)] ELSE None
  <2>1. q.entries[a] = e /\ e # None /\ a \in There /\ a \in Untouched(r) /\ e \in Entry
    BY <1>1, <1>7 DEF usable, ReadingFacts, RowFacts, q, There, Untouched, Typed, Stored, Pictured, Entries
  <2>2. ~Locked(lockoutFor(e.lock, d, q.at)) /\ (q.op = "list" => ~Expired(e))
    BY <1>7, <2>1 DEF usable, Resolved
  <2>3. d \in Instants \cup {None} /\ e.lock \in Instants \cup {None, Permanent, Garbled} /\ q.at \in Int
    BY <1>1, <2>1 DEF Request, Caches, Entry
  <2> HIDE DEF e, d
  <2>4. e.lock = None \/ (e.lock \in Instants /\ d # None /\ d > 0 /\ q.at >= e.lock + d)
    BY <2>2, <2>3, Reported
  <2>5. a \in watch'[r].open
    <3>1. CASE e.lock = None
      <4>1. ~RefusesLock(e)
        BY <3>1, LockValues DEF RefusesLock
      <4> QED
        BY <1>6, <2>1, <4>1 DEF Unlocked, There, e
    <3>2. CASE e.lock \in Instants /\ d # None /\ d > 0 /\ q.at >= e.lock + d
      <4>1. Outlasted(q, e)
        BY <3>2 DEF Outlasted, d
      <4> QED
        BY <1>1, <1>6, <1>7, <2>1, <4>1 DEF ReadingFacts, RowFacts, q, e
    <3> QED
      BY <2>4, <3>1, <3>2
  <2>6. q.op = "list" => a \in watch'[r].running
    <3>1. ~Expired(e) => ~Ended(e)
      BY <1>5, <1>7 DEF Expired, Ended, AppClock, InStep
    <3> QED
      BY <1>6, <2>1, <2>2, <3>1 DEF Unended, There, e
  <2> QED
    BY <2>5, <2>6
<1>8. q.op \in {"list", "members"}
  BY <1>1 DEF Fitting
<1>9. AnswerFacts(r)'
  BY <1>3, <1>5, <1>6, <1>7, <1>8 DEF AnswerFacts, Usable
<1> QED
  BY <1>1, <1>3, <1>9 DEF ReadingFacts, RowFacts, FigureFacts, Counting

\* What a count leaves: fewer than there are only when the answer says so.
LEMMA Counted ==
  ASSUME Typed, NEW r \in Requests, NEW S \in SUBSET Accounts, NEW x \in Request, NEW n, Count(r, S, x, n)
  PROVE  /\ n \in Nat /\ req'[r] = [x EXCEPT !.limited = @ \/ n < Cardinality(S)]
         /\ ~req'[r].limited => ~x.limited /\ n = Cardinality(S)
<1>1. n \in 0..Cardinality(S) /\ Cardinality(S) \in Nat
  BY Sizes DEF Count
<1>2. req'[r] = [x EXCEPT !.limited = @ \/ n < Cardinality(S)]
  BY DEF Count, Typed, Stored
<1> DEFINE short == n < Cardinality(S)
<1>3. req'[r].limited <=> (x.limited \/ short)
  BY <1>2 DEF Request
<1>4. ~short => n = Cardinality(S)
  BY <1>1
<1> HIDE DEF short
<1>5. ~req'[r].limited => ~x.limited /\ n = Cardinality(S)
  BY <1>3, <1>4
<1> QED
  BY <1>1, <1>2, <1>5

LEMMA CountUsersReads ==
  ASSUME Typed, Typed', Observe, NEW r \in Requests, CountUsers(r)
  PROVE  ReadingFacts(r)'
<1>1. Fresh(r)'
  BY ObserveFresh
<1>2. PICK n \in 0..Cardinality(There) :
        Count(r, There, [Idle EXCEPT !.op = "overview", !.pc = "figures",
                                     !.since = AppClock, !.total = n], n)
  BY DEF CountUsers
<1> DEFINE x == [Idle EXCEPT !.op = "overview", !.pc = "figures", !.since = AppClock, !.total = n]
<1>3. There \in SUBSET Accounts
  BY DEF There
<1>4. n \in Nat /\ "overview" \in Ops /\ "figures" \in Places /\ AppClock \in Int
  BY <1>3, Sizes, Clocks DEF Ops, Looks, Places, Typed, Stored
<1>5. /\ x \in Request /\ x.pc = "figures" /\ x.op = "overview" /\ x.total = n
      /\ x.since = AppClock
  BY <1>4, IdleFits DEF Fitting, Request
<1> HIDE DEF x
<1>6. /\ req'[r] = [x EXCEPT !.limited = @ \/ n < Cardinality(There)]
      /\ ~req'[r].limited => n = Cardinality(There)
  <2>1. Count(r, There, x, n)
    BY <1>2 DEF x
  <2> QED
    BY <1>3, <1>5, <2>1, Counted
<1>7. /\ req'[r].pc = "figures" /\ req'[r].op = "overview" /\ req'[r].total = n
      /\ req'[r].since = AppClock
  BY <1>5, <1>6 DEF Request
<1>8. ~Looking(r) /\ Looking(r)' /\ Glance(r)
  BY <1>7, NoneAssumption DEF CountUsers, Looking, Looks, Edits, Glance, Typed, Stored, Fitting
<1>9. /\ AppClock' = AppClock /\ There' = There /\ Unended' = Unended /\ UNCHANGED entry
      /\ (InStep' <=> InStep)
  BY <1>8, StandsStill
<1>10. watch'[r].touched = {} /\ watch'[r].running = Unended
  BY <1>8, <1>9, FirstWatched
<1>11. ASSUME InStep, NEW a \in There, ~EndedAt(entry[a], AppClock) PROVE a \in Unended
  <2>1. AppClock = now
    BY <1>11, Clocks DEF InStep, AppClock, Typed, Stored
  <2> QED
    BY <1>11, <2>1 DEF EndedAt, Ended, Unended, There
<1>12. FigureFacts(r)'
  <2>1. There \cup {} = There /\ n \in Nat
    BY <1>4
  <2> QED
    BY <1>6, <1>7, <1>9, <1>10, <1>11, <2>1 DEF FigureFacts, Untouched, EndedAt, There
<1> QED
  BY <1>1, <1>7, <1>12 DEF ReadingFacts, RowFacts, AnswerFacts

LEMMA AskTimeReads ==
  ASSUME Typed, Typed', Observe, NEW r \in Requests, AskTime(r), ReadingFacts(r)
  PROVE  ReadingFacts(r)'
<1> DEFINE q == req[r]
<1>1. Fresh(r)' /\ q \in Request /\ q.pc = "figures"
  BY ObserveFresh DEF AskTime, Typed, Stored, Fitting
<1>2. req'[r] = [q EXCEPT !.pc = "policies", !.at = AppClock]
  BY DEF AskTime, Typed, Stored
<1> HIDE DEF q
<1>3. /\ req'[r].pc = "policies" /\ req'[r].at = AppClock /\ req'[r].op = q.op
      /\ req'[r].total = q.total /\ req'[r].since = q.since /\ req'[r].limited = q.limited
  BY <1>1, <1>2 DEF Request
<1>4. Looking(r) /\ Looking(r)' /\ Glance(r)
  BY <1>1, <1>3, Reading DEF Looking, q, Glance
<1>5. /\ AppClock' = AppClock /\ AppClock \in Int /\ There' = There /\ UNCHANGED entry
      /\ (InStep' <=> InStep)
  BY <1>4, StandsStill, Clocks DEF Typed, Stored
<1>6. /\ watch[r].running \subseteq watch'[r].running
      /\ watch'[r].touched = watch[r].touched /\ Untouched(r)' = Untouched(r)
  BY <1>4, StillWatched
<1>7. FigureFacts(r)'
  BY <1>1, <1>3, <1>5, <1>6 DEF ReadingFacts, FigureFacts, Counting, EndedAt, q
<1> QED
  BY <1>1, <1>3, <1>7 DEF ReadingFacts, RowFacts, AnswerFacts

LEMMA ListPoliciesReads ==
  ASSUME Typed, Typed', Observe, NEW r \in Requests, ListPolicies(r), ReadingFacts(r)
  PROVE  ReadingFacts(r)'
<1> DEFINE q == req[r]
<1>1. Fresh(r)' /\ q \in Request /\ q.pc = "policies"
  BY ObserveFresh DEF ListPolicies, Typed, Stored, Fitting
<1>2. PICK filter \in {LapsedFilter(ListPasswordPolicies, q.at)} \cup {{}} :
        req' = [req EXCEPT ![r].pc = "locked", ![r].filter = filter]
  BY DEF ListPolicies
<1>3. req'[r] = [q EXCEPT !.pc = "locked", !.filter = filter]
  BY <1>2 DEF Typed, Stored
<1> HIDE DEF q
<1>4. /\ req'[r].pc = "locked" /\ req'[r].filter = filter /\ req'[r].at = q.at /\ req'[r].op = q.op
      /\ req'[r].total = q.total /\ req'[r].since = q.since /\ req'[r].limited = q.limited
      /\ q.at \in Int
  BY <1>1, <1>3 DEF Request
<1>5. Looking(r) /\ Looking(r)' /\ Glance(r)
  BY <1>1, <1>4, Reading DEF Looking, q, Glance
<1>6. /\ AppClock' = AppClock /\ AppClock \in Int /\ There' = There /\ UNCHANGED entry
      /\ (InStep' <=> InStep)
  BY <1>5, StandsStill, Clocks DEF Typed, Stored
<1>7. /\ watch[r].running \subseteq watch'[r].running /\ Unlocked \subseteq watch'[r].open
      /\ watch'[r].touched = watch[r].touched /\ Untouched(r)' = Untouched(r)
  BY <1>5, StillWatched
<1>8. q.at <= AppClock
  BY <1>1 DEF ReadingFacts, FigureFacts, Counting, q
<1>9. ASSUME InStep, NEW a \in Untouched(r), Lapsed(entry[a], filter)
      PROVE  a \in watch'[r].open
  <2> DEFINE e == entry[a]
             p == PolicyDN(e)
  <2>1. a \in There /\ e \in Entry /\ Pictured
    BY DEF Untouched, There, Typed, Stored, Pictured, Entries
  <2>2. filter = LapsedFilter(ListPasswordPolicies, q.at)
    BY <1>2, <1>9 DEF Lapsed
  <2>3. /\ e.lock \in Instants /\ p \in DOMAIN ListPasswordPolicies
        /\ policy[p] > 0 /\ e.lock <= q.at - policy[p]
    BY <1>4, <1>9, <2>1, <2>2, FilterLapses
  <2>4. p \in Policies /\ policy[p] \in Instants
    <3>1. p \in Policies
      BY <2>1, <2>3, Settings DEF ListPasswordPolicies, Pictured
    <3> QED
      BY <2>1, <2>3, <3>1, PoliciesRead
  <2> DEFINE lock == e.lock
             d == policy[p]
  <2>5. lock \in Nat /\ d \in Nat /\ d # None
    BY <2>3, <2>4, LockValues
  <2>6. AppClock >= lock + d
    <3>1. lock <= q.at - d
      BY <2>3
    <3> HIDE DEF lock, d
    <3> QED
      BY <1>4, <1>6, <1>8, <2>5, <3>1
  <2>7. a \in Unlocked
    BY <1>9, <2>1, <2>3, <2>4, <2>5, <2>6, LetsGo
  <2> QED
    BY <1>7, <2>7
<1>10. FigureFacts(r)'
  BY <1>1, <1>4, <1>6, <1>7, <1>8, <1>9 DEF ReadingFacts, FigureFacts, Counting, EndedAt, Lapsed, q
<1> QED
  BY <1>1, <1>4, <1>10 DEF ReadingFacts, RowFacts, AnswerFacts

LEMMA CountLockedReads ==
  ASSUME Typed, Typed', Observe, NEW r \in Requests, CountLocked(r), ReadingFacts(r)
  PROVE  ReadingFacts(r)'
<1> DEFINE q == req[r]
           pc == IF start.expiry THEN "ended" ELSE "inactive"
           S == LockedBy(q.filter)
<1>1. Fresh(r)' /\ q \in Request /\ q.pc = "locked"
  BY ObserveFresh DEF CountLocked, Typed, Stored, Fitting
<1>2. PICK n \in 0..Cardinality(There) : Count(r, S, [q EXCEPT !.pc = pc, !.locked = n], n)
  BY DEF CountLocked
<1>3. S \in SUBSET Accounts /\ There \in SUBSET Accounts
  BY DEF LockedBy, There
<1>4. n \in Nat /\ pc \in Places /\ pc \in {"ended", "inactive"} /\ (pc = "ended" <=> start.expiry)
  BY <1>3, Sizes DEF Places
<1> HIDE DEF q, pc
<1> DEFINE x == [q EXCEPT !.pc = pc, !.locked = n]
<1>5. /\ x \in Request /\ x.pc = pc /\ x.locked = n /\ x.filter = q.filter /\ x.at = q.at
      /\ x.op = q.op /\ x.total = q.total /\ x.since = q.since /\ x.limited = q.limited
  BY <1>1, <1>4 DEF Request
<1>6. Count(r, S, x, n)
  BY <1>2
<1> HIDE DEF x, S
<1>7. /\ req'[r] = [x EXCEPT !.limited = @ \/ n < Cardinality(S)]
      /\ ~req'[r].limited => ~x.limited /\ n = Cardinality(S)
  BY <1>3, <1>5, <1>6, Counted
<1>8. /\ req'[r].pc = pc /\ req'[r].locked = n /\ req'[r].filter = q.filter /\ req'[r].at = q.at
      /\ req'[r].op = q.op /\ req'[r].total = q.total /\ req'[r].since = q.since
  BY <1>5, <1>7 DEF Request
<1>9. Looking(r) /\ Looking(r)' /\ Glance(r)
  BY <1>1, <1>8, Reading DEF Looking, q, Glance
<1>10. /\ AppClock' = AppClock /\ There' = There /\ UNCHANGED <<entry, start>> /\ (InStep' <=> InStep)
  BY <1>9, StandsStill
<1>11. /\ watch[r].running \subseteq watch'[r].running /\ watch[r].open \subseteq watch'[r].open
       /\ watch'[r].touched = watch[r].touched /\ Untouched(r)' = Untouched(r)
  BY <1>9, StillWatched
<1>12. ~req'[r].limited => Cardinality(StillLocked(r)') <= n
  <2>1. StillLocked(r)' \subseteq S
    BY <1>8, <1>10, <1>11 DEF StillLocked, S, LockedBy, Untouched, There, LockedNow, Lapsed
  <2> QED
    BY <1>3, <1>7, <2>1, Larger
<1>13. FigureFacts(r)'
  BY <1>1, <1>4, <1>5, <1>7, <1>8, <1>10, <1>11, <1>12
     DEF ReadingFacts, FigureFacts, Counting, EndedAt, Lapsed, q
<1> QED
  BY <1>1, <1>4, <1>8, <1>13 DEF ReadingFacts, RowFacts, AnswerFacts

LEMMA CountEndedReads ==
  ASSUME Typed, Typed', Observe, NEW r \in Requests, CountEnded(r), ReadingFacts(r)
  PROVE  ReadingFacts(r)'
<1> DEFINE q == req[r]
           S == EndedBy(q.since)
<1>1. Fresh(r)' /\ q \in Request /\ q.pc = "ended"
  BY ObserveFresh DEF CountEnded, Typed, Stored, Fitting
<1>2. PICK n \in 0..Cardinality(There) : Count(r, S, [q EXCEPT !.pc = "inactive", !.ended = n], n)
  BY DEF CountEnded
<1>3. S \in SUBSET Accounts /\ There \in SUBSET Accounts
  BY DEF EndedBy, There
<1>4. n \in Nat /\ "inactive" \in Places
  BY <1>3, Sizes DEF Places
<1> HIDE DEF q
<1> DEFINE x == [q EXCEPT !.pc = "inactive", !.ended = n]
<1>5. /\ x \in Request /\ x.pc = "inactive" /\ x.ended = n /\ x.filter = q.filter /\ x.at = q.at
      /\ x.op = q.op /\ x.total = q.total /\ x.since = q.since /\ x.limited = q.limited
      /\ x.locked = q.locked
  BY <1>1, <1>4 DEF Request
<1>6. Count(r, S, x, n)
  BY <1>2
<1> HIDE DEF x, S
<1>7. /\ req'[r] = [x EXCEPT !.limited = @ \/ n < Cardinality(S)]
      /\ ~req'[r].limited => ~x.limited /\ n = Cardinality(S)
  <2>1. x \in Request
    BY <1>5
  <2> QED
    BY <1>3, <1>6, <2>1, Counted, ZenonT(30)
<1>8. /\ req'[r].pc = "inactive" /\ req'[r].ended = n /\ req'[r].filter = q.filter /\ req'[r].at = q.at
      /\ req'[r].op = q.op /\ req'[r].total = q.total /\ req'[r].since = q.since
      /\ req'[r].locked = q.locked
  BY <1>5, <1>7 DEF Request
<1>9. Looking(r) /\ Looking(r)' /\ Glance(r)
  BY <1>1, <1>8, Reading DEF Looking, q, Glance
<1>10. /\ AppClock' = AppClock /\ There' = There /\ UNCHANGED <<entry, start>> /\ (InStep' <=> InStep)
  BY <1>9, StandsStill
<1>11. /\ watch[r].running \subseteq watch'[r].running /\ watch[r].open \subseteq watch'[r].open
       /\ watch'[r].touched = watch[r].touched /\ Untouched(r)' = Untouched(r)
  BY <1>9, StillWatched
<1>12. StillLocked(r)' = StillLocked(r)
  BY <1>8, <1>10, <1>11 DEF StillLocked, LockedNow, Lapsed, q
<1>13. ~req'[r].limited => Cardinality(StillEnded(r)') <= n
  <2>1. StillEnded(r)' \subseteq S
    BY <1>8, <1>10, <1>11 DEF StillEnded, S, EndedBy, EndedAt, Untouched, There
  <2> QED
    BY <1>3, <1>7, <2>1, Larger
<1>14. FigureFacts(r)'
  BY <1>1, <1>5, <1>7, <1>8, <1>10, <1>11, <1>12, <1>13
     DEF ReadingFacts, FigureFacts, Counting, EndedAt, Lapsed, q
<1> QED
  BY <1>1, <1>8, <1>14 DEF ReadingFacts, RowFacts, AnswerFacts

\* Of those there were at first, all but the locked and the ended may be called usable.
LEMMA Leftover ==
  ASSUME Typed, NEW T \in SUBSET Accounts, NEW S \in SUBSET Accounts, NEW U \in SUBSET Accounts,
         T \subseteq S \cup U
  PROVE  /\ Cardinality(T) <= Cardinality(S) + Cardinality(U)
         /\ Cardinality(T) \in Nat /\ Cardinality(S) \in Nat /\ Cardinality(U) \in Nat
<1>1. IsFiniteSet(S) /\ IsFiniteSet(U) /\ Cardinality(S) \in Nat /\ Cardinality(U) \in Nat
  BY Sizes
<1>2. Cardinality(S \cup U) <= Cardinality(S) + Cardinality(U)
  <2>1. /\ Cardinality(S \cup U) = Cardinality(S) + Cardinality(U) - Cardinality(S \cap U)
        /\ Cardinality(S \cap U) \in Nat
    BY <1>1, FS_Union, Sizes
  <2> QED
    BY <1>1, <2>1
<1>3. Cardinality(T) <= Cardinality(S \cup U) /\ Cardinality(T) \in Nat /\ Cardinality(S \cup U) \in Nat
  BY Larger
<1> QED
  BY <1>1, <1>2, <1>3

LEMMA AnswerOverviewReads ==
  ASSUME Typed, Typed', Observe, NEW r \in Requests, AnswerOverview(r), ReadingFacts(r)
  PROVE  ReadingFacts(r)'
<1> DEFINE q == req[r]
           answered(n) == [Idle EXCEPT !.op = "overview", !.pc = "answered",
                                       !.limited = q.limited, !.answer = Active(q.total, n)]
           union == LockedBy(q.filter) \cup EndedBy(q.since)
           T == There \cup watch[r].touched
<1>1. Fresh(r)' /\ q \in Request /\ q.pc = "inactive"
  BY ObserveFresh DEF AnswerOverview, Typed, Stored, Fitting
<1>2. /\ q.total \in Nat /\ q.locked \in Nat /\ q.ended \in Nat /\ q.limited \in BOOLEAN
      /\ \A n \in Nat : Active(q.total, n) \in Nat
  BY <1>1 DEF Request, Active
<1>3. \/ q.locked = 0 /\ q.ended = 0 /\ req' = [req EXCEPT ![r] = answered(0)]
      \/ q.locked > 0 /\ ~start.expiry /\ req' = [req EXCEPT ![r] = answered(q.locked)]
      \/ \E n \in 0..Cardinality(There) : Count(r, union, answered(n), n)
  BY DEF AnswerOverview
<1>4. union \in SUBSET Accounts /\ There \in SUBSET Accounts /\ Cardinality(There) \in Nat
  BY Sizes DEF LockedBy, EndedBy, There
<1>5. ASSUME NEW n \in Nat
      PROVE  /\ answered(n) \in Request /\ answered(n).pc = "answered" /\ answered(n).op = "overview"
             /\ answered(n).limited = q.limited /\ answered(n).answer = Active(q.total, n)
  <2> DEFINE v == Active(q.total, n)
  <2>1. v \in Answers /\ "overview" \in Ops /\ "answered" \in Places
    BY <1>2 DEF Answers, Ops, Looks, Places
  <2> HIDE DEF v
  <2>2. LET x == [Idle EXCEPT !.op = "overview", !.pc = "answered", !.limited = q.limited, !.answer = v]
        IN  x \in Request /\ x.pc = "answered" /\ x.op = "overview" /\ x.limited = q.limited /\ x.answer = v
    BY <1>2, <2>1, IdleFits DEF Fitting, Request
  <2> QED
    BY <2>2 DEF v
<1>6. \E n \in Nat :
        /\ req'[r].pc = "answered" /\ req'[r].op = "overview" /\ req'[r].answer = Active(q.total, n)
        /\ ~req'[r].limited =>
             /\ ~q.limited
             /\ \/ q.locked = 0 /\ q.ended = 0 /\ n = 0
                \/ ~start.expiry /\ n = q.locked
                \/ n = Cardinality(union)
  <2> HIDE DEF answered, union, q
  <2>1. CASE q.locked = 0 /\ q.ended = 0 /\ req' = [req EXCEPT ![r] = answered(0)]
    <3>1. req'[r] = answered(0)
      BY <2>1 DEF Typed, Stored
    <3> QED
      BY <1>5, <2>1, <3>1
  <2>2. CASE ~start.expiry /\ req' = [req EXCEPT ![r] = answered(q.locked)]
    <3>1. req'[r] = answered(q.locked)
      BY <2>2 DEF Typed, Stored
    <3> QED
      BY <1>2, <1>5, <2>2, <3>1
  <2>3. ASSUME NEW n \in 0..Cardinality(There), Count(r, union, answered(n), n)
        PROVE  /\ n \in Nat
               /\ req'[r].pc = "answered" /\ req'[r].op = "overview" /\ req'[r].answer = Active(q.total, n)
               /\ ~req'[r].limited => ~q.limited /\ n = Cardinality(union)
    <3>1. n \in Nat
      BY <1>4
    <3> DEFINE x == answered(n)
    <3>2. /\ x \in Request /\ x.pc = "answered" /\ x.op = "overview"
          /\ x.limited = q.limited /\ x.answer = Active(q.total, n)
      BY <1>5, <3>1
    <3>3. Count(r, union, x, n)
      BY <2>3
    <3> HIDE DEF x
    <3>4. /\ req'[r] = [x EXCEPT !.limited = @ \/ n < Cardinality(union)]
          /\ ~req'[r].limited => ~x.limited /\ n = Cardinality(union)
      BY <1>4, <3>2, <3>3, Counted
    <3>5. req'[r].pc = x.pc /\ req'[r].op = x.op /\ req'[r].answer = x.answer
      BY <3>2, <3>4 DEF Request
    <3> QED
      BY <3>1, <3>2, <3>4, <3>5
  <2> QED
    BY <1>3, <2>1, <2>2, <2>3
<1>7. PICK n \in Nat :
        /\ req'[r].pc = "answered" /\ req'[r].op = "overview" /\ req'[r].answer = Active(q.total, n)
        /\ ~req'[r].limited =>
             /\ ~q.limited
             /\ \/ q.locked = 0 /\ q.ended = 0 /\ n = 0
                \/ ~start.expiry /\ n = q.locked
                \/ n = Cardinality(union)
  BY <1>6
<1>8. Looking(r) /\ Looking(r)' /\ Glance(r)
  BY <1>1, <1>7, Reading DEF Looking, Looks, Glance
<1>9. (InStep' <=> InStep) /\ There' = There /\ UNCHANGED <<entry, start>>
  BY <1>8, StandsStill
<1>10. /\ watch[r].open \subseteq watch'[r].open /\ watch[r].running \subseteq watch'[r].running
       /\ Unlocked \subseteq watch'[r].open /\ Unended \subseteq watch'[r].running
       /\ watch'[r].touched = watch[r].touched /\ watch[r] \in Watching /\ watch'[r] \in Watching
  BY <1>8, StillWatched DEF Typed
<1> HIDE DEF q, answered
<1>11. ASSUME InStep, ~req'[r].limited
       PROVE  q.total <= n + Cardinality(Usable(r)') /\ Cardinality(Usable(r)') \in Nat
  <2> DEFINE U == Usable(r)'
  <2>1. U \in SUBSET Accounts /\ T \in SUBSET Accounts /\ watch[r].touched \subseteq U
    BY <1>4, <1>10 DEF Usable, Watching
  <2>2. \A a \in Untouched(r) : a \notin U => LockedNow(entry[a], q.filter) \/ EndedAt(entry[a], q.since)
    <3> SUFFICES ASSUME NEW a \in Untouched(r), ~LockedNow(entry[a], q.filter), ~EndedAt(entry[a], q.since)
                 PROVE  a \in U
      OBVIOUS
    <3>1. a \in watch'[r].running
      BY <1>1, <1>10, <1>11 DEF ReadingFacts, FigureFacts, Counting, q
    <3>2. a \in watch'[r].open
      <4>1. CASE entry[a].lock = None
        <5>1. ~RefusesLock(entry[a])
          BY <4>1, LockValues DEF RefusesLock
        <5> QED
          BY <1>10, <5>1 DEF Unlocked, Untouched, There
      <4>2. CASE Lapsed(entry[a], q.filter)
        BY <1>1, <1>10, <1>11, <4>2 DEF ReadingFacts, FigureFacts, q
      <4> QED
        BY <4>1, <4>2 DEF LockedNow
    <3> QED
      BY <3>1, <3>2 DEF Usable
  <2>3. \A a \in T : a \in Untouched(r) \/ a \in U
    BY <2>1 DEF Untouched
  <2>4. q.total <= Cardinality(T)
    BY <1>1, <1>7, <1>11 DEF ReadingFacts, FigureFacts, Counting, q
  <2>5. StillLocked(r) \in SUBSET Accounts /\ StillEnded(r) \in SUBSET Accounts
    BY DEF StillLocked, StillEnded, Untouched, There
  <2>6. Cardinality(StillLocked(r)) <= q.locked
    BY <1>1, <1>7, <1>11 DEF ReadingFacts, FigureFacts, q
  <2>7. ~start.expiry => \A a \in Untouched(r) : a \in watch'[r].running
    BY <1>10 DEF Unended, Ended, Untouched, There
  <2>8. ~start.expiry => T \subseteq StillLocked(r) \cup U
    <3> SUFFICES ASSUME ~start.expiry, NEW a \in Untouched(r), a \notin U, ~LockedNow(entry[a], q.filter)
                 PROVE  FALSE
      BY <2>3 DEF StillLocked, q
    <3>1. a \in watch'[r].running
      BY <2>7
    <3>2. a \in watch'[r].open
      <4>1. CASE entry[a].lock = None
        <5>1. ~RefusesLock(entry[a])
          BY <4>1, LockValues DEF RefusesLock
        <5> QED
          BY <1>10, <5>1 DEF Unlocked, Untouched, There
      <4>2. CASE Lapsed(entry[a], q.filter)
        BY <1>1, <1>10, <1>11, <4>2 DEF ReadingFacts, FigureFacts, q
      <4> QED
        BY <4>1, <4>2 DEF LockedNow
    <3> QED
      BY <3>1, <3>2 DEF Usable
  <2>9. T \subseteq (StillLocked(r) \cup StillEnded(r)) \cup U
    BY <2>2, <2>3 DEF StillLocked, StillEnded, q
  <2>10. T \subseteq union \cup U
    BY <2>2, <2>3 DEF LockedBy, EndedBy, EndedAt, Untouched
  <2> HIDE DEF U, T, union
  <2>11. CASE n = Cardinality(union)
    BY <1>2, <1>4, <2>1, <2>4, <2>10, <2>11, Leftover DEF U
  <2>12. CASE ~start.expiry /\ (n = q.locked \/ (q.locked = 0 /\ n = 0))
    <3>1. n = q.locked
      BY <2>12
    <3> QED
      BY <1>2, <2>1, <2>4, <2>5, <2>6, <2>8, <2>12, <3>1, Leftover DEF U
  <2>13. CASE start.expiry /\ q.locked = 0 /\ q.ended = 0 /\ n = 0
    <3>1. Cardinality(StillEnded(r)) <= 0
      BY <1>1, <1>7, <1>11, <2>13 DEF ReadingFacts, FigureFacts, q
    <3>2. StillLocked(r) = {} /\ StillEnded(r) = {}
      <4>1. IsFiniteSet(StillLocked(r)) /\ Cardinality(StillLocked(r)) = 0
        BY <2>5, <2>6, <2>13, Sizes
      <4>2. IsFiniteSet(StillEnded(r)) /\ Cardinality(StillEnded(r)) = 0
        BY <2>5, <3>1, Sizes
      <4> QED
        BY <4>1, <4>2, FS_EmptySet
    <3>3. T \subseteq U
      BY <2>9, <3>2
    <3> QED
      BY <1>2, <2>1, <2>4, <2>13, <3>3, Larger DEF U
  <2> QED
    BY <1>7, <1>11, <2>11, <2>12, <2>13
<1>12. AnswerFacts(r)'
  <2> SUFFICES ASSUME InStep, ~req'[r].limited
               PROVE  req'[r].answer <= Cardinality(Usable(r)')
    BY <1>7, <1>9 DEF AnswerFacts
  <2> DEFINE u == Cardinality(Usable(r)')
  <2>1. q.total <= n + u /\ u \in Nat
    BY <1>11
  <2> HIDE DEF u
  <2>2. Active(q.total, n) <= u
    BY <1>2, <2>1 DEF Active
  <2> QED
    BY <1>7, <2>2 DEF u
<1> QED
  BY <1>1, <1>7, <1>12 DEF ReadingFacts, RowFacts, FigureFacts, Counting

LEMMA GlanceReads ==
  ASSUME Typed, Typed', Observe, NEW r \in Requests, Glance(r), ReadingFacts(r)
  PROVE  ReadingFacts(r)'
<1>1. ASSUME Dismiss(r) PROVE ReadingFacts(r)'
  <2>1. req'[r].pc = "idle"
    BY <1>1, IdleFits DEF Dismiss, Typed, Stored, Idle
  <2> QED
    BY <2>1, ObserveFresh DEF ReadingFacts, RowFacts, FigureFacts, AnswerFacts, Counting
<1> QED
  BY <1>1, BeginRowsReads, NewResolverReads, ResolveReads, AnswerListReads, CountUsersReads,
     AskTimeReads, ListPoliciesReads, CountLockedReads, CountEndedReads, AnswerOverviewReads
     DEF Glance, SearchUsersPage, GroupMembers

\* A request that writes is at none of the places of a reading.
LEMMA EditReads ==
  ASSUME Typed, Typed', Observe, NEW r \in Requests, Edit(r)
  PROVE  /\ ReadingFacts(r)'
         /\ \A s \in Requests \ {r} : req'[s] = req[s]
         /\ UNCHANGED <<start, now>>
<1>1. PICK x : req' = [req EXCEPT ![r] = x]
  BY DEF Edit, BeginEdit, ReadBeforeWrite, Found, GiveUp, WriteLock, WriteExpiry, WritePolicy,
         AddOrRemovePolicy, WritePassword, Write
<1>2. UNCHANGED <<start, now>>
  BY DEF Edit, BeginEdit, ReadBeforeWrite, GiveUp, WriteLock, WriteExpiry, WritePolicy,
         AddOrRemovePolicy, WritePassword, Write
<1>3. req'[r].pc \in {"idle", "read", "write"}
  <2>1. CASE BeginEdit(r)
    <3>1. \E pc \in {"read", "write"} : \E op, on, row :
            req'[r] = [Idle EXCEPT !.op = op, !.on = on, !.row = row, !.pc = pc]
      <4>1. PICK op, on : req' = [req EXCEPT ![r] = [Idle EXCEPT
                !.op = op, !.on = on, !.row = Len(rows'),
                !.pc = IF op \in {"lock", "unlock", "expire", "unexpire", "updatePolicy"}
                         THEN "read" ELSE "write"]]
        BY <2>1 DEF BeginEdit
      <4> DEFINE pc == IF op \in {"lock", "unlock", "expire", "unexpire", "updatePolicy"}
                         THEN "read" ELSE "write"
      <4>2. pc \in {"read", "write"}
        OBVIOUS
      <4>3. req'[r] = [Idle EXCEPT !.op = op, !.on = on, !.row = Len(rows'), !.pc = pc]
        BY <4>1 DEF Typed, Stored
      <4> HIDE DEF pc
      <4> QED
        BY <4>2, <4>3
    <3> QED
      BY <3>1 DEF Idle
  <2>2. CASE ReadBeforeWrite(r)
    <3>1. \E value, goesOn : Found(r, value, goesOn)
      BY <2>2 DEF ReadBeforeWrite
    <3>2. PICK value, goesOn : Found(r, value, goesOn)
      BY <3>1
    <3>3. req'[r] = IF goesOn THEN [req[r] EXCEPT !.read = value, !.pc = "write"] ELSE Idle
      BY <3>2 DEF Found, Typed, Stored
    <3> QED
      BY <3>3 DEF Idle, Typed, Stored, Fitting, Request
  <2>3. CASE ~BeginEdit(r) /\ ~ReadBeforeWrite(r)
    <3>1. req'[r] = Idle
      BY <2>3 DEF Edit, GiveUp, WriteLock, WriteExpiry, WritePolicy, AddOrRemovePolicy, WritePassword,
                  Write, Typed, Stored
    <3> QED
      BY <3>1 DEF Idle
  <2> QED
    BY <2>1, <2>2, <2>3
<1>4. ReadingFacts(r)'
  BY <1>3, ObserveFresh DEF ReadingFacts, RowFacts, FigureFacts, AnswerFacts, Counting
<1> QED
  BY <1>1, <1>2, <1>4 DEF Typed, Stored

LEMMA ReadInit == Init => ReadInv
<1> SUFFICES ASSUME Init, NEW r \in Requests PROVE ReadingFacts(r)
  BY DEF ReadInv
<1>1. req[r].pc = "idle" /\ req[r].op = None
  BY DEF Init, LockInit, Idle
<1> QED
  BY <1>1, NoneAssumption DEF ReadingFacts, Fresh, Looking, RowFacts, FigureFacts, AnswerFacts, Counting

LEMMA ReadStep == Typed /\ ReadInv /\ [Next]_<<vars, view>> => ReadInv'
<1> SUFFICES ASSUME Typed, ReadInv, [Next]_<<vars, view>>, NEW r \in Requests PROVE ReadingFacts(r)'
  BY DEF ReadInv
<1>1. Typed' /\ ReadingFacts(r)
  BY StepTyped DEF ReadInv
<1>2. ASSUME UNCHANGED vars PROVE ReadingFacts(r)'
  BY <1>1, <1>2 DEF vars, ReadingFacts, Fresh, Looking, Unlocked, Unended, RefusesLock, Governs, Ended,
       RowFacts, Untouched, There, InStep, Outlasted, PolicyDN, AppClock, FigureFacts, EndedAt,
       Lapsed, StillLocked, StillEnded, LockedNow, AnswerFacts, Usable
<1>3. See => UNCHANGED vars
  BY DEF See, Open, ReadPage, Match, vars
<1>4. ASSUME LockNext PROVE ReadingFacts(r)'
  <2>1. Observe
    BY <1>4 DEF LockNext
  <2>2. ASSUME req'[r] = req[r], UNCHANGED start, now <= now' PROVE ReadingFacts(r)'
    BY <1>1, <2>1, <2>2, ReadingKept
  <2>3. now \in Int
    BY Clocks DEF Typed, Stored
  <2>4. ASSUME \/ \E a \in Accounts : FailedBind(a) \/ GoodBind(a) \/ LockByHand(a) \/ Provision(a)
               \/ Tick \/ RunScan \/ TriggerScan \/ AuditOnly
        PROVE  ReadingFacts(r)'
    <3>1. req'[r] = req[r] /\ UNCHANGED start /\ (now' = now \/ now' = now + 1)
      BY <2>4 DEF FailedBind, GoodBind, Bind, LockByHand, Provision, Tick, RunScan, TriggerScan, AuditOnly
    <3> QED
      BY <2>2, <2>3, <3>1
  <2>5. ASSUME NEW s \in Requests, Glance(s) PROVE ReadingFacts(r)'
    <3>1. CASE s = r
      BY <1>1, <2>1, <2>5, <3>1, GlanceReads
    <3>2. CASE s # r
      BY <2>2, <2>3, <2>5, <3>2, GlanceFits
    <3> QED
      BY <3>1, <3>2
  <2>6. ASSUME NEW s \in Requests, Edit(s) PROVE ReadingFacts(r)'
    <3>1. CASE s = r
      BY <1>1, <2>1, <2>6, <3>1, EditReads
    <3>2. CASE s # r
      BY <1>1, <2>1, <2>2, <2>3, <2>6, <3>2, EditReads
    <3> QED
      BY <3>1, <3>2
  <2> QED
    BY <1>4, <2>4, <2>5, <2>6 DEF LockNext, Step, Glance, Edit
<1> QED
  BY <1>2, <1>3, <1>4 DEF Next, vars

-----------------------------------------------------------------------------
(* The log and the rows *)

\* A lock that ppolicy posted comes with the failures that led to it.
Failed == \A a \in There : entry[a].lock \in Instants => entry[a].fails > 0

\* What stands in a row may be vouched for by it, from when it was written on.
Backed(row, at, actor) ==
  /\ row \in 1..Len(rows) /\ rows[row].writes
  /\ rows[row].at <= at + Skew /\ actor \in {Root, rows[row].actor}

LogFacts ==
  /\ \A i, j \in 1..Len(log) : i <= j => log[i].at <= log[j].at
  /\ \A i \in 1..Len(log) :
       /\ log[i].at <= now
       /\ log[i].by = "ppolicy" <=> IsPolicyBookkeeping(parseReqMod(log[i].reqMod))
       /\ log[i].by = "app" => Backed(log[i].row, log[i].at, log[i].actor)

\* A request has its row before it writes.
Rowed(r) ==
  req[r].pc \in {"read", "write"} /\ May("log") =>
    Backed(req[r].row, now, IF req[r].op = "ownPassword" THEN req[r].on ELSE Root)

LogInv == Failed /\ LogFacts /\ \A r \in Requests : Rowed(r)

LEMMA Parsed ==
  ASSUME NEW wrote \in SUBSET Attributes, wrote \cap bookkeepingAttributes = {}
  PROVE  parseReqMod(wrote \cup Maintained(wrote)) = wrote
  BY DEF parseReqMod, Maintained, bookkeepingAttributes

LEMMA Logged ==
  ASSUME Typed
  PROVE  /\ now \in Int /\ Skew \in Int
         /\ rows \in Seq(Row) /\ log \in Seq(Change)
         /\ \A k \in 1..Len(rows) : rows[k] \in Row /\ rows[k].at \in Int
         /\ \A i \in 1..Len(log) : log[i] \in Change /\ log[i].at \in Int
<1>1. rows \in Seq(Row) /\ log \in Seq(Change)
  BY DEF Typed, Stored
<1>2. now \in Int /\ Skew \in Int
  BY Clocks, Settings DEF Typed, Stored, Pictured, Skew
<1>3. \A x \in Row : x.at \in Int
  BY DEF Row
<1>4. \A x \in Change : x.at \in Int
  <2> TAKE x \in Change
  <2>1. x.at \in Instants
    BY DEF Change
  <2> QED
    BY <2>1, LockValues
<1>5. \A k \in 1..Len(rows) : rows[k] \in Row
  BY <1>1
<1>6. \A i \in 1..Len(log) : log[i] \in Change
  BY <1>1
<1> QED
  BY <1>1, <1>2, <1>3, <1>4, <1>5, <1>6

\* Rows are added, and stay.
LEMMA BackedKept ==
  ASSUME Typed, NEW row, NEW at \in Int, NEW later \in Int, at <= later, NEW actor, Backed(row, at, actor),
         UNCHANGED start, \/ UNCHANGED rows
                          \/ \E x : rows' = Append(rows, x)
  PROVE  Backed(row, later, actor)'
<1>1. row \in 1..Len(rows) /\ rows[row].at \in Int /\ Skew \in Int /\ rows \in Seq(Row)
  BY Logged DEF Backed
<1>2. row \in 1..Len(rows') /\ rows'[row] = rows[row]
  BY <1>1
<1>3. Skew' = Skew
  BY DEF Skew
<1> DEFINE t == rows[row].at
           s == Skew
<1>4. t \in Int /\ s \in Int /\ t <= at + s
  BY <1>1 DEF Backed
<1> HIDE DEF t, s
<1>5. t <= later + s
  BY <1>4
<1> QED
  BY <1>2, <1>3, <1>5 DEF Backed, t, s

LEMMA LogKept ==
  ASSUME Typed, LogFacts, UNCHANGED <<start, log>>, now' \in Int, now <= now',
         UNCHANGED rows \/ \E x : rows' = Append(rows, x)
  PROVE  LogFacts'
<1>1. \A i \in 1..Len(log) : log[i].at \in Int /\ now \in Int
  BY Logged
<1>2. \A i \in 1..Len(log) : log[i].by = "app" => Backed(log[i].row, log[i].at, log[i].actor)'
  <2> SUFFICES ASSUME NEW i \in 1..Len(log), log[i].by = "app"
               PROVE  Backed(log[i].row, log[i].at, log[i].actor)'
    OBVIOUS
  <2> DEFINE row == log[i].row
             at == log[i].at
             actor == log[i].actor
  <2>1. Backed(row, at, actor) /\ at \in Int /\ at <= at
    BY <1>1 DEF LogFacts
  <2>2. row' = row /\ at' = at /\ actor' = actor
    OBVIOUS
  <2> HIDE DEF row, at, actor
  <2>3. row \in 1..Len(rows') /\ rows'[row].writes
        /\ rows'[row].at <= at + Skew' /\ actor \in {Root, rows'[row].actor}
    <3>1. row \in 1..Len(rows) /\ rows \in Seq(Row)
      BY <2>1, Logged DEF Backed
    <3>2. row \in 1..Len(rows') /\ rows'[row] = rows[row]
      BY <3>1
    <3> QED
      BY <2>1, <3>2 DEF Backed, Skew
  <2> QED
    BY <2>2, <2>3 DEF Backed, row, at, actor
<1>3. \A i \in 1..Len(log) : log[i].at <= now'
  BY <1>1 DEF LogFacts
<1>4. \A mods : (IsPolicyBookkeeping(parseReqMod(mods)))' <=> IsPolicyBookkeeping(parseReqMod(mods))
  BY DEF IsPolicyBookkeeping, parseReqMod
<1> QED
  BY <1>2, <1>3, <1>4 DEF LogFacts

LEMMA RecordKeeps ==
  ASSUME Typed, LogFacts, UNCHANGED <<start, now, rows>>,
         NEW by \in {"ppolicy", "hand", "app"}, NEW actor \in Actors,
         NEW wrote \in SUBSET Attributes, NEW row \in Nat, Record(by, actor, wrote, row),
         wrote \cap bookkeepingAttributes = {},
         by = "ppolicy" <=> IsPolicyBookkeeping(wrote),
         by = "app" /\ May("log") => Backed(row, now, actor)
  PROVE  LogFacts'
<1> DEFINE x == [at |-> now, by |-> by, actor |-> actor, row |-> row, reqMod |-> wrote \cup Maintained(wrote)]
<1>1. now \in Int /\ log \in Seq(Change) /\ \A i \in 1..Len(log) : log[i].at \in Int
  BY Logged
<1>2. CASE ~May("log")
  <2>1. log' = log
    BY <1>2 DEF Record
  <2> QED
    BY <1>1, <2>1, LogKept
<1>3. CASE May("log")
  <2>1. log' = Append(log, x)
    BY <1>3 DEF Record
  <2>2. x.at = now /\ x.by = by /\ x.actor = actor /\ x.row = row /\ parseReqMod(x.reqMod) = wrote
    BY Parsed
  <2> HIDE DEF x
  <2>3. /\ Len(log') = Len(log) + 1 /\ log'[Len(log) + 1] = x
        /\ \A i \in 1..Len(log) : log'[i] = log[i]
    BY <1>1, <2>1
  <2>4. \A i \in 1..Len(log') : i \in 1..Len(log) \/ i = Len(log) + 1
    BY <1>1, <2>3
  <2>5. \A i, j \in 1..Len(log') : i <= j => log'[i].at <= log'[j].at
    <3> SUFFICES ASSUME NEW i \in 1..Len(log'), NEW j \in 1..Len(log'), i <= j
                 PROVE  log'[i].at <= log'[j].at
      OBVIOUS
    <3>1. CASE j \in 1..Len(log)
      <4>1. i \in 1..Len(log)
        BY <3>1
      <4> QED
        BY <2>3, <3>1, <4>1 DEF LogFacts
    <3>2. CASE j = Len(log) + 1
      BY <1>1, <2>2, <2>3, <2>4, <3>2 DEF LogFacts
    <3> QED
      BY <2>4, <3>1, <3>2
  <2>6. \A k, at, who : Backed(k, at, who)' <=> Backed(k, at, who)
    BY DEF Backed, Skew
  <2>7. \A mods : (IsPolicyBookkeeping(parseReqMod(mods)))' <=> IsPolicyBookkeeping(parseReqMod(mods))
    BY DEF IsPolicyBookkeeping, parseReqMod
  <2>8. ASSUME NEW i \in 1..Len(log')
        PROVE  /\ log'[i].at <= now
               /\ log'[i].by = "ppolicy" <=> IsPolicyBookkeeping(parseReqMod(log'[i].reqMod))
               /\ log'[i].by = "app" => Backed(log'[i].row, log'[i].at, log'[i].actor)
    <3>1. CASE i \in 1..Len(log)
      BY <2>3, <3>1 DEF LogFacts
    <3>2. CASE i = Len(log) + 1
      BY <1>1, <1>3, <2>2, <2>3, <3>2
    <3> QED
      BY <2>4, <3>1, <3>2
  <2> QED
    BY <2>5, <2>6, <2>8 DEF LogFacts
<1> QED
  BY <1>2, <1>3

\* A bind clears or posts failures whenever it touches a lock.
LEMMA BindRecords ==
  ASSUME Typed, Failed, LogFacts, NEW a \in Accounts, Bindable(a),
         NEW fails \in 0..MaxFailures, NEW lock \in Instants \cup {None},
         lock \in Instants => fails > 0, Bind(a, fails, lock)
  PROVE  Failed' /\ LogFacts'
<1> DEFINE e == entry[a]
           wrote == (IF fails # e.fails \/ fails > 0 THEN {"pwdFailureTime"} ELSE {}) \cup
                    (IF lock # e.lock THEN {"pwdAccountLockedTime"} ELSE {})
<1>1. entry \in Entries /\ e \in Entry /\ e.fails \in Nat /\ fails \in Nat /\ a \in There
  BY BoundsAssumption DEF Bindable, There, Typed, Stored, Pictured, Entries, Entry
<1>2. wrote # {} /\ Record("ppolicy", Root, wrote, 0) /\ UNCHANGED <<start, now, rows>>
      /\ entry' = Put(a, [e EXCEPT !.fails = fails, !.lock = lock])
  BY DEF Bind
<1>3. Failed'
  <2>1. \A b \in Accounts : entry'[b] = IF b = a THEN [e EXCEPT !.fails = fails, !.lock = lock] ELSE entry[b]
    BY <1>1, <1>2 DEF Put, Entries
  <2>2. entry'[a].lock = lock /\ entry'[a].fails = fails
    BY <1>1, <2>1 DEF Entry
  <2> QED
    BY <2>1, <2>2 DEF Failed, There
<1>4. wrote # {"pwdAccountLockedTime"}
  <2> SUFFICES ASSUME fails = e.fails, fails = 0, lock # e.lock PROVE FALSE
    BY <1>1
  <2>1. lock = None
    BY LockValues
  <2>2. e.lock \in Instants
    BY <1>1, <2>1 DEF Bindable, RefusesLock, Entry
  <2>3. e.fails > 0
    BY <1>1, <2>2 DEF Failed
  <2> QED
    BY <1>1, <2>3
<1>5. /\ wrote \in SUBSET Attributes /\ wrote \cap bookkeepingAttributes = {}
      /\ wrote \subseteq policyBookkeeping
  BY DEF Attributes, bookkeepingAttributes, policyBookkeeping
<1>6. IsPolicyBookkeeping(wrote)
  BY <1>2, <1>4, <1>5 DEF IsPolicyBookkeeping
<1> HIDE DEF wrote
<1>7. LogFacts'
  BY <1>2, <1>5, <1>6, RecordKeeps DEF Actors
<1> QED
  BY <1>3, <1>7

\* What else is written is nothing that ppolicy writes by itself.
Plain(wrote) ==
  wrote \in {{"pwdAccountLockedTime"}, {"entry"}, {"pwdEndTime"}, {"pwdLockoutDuration"}, {"userPassword"}}

LEMMA PlainIsNotPolicy ==
  ASSUME NEW wrote, Plain(wrote)
  PROVE  /\ wrote \in SUBSET Attributes /\ wrote \cap bookkeepingAttributes = {}
         /\ ~IsPolicyBookkeeping(wrote)
  BY DEF Plain, Attributes, bookkeepingAttributes, policyBookkeeping, IsPolicyBookkeeping

LEMMA HandRecords ==
  ASSUME Typed, Failed, LogFacts, NEW a \in Accounts, LockByHand(a) \/ Provision(a)
  PROVE  Failed' /\ LogFacts'
<1>1. PICK actor \in {Root, a}, wrote \in {{"pwdAccountLockedTime"}, {"entry"}} :
        Record("hand", actor, wrote, 0)
  BY DEF LockByHand, Provision
<1>2. UNCHANGED <<start, now, rows>>
  BY DEF LockByHand, Provision
<1>3. Plain(wrote) /\ actor \in Actors
  BY <1>1 DEF Plain, Actors
<1>4. LogFacts'
  BY <1>1, <1>2, <1>3, PlainIsNotPolicy, RecordKeeps
<1>5. PICK e : entry' = Put(a, e) /\ (e # None => e.lock \notin Instants)
  <2>1. CASE LockByHand(a)
    <3>1. PICK lock \in {None, Permanent} : entry' = Put(a, [entry[a] EXCEPT !.lock = lock])
      BY <2>1 DEF LockByHand
    <3>2. entry[a] \in Entry
      BY <2>1 DEF LockByHand, Typed, Stored, Pictured, Entries
    <3>3. [entry[a] EXCEPT !.lock = lock].lock = lock
      BY <3>2 DEF Entry
    <3> QED
      BY <3>1, <3>3, LockValues
  <2>2. CASE Provision(a)
    <3> DEFINE fresh == [lock |-> None, end |-> None, own |-> None, fails |-> 0]
               e == IF entry[a] # None THEN None ELSE fresh
    <3>1. entry' = Put(a, e) /\ fresh.lock = None
      BY <2>2 DEF Provision
    <3>2. e # None => e = fresh
      OBVIOUS
    <3> HIDE DEF e, fresh
    <3> QED
      BY <3>1, <3>2, LockValues
  <2> QED
    BY <2>1, <2>2
<1>6. \A b \in Accounts : entry'[b] = IF b = a THEN e ELSE entry[b]
  BY <1>5 DEF Put, Typed, Stored, Pictured, Entries
<1>7. Failed'
  BY <1>5, <1>6 DEF Failed, There
<1> QED
  BY <1>4, <1>7

LEMMA Later ==
  ASSUME NEW t \in Int, NEW s \in Int, NEW n \in Int, NEW m \in Int, t <= n + s, n <= m
  PROVE  t <= m + s
  OBVIOUS

LEMMA RowedKept ==
  ASSUME Typed, NEW r \in Requests, Rowed(r), UNCHANGED start, req'[r] = req[r],
         now' \in Int, now <= now', UNCHANGED rows \/ \E x : rows' = Append(rows, x)
  PROVE  Rowed(r)'
<1> DEFINE row == req[r].row
           actor == IF req[r].op = "ownPassword" THEN req[r].on ELSE Root
<1>1. CASE req[r].pc \in {"read", "write"} /\ May("log")
  <2>1. Backed(row, now, actor) /\ now \in Int
    BY <1>1, Logged DEF Rowed
  <2>2. row' = row /\ actor' = actor
    OBVIOUS
  <2> HIDE DEF row, actor
  <2>3. rows'[row].writes /\ row \in 1..Len(rows')
        /\ rows'[row].at <= now' + Skew' /\ actor \in {Root, rows'[row].actor}
    <3>1. row \in 1..Len(rows) /\ rows \in Seq(Row) /\ rows[row].at \in Int /\ Skew \in Int
      BY <2>1, Logged DEF Backed
    <3>2. row \in 1..Len(rows') /\ rows'[row] = rows[row] /\ Skew' = Skew
      BY <3>1 DEF Skew
    <3> DEFINE t == rows[row].at
               s == Skew
    <3>3. t \in Int /\ s \in Int /\ t <= now + s
      BY <2>1, <3>1 DEF Backed
    <3> HIDE DEF t, s
    <3>4. t <= now' + s
      BY <2>1, <3>3, Later
    <3> QED
      BY <2>1, <3>2, <3>4 DEF Backed, t, s
  <2> QED
    BY <2>3 DEF Rowed, Backed, row, actor
<1>2. CASE ~(req[r].pc \in {"read", "write"} /\ May("log"))
  BY <1>2 DEF Rowed, May
<1> QED
  BY <1>1, <1>2

LEMMA GlanceLogs ==
  ASSUME NEW r \in Requests, Glance(r), Typed
  PROVE  req'[r].pc \notin {"read", "write"}
<1> DEFINE q == req[r]
<1>1. req \in [Requests -> Fitting] /\ q \in Request
  BY DEF Typed, Stored, Fitting
<1>2. "pc" \in DOMAIN q /\ "pc" \in DOMAIN Idle
  BY <1>1 DEF Request, Idle
<1>3. ASSUME NEW x, NEW s, NEW n, "pc" \in DOMAIN x, Count(r, s, x, n) PROVE req'[r].pc = x.pc
  <2>1. PICK limited : req' = [req EXCEPT ![r] = [x EXCEPT !.limited = limited]]
    BY <1>3 DEF Count
  <2> QED
    BY <1>1, <1>3, <2>1
<1>8. ASSUME AnswerOverview(r) PROVE req'[r].pc = "answered"
  <2> DEFINE answer(n) == [Idle EXCEPT !.op = "overview", !.pc = "answered",
                                       !.limited = q.limited, !.answer = Active(q.total, n)]
  <2>1. \A n : "pc" \in DOMAIN answer(n) /\ answer(n).pc = "answered"
    BY <1>2
  <2>2. \/ \E n : req' = [req EXCEPT ![r] = answer(n)]
        \/ \E s, n : Count(r, s, answer(n), n)
    BY <1>8 DEF AnswerOverview
  <2> HIDE DEF answer
  <2>3. ASSUME NEW n, req' = [req EXCEPT ![r] = answer(n)] PROVE req'[r].pc = "answered"
    BY <1>1, <2>1, <2>3
  <2>4. ASSUME NEW n, NEW s, Count(r, s, answer(n), n) PROVE req'[r].pc = "answered"
    BY <1>3, <2>1, <2>4
  <2> QED
    BY <2>2, <2>3, <2>4
<1>9. ASSUME CountUsers(r) PROVE req'[r].pc = "figures"
  <2> DEFINE x(n) == [Idle EXCEPT !.op = "overview", !.pc = "figures", !.since = AppClock, !.total = n]
  <2>1. \A n : "pc" \in DOMAIN x(n) /\ x(n).pc = "figures"
    BY <1>2
  <2>2. PICK n : Count(r, There, x(n), n)
    BY <1>9 DEF CountUsers
  <2> HIDE DEF x
  <2> QED
    BY <1>3, <2>1, <2>2
<1>10. ASSUME CountLocked(r) PROVE req'[r].pc \in {"ended", "inactive"}
  <2> DEFINE x(n) == [q EXCEPT !.pc = IF start.expiry THEN "ended" ELSE "inactive", !.locked = n]
  <2>1. \A n : "pc" \in DOMAIN x(n) /\ x(n).pc \in {"ended", "inactive"}
    BY <1>2
  <2>2. PICK n : Count(r, LockedBy(q.filter), x(n), n)
    BY <1>10 DEF CountLocked
  <2> HIDE DEF x
  <2> QED
    BY <1>3, <2>1, <2>2
<1>11. ASSUME CountEnded(r) PROVE req'[r].pc = "inactive"
  <2> DEFINE x(n) == [q EXCEPT !.pc = "inactive", !.ended = n]
  <2>1. \A n : "pc" \in DOMAIN x(n) /\ x(n).pc = "inactive"
    BY <1>2
  <2>2. PICK n : Count(r, EndedBy(q.since), x(n), n)
    BY <1>11 DEF CountEnded
  <2> HIDE DEF x
  <2> QED
    BY <1>3, <2>1, <2>2
<1>4. ASSUME SearchUsersPage(r) \/ GroupMembers(r) PROVE req'[r].pc = "listed"
  BY <1>1, <1>4 DEF SearchUsersPage, GroupMembers, BeginRows, Idle
<1>5. ASSUME NewResolver(r) \/ ResolvePolicy(r) \/ AskTime(r) \/ ListPolicies(r)
      PROVE  req'[r].pc \in {"resolve", "policies", "locked"}
  <2>1. CASE NewResolver(r)
    BY <1>1, <2>1 DEF NewResolver, Request
  <2>2. CASE ResolvePolicy(r)
    <3>1. PICK c : req' = [req EXCEPT ![r].cache = c]
      BY <2>2 DEF ResolvePolicy
    <3> QED
      BY <1>1, <2>2, <3>1 DEF ResolvePolicy, Request
  <2>3. CASE AskTime(r)
    BY <1>1, <2>3 DEF AskTime, Request
  <2>4. CASE ListPolicies(r)
    <3>1. PICK f : req' = [req EXCEPT ![r].pc = "locked", ![r].filter = f]
      BY <2>4 DEF ListPolicies
    <3> QED
      BY <1>1, <3>1 DEF Request
  <2> QED
    BY <1>5, <2>1, <2>2, <2>3, <2>4
<1>6. ASSUME AnswerList(r) PROVE req'[r].pc = "answered"
  BY <1>1, <1>6 DEF AnswerList, Idle
<1>7. ASSUME Dismiss(r) PROVE req'[r].pc = "idle"
  BY <1>1, <1>7 DEF Dismiss, Idle
<1> QED
  BY <1>4, <1>5, <1>6, <1>7, <1>8, <1>9, <1>10, <1>11 DEF Glance

LEMMA BeginLogs ==
  ASSUME Typed, LogInv, NEW r \in Requests, BeginEdit(r)
  PROVE  Failed' /\ LogFacts' /\ Rowed(r)' /\ (UNCHANGED rows \/ \E x : rows' = Append(rows, x))
<1>1. PICK op \in Edits, on \in Objects, pc \in {"read", "write"} :
        /\ Audit(IF op = "ownPassword" THEN on ELSE Admin, TRUE)
        /\ req' = [req EXCEPT ![r] = [Idle EXCEPT !.op = op, !.on = on, !.row = Len(rows'), !.pc = pc]]
        /\ op = "ownPassword" => on \in Accounts
  <2>1. start.listed \subseteq Policies
    BY Settings DEF Typed, Stored, Pictured
  <2>2. PICK op \in Edits \cap start.may :
          \E on \in (IF op \in PolicyOps THEN start.listed ELSE Accounts) :
            /\ Audit(IF op = "ownPassword" THEN on ELSE Admin, TRUE)
            /\ req' = [req EXCEPT ![r] = [Idle EXCEPT
                         !.op = op, !.on = on, !.row = Len(rows'),
                         !.pc = IF op \in {"lock", "unlock", "expire", "unexpire", "updatePolicy"}
                                  THEN "read" ELSE "write"]]
    BY DEF BeginEdit, PolicyOps
  <2>3. op = "ownPassword" => op \notin PolicyOps
    BY DEF PolicyOps
  <2> DEFINE pc == IF op \in {"lock", "unlock", "expire", "unexpire", "updatePolicy"} THEN "read" ELSE "write"
  <2>4. pc \in {"read", "write"}
    OBVIOUS
  <2>5. PICK on \in (IF op \in PolicyOps THEN start.listed ELSE Accounts) :
          /\ Audit(IF op = "ownPassword" THEN on ELSE Admin, TRUE)
          /\ req' = [req EXCEPT ![r] = [Idle EXCEPT !.op = op, !.on = on, !.row = Len(rows'), !.pc = pc]]
    BY <2>2
  <2>6. on \in Objects /\ (op = "ownPassword" => on \in Accounts)
    BY <2>1, <2>3, <2>5 DEF Objects
  <2> HIDE DEF pc
  <2> QED
    BY <2>4, <2>5, <2>6
<1> DEFINE actor == IF op = "ownPassword" THEN on ELSE Admin
           x == [at |-> DatabaseClock, actor |-> actor, writes |-> TRUE]
<1>2. actor \in Actors /\ Audit(actor, TRUE)
  BY <1>1 DEF Actors
<1>3. actor = IF op = "ownPassword" THEN on ELSE Admin
  OBVIOUS
<1>4. UNCHANGED <<start, now, entry, policy, log, scan>>
  BY DEF BeginEdit
<1>5. /\ May("log") => rows' = Append(rows, x) /\ Len(rows') = Len(rows) + 1
      /\ ~May("log") => rows' = rows
  BY <1>2, AuditTyped, Zenon
<1>6. x.at = DatabaseClock /\ x.actor = actor /\ x.writes = TRUE
  OBVIOUS
<1> HIDE DEF x, actor
<1>7. UNCHANGED rows \/ \E y : rows' = Append(rows, y)
  BY <1>5
<1>8. Failed' /\ LogFacts'
  <2>1. LogFacts'
    BY <1>4, <1>7, Logged, LogKept DEF LogInv
  <2> QED
    BY <1>4, <2>1 DEF LogInv, Failed, There
<1>9. Rowed(r)'
  <2> SUFFICES ASSUME May("log")
               PROVE  Backed(req[r].row, now, IF req[r].op = "ownPassword" THEN req[r].on ELSE Root)'
    BY <1>4 DEF Rowed, May
  <2>1. req'[r].op = op /\ req'[r].on = on /\ req'[r].row = Len(rows')
    BY <1>1, IdleFits DEF Typed, Stored, Fitting, Request
  <2>2. rows'[Len(rows) + 1] = x /\ Len(rows') = Len(rows) + 1 /\ Len(rows) \in Nat
    BY <1>5, Logged
  <2>3. DatabaseClock = now + Skew /\ now' = now /\ Skew' = Skew /\ DatabaseClock \in Int
    <3>1. start \in Starts /\ start' = start /\ now' = now /\ now \in Int
      BY <1>4, Logged DEF Typed, Stored, Pictured
    <3>2. start.skew \in Int /\ start.database \in Int
      BY <3>1, Settings
    <3>3. now + start.skew + start.database = now + (start.skew + start.database)
      BY <3>1, <3>2
    <3> QED
      BY <3>1, <3>2, <3>3 DEF DatabaseClock, AppClock, Skew
  <2> DEFINE who == IF op = "ownPassword" THEN on ELSE Root
  <2>4. who \in {Root, actor}
    BY <1>3
  <2>5. LET row == Len(rows')
        IN  /\ row \in 1..Len(rows') /\ rows'[row].writes
            /\ rows'[row].at <= now' + Skew' /\ who \in {Root, rows'[row].actor}
    <3>1. Len(rows') \in 1..Len(rows') /\ rows'[Len(rows')] = x
      BY <2>2
    <3>2. x.at <= now + Skew
      BY <1>6, <2>3, Logged
    <3> HIDE DEF who
    <3> QED
      BY <1>6, <2>3, <2>4, <3>1, <3>2
  <2> QED
    BY <2>1, <2>5 DEF Backed
<1> QED
  BY <1>7, <1>8, <1>9

LEMMA ReadLogs ==
  ASSUME Typed, LogInv, NEW r \in Requests, ReadBeforeWrite(r) \/ GiveUp(r)
  PROVE  Failed' /\ LogFacts' /\ Rowed(r)' /\ UNCHANGED rows
<1>1. UNCHANGED <<start, now, entry, rows, log>>
  BY DEF ReadBeforeWrite, GiveUp
<1>2. Failed' /\ LogFacts'
  <2>1. now \in Int
    BY Logged
  <2>2. LogFacts'
    BY <1>1, <2>1, LogKept DEF LogInv
  <2> QED
    BY <1>1, <2>2 DEF LogInv, Failed, There
<1>3. CASE GiveUp(r)
  <2>1. req'[r].pc = "idle"
    BY <1>3 DEF GiveUp, Idle, Typed, Stored
  <2> QED
    BY <1>1, <1>2, <2>1 DEF Rowed
<1>4. CASE ReadBeforeWrite(r)
  <2>1. \E value, goesOn : Found(r, value, goesOn)
    BY <1>4 DEF ReadBeforeWrite
  <2>2. PICK value, goesOn : Found(r, value, goesOn)
    BY <2>1
  <2>3. CASE ~goesOn
    <3>1. req'[r].pc = "idle"
      BY <2>2, <2>3 DEF Found, Idle, Typed, Stored
    <3> QED
      BY <1>1, <1>2, <3>1 DEF Rowed
  <2>4. CASE goesOn
    <3>1. req'[r] = [req[r] EXCEPT !.read = value, !.pc = "write"] /\ req[r] \in Request /\ req[r].pc = "read"
      BY <1>4, <2>2, <2>4 DEF Found, ReadBeforeWrite, Typed, Stored, Fitting
    <3>2. req'[r].op = req[r].op /\ req'[r].on = req[r].on /\ req'[r].row = req[r].row
      BY <3>1 DEF Request
    <3>3. Rowed(r)
      BY DEF LogInv
    <3> QED
      BY <1>1, <1>2, <3>1, <3>2, <3>3 DEF Rowed, Backed, Skew, May
  <2> QED
    BY <2>3, <2>4
<1> QED
  BY <1>3, <1>4

\* A write is logged with the row its request wrote before.
LEMMA WriteLogs ==
  ASSUME Typed, LogInv, NEW r \in Requests, NEW wrote, NEW holds, NEW es, NEW ps, NEW touched,
         Plain(wrote), req[r].op = "ownPassword" => req[r].on \in Accounts,
         Write(r, wrote, holds, es, ps, touched)
  PROVE  LogFacts' /\ Rowed(r)' /\ UNCHANGED <<start, now, rows>>
<1> DEFINE actor == IF req[r].op = "ownPassword" THEN req[r].on ELSE Root
           row == req[r].row
<1>1. UNCHANGED <<start, now, rows>> /\ req[r].pc = "write" /\ Record("app", actor, wrote, row)
      /\ req' = [req EXCEPT ![r] = Idle]
  BY DEF Write
<1>2. actor \in Actors /\ row \in Nat
  BY DEF Actors, Typed, Stored, Fitting, Request
<1>3. May("log") => Backed(row, now, actor)
  BY <1>1 DEF LogInv, Rowed
<1> HIDE DEF actor, row
<1>4. LogFacts
  BY DEF LogInv
<1>5. LogFacts'
  BY <1>1, <1>2, <1>3, <1>4, PlainIsNotPolicy, RecordKeeps
<1>6. req'[r].pc = "idle"
  BY <1>1 DEF Idle, Typed, Stored
<1> QED
  BY <1>1, <1>5, <1>6 DEF Rowed

LEMMA EditLogs ==
  ASSUME Typed, LogInv, NEW r \in Requests, Edit(r)
  PROVE  Failed' /\ LogFacts' /\ Rowed(r)' /\ (UNCHANGED rows \/ \E x : rows' = Append(rows, x))
<1> DEFINE q == req[r]
           a == q.on
<1>1. q \in Fitting /\ entry \in Entries /\ Failed
  BY DEF Typed, Stored, Pictured, LogInv
<1>2. /\ q.op \in {"lock", "unlock", "expire", "unexpire", "ownPassword"} => a \in Accounts
      /\ q.op = "ownPassword" => a \in Accounts
  BY <1>1 DEF Fitting, PolicyOps, Edits
<1>3. ASSUME UNCHANGED entry PROVE Failed'
  BY <1>1, <1>3 DEF Failed, There
<1> HIDE DEF q
<1>4. ASSUME WriteLock(r) PROVE Failed' /\ LogFacts' /\ Rowed(r)' /\ UNCHANGED rows
  <2> DEFINE lock == IF q.op = "lock" THEN Permanent ELSE None
             e == [entry[a] EXCEPT !.lock = lock]
  <2>1. a \in Accounts /\ entry[a] # None
    BY <1>2, <1>4 DEF WriteLock, q
  <2>2. entry[a] \in Entry
    BY <1>1, <2>1 DEF Entries
  <2>3. PICK holds, ps, touched : Write(r, {"pwdAccountLockedTime"}, holds, Put(a, e), ps, touched)
    BY <1>4 DEF WriteLock, q
  <2>4. Plain({"pwdAccountLockedTime"})
    BY DEF Plain
  <2>5. entry' = Put(a, e)
    BY <2>3 DEF Write
  <2>6. e.lock = lock /\ lock \notin Instants
    BY <2>2, LockValues DEF Entry
  <2> HIDE DEF e, lock
  <2>7. LogFacts' /\ Rowed(r)' /\ UNCHANGED rows
    BY <1>2, <2>3, <2>4, WriteLogs DEF q
  <2>8. Failed'
    BY <1>1, <2>5, <2>6 DEF Failed, There, Put, Entries
  <2> QED
    BY <2>7, <2>8
<1>5. ASSUME WriteExpiry(r) PROVE Failed' /\ LogFacts' /\ Rowed(r)' /\ UNCHANGED rows
  <2>1. a \in Accounts /\ entry[a] # None
    BY <1>2, <1>5 DEF WriteExpiry, q
  <2>2. entry[a] \in Entry
    BY <1>1, <2>1 DEF Entries
  <2>3. PICK t, holds, ps, touched : Write(r, {"pwdEndTime"}, holds, Put(a, [entry[a] EXCEPT !.end = t]), ps, touched)
    BY <1>5 DEF WriteExpiry, q
  <2> DEFINE e == [entry[a] EXCEPT !.end = t]
  <2>4. Plain({"pwdEndTime"})
    BY DEF Plain
  <2>5. entry' = Put(a, e)
    BY <2>3 DEF Write
  <2>6. e.lock = entry[a].lock /\ e.fails = entry[a].fails
    BY <2>2 DEF Entry
  <2> HIDE DEF e
  <2>7. LogFacts' /\ Rowed(r)' /\ UNCHANGED rows
    BY <1>2, <2>3, <2>4, WriteLogs DEF q
  <2>8. \A b \in Accounts : entry'[b] = IF b = a THEN e ELSE entry[b]
    BY <1>1, <2>5 DEF Put, Entries
  <2>9. Failed'
    BY <1>1, <2>1, <2>6, <2>8 DEF Failed, There
  <2> QED
    BY <2>7, <2>9
<1>6. ASSUME WritePolicy(r) \/ AddOrRemovePolicy(r) \/ WritePassword(r)
      PROVE  Failed' /\ LogFacts' /\ Rowed(r)' /\ UNCHANGED rows
  <2>1. PICK wrote, holds, ps, touched : Write(r, wrote, holds, entry, ps, touched) /\ Plain(wrote)
    BY <1>6 DEF WritePolicy, AddOrRemovePolicy, WritePassword, Plain
  <2>2. UNCHANGED entry
    BY <2>1 DEF Write
  <2>3. LogFacts' /\ Rowed(r)' /\ UNCHANGED rows
    BY <1>2, <2>1, WriteLogs DEF q
  <2> QED
    BY <1>3, <2>2, <2>3
<1> QED
  BY <1>4, <1>5, <1>6, BeginLogs, ReadLogs DEF Edit

LEMMA LogInit == Init => LogInv
<1> SUFFICES ASSUME Init PROVE LogInv
  OBVIOUS
<1>1. rows = <<>> /\ log = <<>> /\ req = [r \in Requests |-> Idle] /\ entry = start.entry /\ start \in Starts
  BY DEF Init, LockInit
<1>2. Failed
  BY <1>1, StartsAssumption DEF Failed, There, IsSetting
<1>3. LogFacts
  BY <1>1 DEF LogFacts
<1>4. \A r \in Requests : Rowed(r)
  BY <1>1 DEF Rowed, Idle
<1> QED
  BY <1>2, <1>3, <1>4 DEF LogInv

LEMMA LogStep == Typed /\ LogInv /\ [Next]_<<vars, view>> => LogInv'
<1> SUFFICES ASSUME Typed, LogInv, [Next]_<<vars, view>> PROVE LogInv'
  OBVIOUS
<1>1. Typed' /\ Failed /\ LogFacts /\ now \in Int
  BY StepTyped, Logged DEF LogInv
<1>2. now' \in Int
  BY <1>1, Clocks DEF Typed, Stored, Pictured, Instants
<1>3. ASSUME UNCHANGED <<start, entry, log, req>>, now <= now', UNCHANGED rows \/ \E x : rows' = Append(rows, x)
      PROVE  LogInv'
  <2>1. LogFacts'
    BY <1>1, <1>2, <1>3, LogKept
  <2>2. \A r \in Requests : Rowed(r)'
    BY <1>2, <1>3, RowedKept DEF LogInv
  <2>3. Failed'
    BY <1>1, <1>3 DEF Failed, There
  <2> QED
    BY <2>1, <2>2, <2>3 DEF LogInv
<1>4. ASSUME UNCHANGED vars PROVE LogInv'
  BY <1>1, <1>3, <1>4 DEF vars
<1>5. See => UNCHANGED vars
  BY DEF See, Open, ReadPage, Match, vars
<1>6. ASSUME NEW r \in Requests, \A s \in Requests \ {r} : req'[s] = req[s],
             UNCHANGED <<start, now>>, UNCHANGED rows \/ \E x : rows' = Append(rows, x),
             Failed', LogFacts', Rowed(r)'
      PROVE  LogInv'
  <2>1. \A s \in Requests \ {r} : Rowed(s)'
    BY <1>1, <1>2, <1>6, RowedKept DEF LogInv
  <2> QED
    BY <1>6, <2>1 DEF LogInv
<1>7. ASSUME NEW r \in Requests, Edit(r) PROVE LogInv'
  <2>1. PICK x : req' = [req EXCEPT ![r] = x]
    BY <1>7 DEF Edit, BeginEdit, ReadBeforeWrite, Found, GiveUp, WriteLock, WriteExpiry, WritePolicy,
           AddOrRemovePolicy, WritePassword, Write
  <2>2. UNCHANGED <<start, now>>
    BY <1>7 DEF Edit, BeginEdit, ReadBeforeWrite, GiveUp, WriteLock, WriteExpiry, WritePolicy,
           AddOrRemovePolicy, WritePassword, Write
  <2>3. \A s \in Requests \ {r} : req'[s] = req[s]
    BY <2>1 DEF Typed, Stored
  <2> QED
    BY <1>6, <1>7, <2>2, <2>3, EditLogs
<1>8. ASSUME NEW r \in Requests, Glance(r) PROVE LogInv'
  <2>1. /\ \A s \in Requests \ {r} : req'[s] = req[s]
        /\ UNCHANGED <<start, now, entry, rows, log>>
    BY <1>8, GlanceFits
  <2>2. Rowed(r)'
    BY <1>8, GlanceLogs DEF Rowed
  <2>3. Failed' /\ LogFacts'
    BY <1>1, <2>1, LogKept DEF Failed, There
  <2> QED
    BY <1>6, <2>1, <2>2, <2>3
<1>9. ASSUME Tick \/ RunScan \/ TriggerScan \/ AuditOnly PROVE LogInv'
  <2>1. UNCHANGED <<start, entry, log, req>> /\ (now' = now \/ now' = now + 1)
    BY <1>9 DEF Tick, RunScan, TriggerScan, AuditOnly
  <2>2. UNCHANGED rows \/ \E x : rows' = Append(rows, x)
    BY <1>9 DEF Tick, RunScan, TriggerScan, AuditOnly, Audit
  <2> QED
    BY <1>1, <1>3, <2>1, <2>2
<1>10. ASSUME NEW a \in Accounts, FailedBind(a) \/ GoodBind(a) \/ LockByHand(a) \/ Provision(a)
       PROVE  LogInv'
  <2>1. UNCHANGED <<start, now, req, rows>>
    BY <1>10 DEF FailedBind, GoodBind, Bind, LockByHand, Provision
  <2>2. ASSUME FailedBind(a) PROVE Failed' /\ LogFacts'
    <3>1. PICK n \in 1..MaxFailures : Bind(a, n, IF n = MaxFailures THEN now ELSE None)
      BY <2>2 DEF FailedBind
    <3> DEFINE lock == IF n = MaxFailures THEN now ELSE None
    <3>2. n \in 0..MaxFailures /\ n > 0 /\ Bindable(a) /\ lock \in Instants \cup {None}
      BY <2>2, BoundsAssumption DEF FailedBind, Typed, Stored, Pictured
    <3>3. Bind(a, n, lock)
      BY <3>1
    <3> HIDE DEF lock
    <3> QED
      BY <1>1, <3>2, <3>3, BindRecords
  <2>3. ASSUME GoodBind(a) PROVE Failed' /\ LogFacts'
    <3>1. Bindable(a) /\ Bind(a, 0, None) /\ 0 \in 0..MaxFailures
      BY <2>3, BoundsAssumption DEF GoodBind
    <3> QED
      BY <1>1, <3>1, BindRecords, LockValues
  <2>4. Failed' /\ LogFacts'
    BY <1>1, <1>10, <2>2, <2>3, HandRecords
  <2>5. \A r \in Requests : Rowed(r)'
    BY <1>1, <2>1, RowedKept DEF LogInv
  <2> QED
    BY <2>4, <2>5 DEF LogInv
<1> QED
  BY <1>4, <1>5, <1>7, <1>8, <1>9, <1>10 DEF Next, LockNext, Step, Edit, Glance, vars

-----------------------------------------------------------------------------
(* The view *)

\* What is right to say of where a logged change came from.
RightOrigin(i, origin) ==
  LET change == log[i]
      took == change.at + Skew - rows[change.row].at
  IN  /\ change.by = "ppolicy" <=> origin = "policy"
      /\ change.by = "app" /\ took <= MatchBefore - Distance(Skew)
           /\ Distance(Skew) <= MatchAfter => origin = "ldapwarden"
      /\ change.by = "hand" /\ origin = "ldapwarden" =>
           \E k \in 1..Len(rows) :
             /\ rows[k].writes
             /\ change.actor \in {Root, rows[k].actor}
             /\ Distance(change.at + Skew - rows[k].at) <= MatchBefore + Distance(Skew)

LEMMA Within ==
  ASSUME NEW at \in Int, NEW row \in Int, NEW skew \in Int
  PROVE  /\ row <= at + skew /\ at + skew - row <= MatchBefore - Distance(skew) /\ Distance(skew) <= MatchAfter
              => row >= at - MatchBefore /\ row <= at + MatchAfter
         /\ row >= at - MatchBefore /\ row <= at + MatchAfter
              => Distance(at + skew - row) <= MatchBefore + Distance(skew)
  BY MatchAssumption DEF Distance

LEMMA ClassifiedRight ==
  ASSUME Typed, LogInv, NEW i \in 1..Len(log), NEW writes,
         writes \subseteq {k \in 1..Len(rows) : rows[k].writes},
         \A k \in 1..Len(rows) :
           rows[k].writes /\ rows[k].at >= log[i].at - MatchBefore /\ rows[k].at <= log[i].at + MatchAfter
             => k \in writes
  PROVE  RightOrigin(i, classifyChange(log[i], writes).origin)
<1> DEFINE change == log[i]
           by == {k \in 1..Len(rows) : Vouches(k, change, writes)}
           origin == classifyChange(change, writes).origin
<1>1. origin = IF IsPolicyBookkeeping(parseReqMod(change.reqMod)) THEN "policy"
               ELSE IF by = {} THEN "external" ELSE "ldapwarden"
  BY DEF classifyChange
<1>2. /\ change.by = "ppolicy" <=> IsPolicyBookkeeping(parseReqMod(change.reqMod))
      /\ change.by = "app" => Backed(change.row, change.at, change.actor)
  BY DEF LogInv, LogFacts
<1>3. change.at \in Int /\ Skew \in Int /\ \A k \in 1..Len(rows) : rows[k].at \in Int
  BY Logged
<1>4. \A k \in by : /\ k \in 1..Len(rows) /\ rows[k].writes /\ change.actor \in {Root, rows[k].actor}
                     /\ rows[k].at >= change.at - MatchBefore /\ rows[k].at <= change.at + MatchAfter
  BY DEF Vouches
<1>5. ASSUME NEW k \in 1..Len(rows), rows[k].writes, change.actor \in {Root, rows[k].actor},
             rows[k].at >= change.at - MatchBefore, rows[k].at <= change.at + MatchAfter
      PROVE  k \in by
  BY <1>5 DEF Vouches
<1> HIDE DEF change, by, origin
<1>6. change.by = "ppolicy" <=> origin = "policy"
  BY <1>1, <1>2
<1>7. ASSUME change.by = "app", change.at + Skew - rows[change.row].at <= MatchBefore - Distance(Skew),
             Distance(Skew) <= MatchAfter
      PROVE  origin = "ldapwarden"
  <2> DEFINE k == change.row
             t == rows[k].at
             at == change.at
             sk == Skew
  <2>1. /\ k \in 1..Len(rows) /\ rows[k].writes /\ change.actor \in {Root, rows[k].actor}
        /\ t <= at + sk /\ t \in Int /\ at \in Int /\ sk \in Int
    BY <1>2, <1>3, <1>7 DEF Backed
  <2>2. at + sk - t <= MatchBefore - Distance(sk) /\ Distance(sk) <= MatchAfter
    BY <1>7
  <2> HIDE DEF t, at, sk
  <2>3. t >= at - MatchBefore /\ t <= at + MatchAfter
    BY <2>1, <2>2, Within
  <2>4. k \in by
    BY <1>5, <2>1, <2>3 DEF t, at
  <2> QED
    BY <1>1, <1>2, <1>7, <2>4
<1>8. ASSUME change.by = "hand", origin = "ldapwarden"
      PROVE  \E k \in 1..Len(rows) :
               /\ rows[k].writes
               /\ change.actor \in {Root, rows[k].actor}
               /\ Distance(change.at + Skew - rows[k].at) <= MatchBefore + Distance(Skew)
  <2>1. PICK k \in by : TRUE
    BY <1>1, <1>8
  <2>2. Distance(change.at + Skew - rows[k].at) <= MatchBefore + Distance(Skew)
    BY <1>3, <1>4, Within
  <2> QED
    BY <1>4, <2>2
<1> QED
  BY <1>6, <1>7, <1>8 DEF RightOrigin, change, origin

Item == [origin : {"policy", "external", "ldapwarden"}, row : Nat]

\* A reading has records of its window only, and is not over before it has them
\* all, or too many.
ViewFacts ==
  /\ view.pc \in {"closed", "paging", "rows", "shown"}
  /\ view.from \in Int /\ view.to \in Int \cup {None}
  /\ view.held \in 0..Len(log)
  /\ view.got \subseteq {i \in 1..Len(log) : InWindow(i)}
  /\ view.pc = "rows" =>
       /\ view.truncated <=> Cardinality(view.got) > ReadLimit
       /\ ~view.truncated => {i \in 1..view.held : InWindow(i)} \subseteq view.got

\* What is shown is of the window, is right, and is whole or says it is not.
ShownFacts ==
  Shown =>
    /\ DOMAIN view.items \subseteq 1..Len(log)
    /\ \A i \in DOMAIN view.items : InWindow(i) /\ RightOrigin(i, view.items[i].origin)
    /\ ~view.truncated => {i \in 1..view.held : InWindow(i)} \subseteq DOMAIN view.items
    /\ view.truncated => Cardinality(DOMAIN view.items) = ReadLimit

View == DOMAIN Closed
ViewInv == DOMAIN view = View /\ ViewFacts /\ ShownFacts

LEMMA ViewIsRight ==
  ASSUME ViewInv
  PROVE  OriginsAreRight /\ WindowIsWhole
  BY DEF ViewInv, ShownFacts, RightOrigin, OriginsAreRight, WindowIsWhole

LEMMA ViewInit == Init => ViewInv
  BY DEF Init, Closed, View, ViewInv, ViewFacts, ShownFacts, Shown, LockInit

LEMMA Chosen ==
  ASSUME NEW S \in SUBSET Int, NEW a \in Int, NEW b \in Int, S # {}, \A x \in S : a <= x /\ x <= b
  PROVE  /\ Min(S) \in S /\ \A x \in S : Min(S) <= x
         /\ Max(S) \in S /\ \A x \in S : x <= Max(S)
<1>1. \E m \in S : \A x \in S : m <= x
  BY Least
<1>2. \E m \in S : \A x \in S : m >= x
  <2>1. PICK m \in S : \A x \in S : x <= m
    BY Greatest
  <2> QED
    BY <2>1
<1>3. Min(S) \in S /\ \A x \in S : Min(S) <= x
  BY <1>1 DEF Min
<1>4. Max(S) \in S /\ \A x \in S : Max(S) >= x
  BY <1>2 DEF Max
<1> QED
  BY <1>3, <1>4

LEMMA MinOfTwo ==
  ASSUME NEW a \in Nat, NEW b \in Nat
  PROVE  Min({a, b}) = IF a <= b THEN a ELSE b
<1>1. {a, b} \in SUBSET Int /\ {a, b} # {} /\ \A x \in {a, b} : 0 <= x /\ x <= a + b
  OBVIOUS
<1>2. Min({a, b}) \in {a, b} /\ \A x \in {a, b} : Min({a, b}) <= x
  <2> DEFINE S == {a, b}
  <2>1. S \in SUBSET Int /\ S # {} /\ (\A x \in S : 0 <= x /\ x <= a + b) /\ a + b \in Int /\ 0 \in Int
    BY <1>1
  <2> HIDE DEF S
  <2>2. Min(S) \in S /\ \A x \in S : Min(S) <= x
    BY <2>1, Chosen
  <2> QED
    BY <2>2 DEF S
<1> QED
  BY <1>2

LEMMA OpenViews ==
  ASSUME Typed, ViewInv, Open, UNCHANGED <<rows, log>>
  PROVE  ViewInv'
<1>1. PICK w \in start.windows :
        view' = [Closed EXCEPT !.pc = "paging", !.from = w[1], !.to = w[2], !.held = Len(log)]
  BY DEF Open
<1>2. w[1] \in Int /\ w[2] \in Int \cup {None}
  BY StartsAssumption DEF IsSetting, Typed, Stored, Pictured
<1>3. /\ DOMAIN view' = View /\ view'.pc = "paging" /\ view'.from = w[1] /\ view'.to = w[2]
      /\ view'.held = Len(log) /\ view'.got = {}
  BY <1>1 DEF Closed, View
<1> QED
  BY <1>2, <1>3, Logged DEF ViewInv, ViewFacts, ShownFacts, Shown

LEMMA PageViews ==
  ASSUME Typed, ViewInv, view.pc = "paging", ReadPage, UNCHANGED <<start, rows, log>>
  PROVE  ViewInv'
<1>1. PICK page \in Pages :
        LET got == view.got \cup page
            over == Cardinality(got) > ReadLimit
        IN  view' = [view EXCEPT !.got = got, !.truncated = over,
                                 !.pc = IF over \/ page = Remaining THEN "rows" ELSE "paging"]
  BY DEF ReadPage
<1> DEFINE got == view.got \cup page
           over == Cardinality(got) > ReadLimit
           pc == IF over \/ page = Remaining THEN "rows" ELSE "paging"
<1>2. page \subseteq Remaining
  BY DEF Pages, kSubset
<1>3. got \subseteq {i \in 1..Len(log) : InWindow(i)}
  BY <1>2 DEF Remaining, ViewInv, ViewFacts
<1>4. ASSUME pc = "rows", ~over PROVE {i \in 1..view.held : InWindow(i)} \subseteq got
  <2>1. page = Remaining
    BY <1>4
  <2>2. \A i \in 1..view.held : i \in 1..Len(log)
    BY Logged DEF ViewInv, ViewFacts
  <2> QED
    BY <2>1, <2>2 DEF Remaining
<1>5. pc \in {"rows", "paging"}
  OBVIOUS
<1>6. view' = [view EXCEPT !.got = got, !.truncated = over, !.pc = pc]
  BY <1>1
<1>7. over <=> Cardinality(got) > ReadLimit
  OBVIOUS
<1> HIDE DEF got, over, pc
<1>8. /\ DOMAIN view' = View /\ view'.pc = pc /\ view'.from = view.from /\ view'.to = view.to
      /\ view'.held = view.held /\ view'.got = got /\ view'.truncated = over
  BY <1>6 DEF ViewInv, View, Closed
<1>9. \A i : InWindow(i)' <=> InWindow(i)
  BY <1>8 DEF InWindow
<1>10. ViewFacts'
  BY <1>3, <1>4, <1>5, <1>7, <1>8, <1>9 DEF ViewFacts, ViewInv
<1> QED
  BY <1>5, <1>8, <1>10 DEF ViewInv, ShownFacts, Shown

LEMMA MatchViews ==
  ASSUME Typed, LogInv, ViewInv, view.pc = "rows", Match, UNCHANGED <<start, rows, log>>
  PROVE  ViewInv'
<1>1. PICK changes \in SUBSET view.got :
        LET writes == IF changes = {} THEN {}
                      ELSE WritesBetween(log[Min(changes)].at - MatchBefore,
                                         log[Max(changes)].at + MatchAfter)
        IN  /\ AreChanges(changes)
            /\ view' = [view EXCEPT !.pc = "shown",
                           !.items = [i \in changes |-> classifyChange(log[i], writes)]]
  BY DEF Match
<1> DEFINE writes == IF changes = {} THEN {}
                     ELSE WritesBetween(log[Min(changes)].at - MatchBefore,
                                        log[Max(changes)].at + MatchAfter)
           items == [i \in changes |-> classifyChange(log[i], writes)]
           got == view.got
<1>2. Len(log) \in Nat /\ got \subseteq 1..Len(log) /\ changes \subseteq got /\ AreChanges(changes)
      /\ view' = [view EXCEPT !.pc = "shown", !.items = items]
  BY <1>1, Logged DEF ViewInv, ViewFacts
<1>3. IsFiniteSet(got) /\ IsFiniteSet(changes) /\ Cardinality(got) \in Nat
  <2>1. IsFiniteSet(1..Len(log))
    <3> DEFINE n == Len(log)
    <3>1. n \in Int /\ 1 \in Int
      BY <1>2
    <3> HIDE DEF n
    <3>2. IsFiniteSet(1..n)
      BY <3>1, FS_Interval
    <3> QED
      BY <3>2 DEF n
  <2> QED
    BY <1>2, <2>1, FS_Subset, FS_CardinalityType
<1>4. Cardinality(changes) = IF ReadLimit <= Cardinality(got) THEN ReadLimit ELSE Cardinality(got)
  BY <1>2, <1>3, MinOfTwo, ReadAssumption DEF AreChanges, kSubset
<1>5. Cardinality(got) <= ReadLimit => changes = got
  <2> SUFFICES ASSUME Cardinality(got) <= ReadLimit PROVE changes = got
    OBVIOUS
  <2>1. Cardinality(got) = Cardinality(changes)
    BY <1>3, <1>4, ReadAssumption
  <2> QED
    BY <1>2, <1>3, <2>1, FS_Subset
<1>6. \A i \in changes : RightOrigin(i, classifyChange(log[i], writes).origin)
  <2> SUFFICES ASSUME NEW i \in changes
               PROVE  RightOrigin(i, classifyChange(log[i], writes).origin)
    OBVIOUS
  <2>1. changes # {} /\ i \in 1..Len(log)
    BY <1>2
  <2> DEFINE first == Min(changes)
             last == Max(changes)
  <2>2. first \in changes /\ last \in changes /\ first <= i /\ i <= last
    <3> DEFINE n == Len(log)
    <3>1. /\ changes \in SUBSET Int /\ changes # {} /\ 1 \in Int /\ n \in Int
          /\ \A x \in changes : 1 <= x /\ x <= n
      BY <1>2, <2>1
    <3> HIDE DEF n
    <3>2. /\ first \in changes /\ \A x \in changes : first <= x
          /\ last \in changes /\ \A x \in changes : x <= last
      BY <3>1, Chosen
    <3> QED
      BY <3>2
  <2>3. first \in 1..Len(log) /\ last \in 1..Len(log)
    BY <1>2, <2>2
  <2> DEFINE from == log[first].at - MatchBefore
             to == log[last].at + MatchAfter
  <2>4. writes = WritesBetween(from, to)
    BY <2>1
  <2> HIDE DEF writes, first, last
  <2>5. log[first].at <= log[i].at /\ log[i].at <= log[last].at
    BY <2>1, <2>2, <2>3 DEF LogInv, LogFacts
  <2>6. writes \subseteq {k \in 1..Len(rows) : rows[k].writes}
    BY <2>4 DEF WritesBetween
  <2>7. ASSUME NEW k \in 1..Len(rows), rows[k].writes,
               rows[k].at >= log[i].at - MatchBefore, rows[k].at <= log[i].at + MatchAfter
        PROVE  k \in writes
    <3>1. rows[k].at \in Int /\ log[first].at \in Int /\ log[last].at \in Int /\ log[i].at \in Int
      BY <2>1, <2>3, Logged
    <3> DEFINE t == rows[k].at
               f == log[first].at
               l == log[last].at
               at == log[i].at
    <3>2. /\ t \in Int /\ f \in Int /\ l \in Int /\ at \in Int /\ f <= at /\ at <= l
          /\ t >= at - MatchBefore /\ t <= at + MatchAfter
          /\ MatchBefore \in Int /\ MatchAfter \in Int
      BY <2>5, <2>7, <3>1, MatchAssumption
    <3> HIDE DEF t, f, l, at
    <3>3. t >= f - MatchBefore /\ t <= l + MatchAfter
      BY <3>2
    <3> QED
      BY <2>4, <2>7, <3>3 DEF WritesBetween, t, f, l
  <2> QED
    BY <2>1, <2>6, <2>7, ClassifiedRight
<1> HIDE DEF writes
<1>7. DOMAIN items = changes /\ \A i \in changes : items[i] = classifyChange(log[i], writes)
  OBVIOUS
<1> HIDE DEF items
<1>8. /\ DOMAIN view' = View /\ view'.pc = "shown" /\ view'.from = view.from /\ view'.to = view.to
      /\ view'.held = view.held /\ view'.got = view.got /\ view'.truncated = view.truncated
      /\ view'.items = items
  BY <1>2 DEF ViewInv, View, Closed
<1>9. \A i : InWindow(i)' <=> InWindow(i)
  BY <1>8 DEF InWindow
<1>10. \A i, o : RightOrigin(i, o)' <=> RightOrigin(i, o)
  BY DEF RightOrigin, Skew
<1>11. ViewFacts'
  BY <1>8, <1>9 DEF ViewFacts, ViewInv
<1>12. view.truncated => Cardinality(changes) = ReadLimit
  BY <1>3, <1>4, ReadAssumption DEF ViewInv, ViewFacts
<1>13. ~view.truncated => {i \in 1..view.held : InWindow(i)} \subseteq changes
  BY <1>3, <1>5, ReadAssumption DEF ViewInv, ViewFacts
<1>14. \A i \in changes : i \in 1..Len(log) /\ InWindow(i) /\ RightOrigin(i, items[i].origin)
  BY <1>2, <1>6, <1>7 DEF ViewInv, ViewFacts
<1>15. ShownFacts'
  BY <1>7, <1>8, <1>9, <1>10, <1>12, <1>13, <1>14 DEF ShownFacts, Shown
<1> QED
  BY <1>8, <1>11, <1>15 DEF ViewInv

\* The log and the rows grow at their end, and a reading is of what was there.
LEMMA ViewKept ==
  ASSUME Typed, LogInv, ViewInv, UNCHANGED <<start, view>>,
         UNCHANGED rows \/ \E x : rows' = Append(rows, x),
         UNCHANGED log \/ \E x : log' = Append(log, x)
  PROVE  ViewInv'
<1>1. /\ Len(log) \in Nat /\ Len(log') \in Nat /\ Len(log) <= Len(log')
      /\ \A i \in 1..Len(log) : i \in 1..Len(log') /\ log'[i] = log[i]
  BY Logged
<1>2. \A k \in 1..Len(rows) : k \in 1..Len(rows') /\ rows'[k] = rows[k]
  BY Logged
<1>3. \A i \in 1..Len(log) : InWindow(i)' <=> InWindow(i)
  BY <1>1 DEF InWindow
<1>4. ASSUME NEW i \in 1..Len(log), NEW o, RightOrigin(i, o) PROVE RightOrigin(i, o)'
  <2>1. log'[i] = log[i] /\ Skew' = Skew
    BY <1>1 DEF Skew
  <2>2. log[i].by = "app" => rows'[log[i].row] = rows[log[i].row]
    BY <1>2 DEF LogInv, LogFacts, Backed
  <2> QED
    BY <1>2, <1>4, <2>1, <2>2 DEF RightOrigin
<1>5. view.held \in 0..Len(log) /\ view.held \in 0..Len(log') /\ \A i \in 1..view.held : i \in 1..Len(log)
  BY <1>1 DEF ViewInv, ViewFacts
<1>6. ViewFacts'
  BY <1>1, <1>3, <1>5 DEF ViewInv, ViewFacts
<1>7. ASSUME Shown PROVE ShownFacts'
  <2>1. DOMAIN view.items \subseteq 1..Len(log) /\ DOMAIN view.items \subseteq 1..Len(log')
    BY <1>1, <1>7 DEF ViewInv, ShownFacts
  <2>2. \A i \in DOMAIN view.items : InWindow(i)' /\ RightOrigin(i, view.items[i].origin)'
    <3> SUFFICES ASSUME NEW i \in DOMAIN view.items
                 PROVE  InWindow(i)' /\ RightOrigin(i, view.items[i].origin)'
      OBVIOUS
    <3>1. i \in 1..Len(log) /\ InWindow(i) /\ RightOrigin(i, view.items[i].origin)
      BY <1>7, <2>1 DEF ViewInv, ShownFacts
    <3> QED
      BY <1>3, <1>4, <3>1
  <2> QED
    BY <1>3, <1>5, <1>7, <2>1, <2>2 DEF ViewInv, ShownFacts, Shown
<1>8. ShownFacts'
  BY <1>7 DEF ShownFacts, Shown
<1> QED
  BY <1>6, <1>8 DEF ViewInv

\* A step of the directory, of a request or of the scan adds to the log or leaves it.
LEMMA Grows ==
  ASSUME Typed, LockNext
  PROVE  /\ UNCHANGED start
         /\ UNCHANGED rows \/ \E x : rows' = Append(rows, x)
         /\ UNCHANGED log \/ \E x : log' = Append(log, x)
<1>1. ASSUME NEW by, NEW actor, NEW wrote, NEW row, Record(by, actor, wrote, row)
      PROVE  UNCHANGED log \/ \E x : log' = Append(log, x)
  BY <1>1 DEF Record
<1>2. ASSUME NEW r, NEW wrote, NEW holds, NEW es, NEW ps, NEW touched, Write(r, wrote, holds, es, ps, touched)
      PROVE  UNCHANGED <<start, rows>> /\ (UNCHANGED log \/ \E x : log' = Append(log, x))
  BY <1>1, <1>2 DEF Write
<1>3. ASSUME NEW actor, NEW writes, Audit(actor, writes)
      PROVE  UNCHANGED rows \/ \E x : rows' = Append(rows, x)
  BY <1>3 DEF Audit
<1>4. ASSUME NEW r \in Requests, Edit(r)
      PROVE  /\ UNCHANGED start
             /\ UNCHANGED rows \/ \E x : rows' = Append(rows, x)
             /\ UNCHANGED log \/ \E x : log' = Append(log, x)
  <2>1. CASE BeginEdit(r)
    BY <1>3, <2>1 DEF BeginEdit
  <2>2. CASE ReadBeforeWrite(r) \/ GiveUp(r)
    BY <2>2 DEF ReadBeforeWrite, GiveUp
  <2>3. CASE WriteLock(r) \/ WriteExpiry(r) \/ WritePolicy(r) \/ AddOrRemovePolicy(r) \/ WritePassword(r)
    <3>1. \E wrote, holds, es, ps, touched : Write(r, wrote, holds, es, ps, touched)
      BY <2>3 DEF WriteLock, WriteExpiry, WritePolicy, AddOrRemovePolicy, WritePassword
    <3> QED
      BY <1>2, <3>1
  <2> QED
    BY <1>4, <2>1, <2>2, <2>3 DEF Edit
<1>5. ASSUME NEW r \in Requests, Glance(r) PROVE UNCHANGED <<start, rows, log>>
  BY <1>5, GlanceFits
<1>6. ASSUME Tick \/ RunScan \/ TriggerScan \/ AuditOnly
      PROVE  /\ UNCHANGED <<start, log>>
             /\ UNCHANGED rows \/ \E x : rows' = Append(rows, x)
  BY <1>3, <1>6 DEF Tick, RunScan, TriggerScan, AuditOnly
<1>7. ASSUME NEW a \in Accounts, FailedBind(a) \/ GoodBind(a) \/ LockByHand(a) \/ Provision(a)
      PROVE  /\ UNCHANGED <<start, rows>>
             /\ UNCHANGED log \/ \E x : log' = Append(log, x)
  <2>1. \E by, actor, wrote, row : Record(by, actor, wrote, row)
    <3>1. ASSUME NEW fails, NEW lock, Bind(a, fails, lock) PROVE \E wrote : Record("ppolicy", Root, wrote, 0)
      BY <3>1 DEF Bind
    <3> QED
      BY <1>7, <3>1 DEF FailedBind, GoodBind, LockByHand, Provision
  <2>2. UNCHANGED <<start, rows>>
    BY <1>7 DEF FailedBind, GoodBind, Bind, LockByHand, Provision
  <2> QED
    BY <1>1, <2>1, <2>2
<1> QED
  BY <1>4, <1>5, <1>6, <1>7 DEF LockNext, Step, Edit, Glance

LEMMA ViewStep == Typed /\ LogInv /\ ViewInv /\ [Next]_<<vars, view>> => ViewInv'
<1> SUFFICES ASSUME Typed, LogInv, ViewInv, [Next]_<<vars, view>> PROVE ViewInv'
  OBVIOUS
<1>1. ASSUME See PROVE ViewInv'
  <2>1. UNCHANGED <<start, rows, log>>
    BY <1>1 DEF See
  <2>2. CASE view' = Closed
    BY <2>2, Logged DEF Closed, View, ViewInv, ViewFacts, ShownFacts, Shown
  <2> QED
    BY <1>1, <2>1, <2>2, OpenViews, PageViews, MatchViews DEF See
<1>2. ASSUME LockNext, UNCHANGED view PROVE ViewInv'
  BY <1>2, Grows, ViewKept
<1>3. ASSUME UNCHANGED <<vars, view>> PROVE ViewInv'
  BY <1>3, ViewKept DEF vars
<1> QED
  BY <1>1, <1>2, <1>3 DEF Next

-----------------------------------------------------------------------------
(* The theorems *)

IInv == Typed /\ ScanInv /\ ReadInv /\ LogInv /\ ViewInv

LEMMA Inductive == Spec => []IInv
<1>1. Init => IInv
  BY TypedInit, ScanInit, ReadInit, LogInit, ViewInit DEF IInv
<1>2. IInv /\ [Next]_<<vars, view>> => IInv'
  BY StepTyped, ScanStep, ReadStep, LogStep, ViewStep DEF IInv
<1> QED
  BY <1>1, <1>2, PTL DEF Spec

\* Every value this program, the directory and the scan keep is what the code
\* declares it to be, and a request is only where requests of its kind go.
THEOREM TypeCorrect == Spec => []TypeOK
<1>1. IInv => TypeOK
  <2> SUFFICES ASSUME IInv PROVE TypeOK
    OBVIOUS
  <2>1. Typed /\ LogInv
    BY DEF IInv
  <2>2. now \in Instants /\ entry \in Entries /\ policy \in [Policies -> Instants \cup {None}] /\ scan \in Ledger
    BY <2>1 DEF Typed, Stored, Pictured
  <2>3. watch \in [Requests -> Watching]
    BY <2>1 DEF Typed
  <2>4. \A r \in Requests :
          /\ req[r].pc \in Places /\ req[r].op \in Ops
          /\ req[r].op \in Edits => req[r].pc \in {"read", "write"}
    BY <2>1, NoneAssumption DEF Typed, Stored, Fitting, Request
  <2>5. \A r \in Requests : req[r].op \in Edits /\ May("log") =>
          req[r].row \in 1..Len(rows) /\ rows[req[r].row].writes
    BY <2>1, <2>4 DEF LogInv, Rowed, Backed
  <2>6. \A i \in 1..Len(log) : log[i].at <= now
    BY <2>1 DEF LogInv, LogFacts
  <2>7. \A i \in 1..Len(log) : log[i].reqMod # {}
    BY <2>1, Logged DEF Change
  <2> QED
    BY <2>2, <2>3, <2>4, <2>5, <2>6, <2>7 DEF TypeOK, Entries, Watching, Places, Ops
<1> QED
  BY <1>1, Inductive, PTL

\* The figures of the dashboard match every account whose row says locked, and no
\* other whose policy can be read (lapsedLockFilterFor against lockoutFor).
THEOREM FiguresAgreeAlways == Spec => []FiguresAgreeWithRows
<1>1. IInv => FiguresAgreeWithRows
  BY FiguresAgree DEF IInv, Typed, Stored
<1> QED
  BY <1>1, Inductive, PTL

\* LockoutCadenceWarning: no lock comes and goes between two runs of a schedule
\* that it measures without its having warned.
THEOREM MissedIsWarnedAlways == Spec => []MissedIsWarned
<1>1. IInv => MissedIsWarned
  BY DEF IInv, ScanInv
<1> QED
  BY <1>1, Inductive, PTL

\* TaskHealth says a scan is overdue when one is, as soon as the grace is over.
THEOREM OverdueIsMissedAlways == Spec => []OverdueIsMissed
<1>1. IInv => OverdueIsMissed
  BY LedgerTells DEF IInv, ScanInv
<1> QED
  BY <1>1, Inductive, PTL

\* No row and no figure reports a locked account as usable (newLockoutResolver,
\* GetOverview), as far as this program knows what the server goes by.
THEOREM LockedIsNeverUsable == Spec => []LockedNeverReadsUsable
<1>1. IInv => LockedNeverReadsUsable
  BY AnswersAreSafe DEF IInv
<1> QED
  BY <1>1, Inductive, PTL

\* classifyChange says of a logged change what is right to say of it.
THEOREM OriginsAreRightAlways == Spec => []OriginsAreRight
<1>1. IInv => OriginsAreRight
  BY ViewIsRight DEF IInv
<1> QED
  BY <1>1, Inductive, PTL

\* AccessLogChanges reads its window whole, or says that it did not.
THEOREM WindowIsWholeAlways == Spec => []WindowIsWhole
<1>1. IInv => WindowIsWhole
  BY ViewIsRight DEF IInv
<1> QED
  BY <1>1, Inductive, PTL
=============================================================================
