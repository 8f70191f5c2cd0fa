---------------------------- MODULE NetgroupGraph ----------------------------
(***************************************************************************)
(* Following the nesting of netgroups: internal/ldap/netgroup_expand.go.   *)
(*                                                                         *)
(* A graph maps the netgroups that exist to what their entries carry:      *)
(* slots, the user slots of the triples (a name, Open, or Nobody for "-"), *)
(* and members, the netgroups they nest, which need not exist.  The host   *)
(* slots are treated exactly alike and left out.                           *)
(***************************************************************************)
EXTENDS Naturals, FiniteSets, SequencesExt

CONSTANTS Open, Nobody

-----------------------------------------------------------------------------
(* expand: breadth first from the root, one netgroup per round. *)

NamesIn(graph, n) == graph[n].slots \ {Open, Nobody}

Children(graph, n) == graph[n].members \cap DOMAIN graph

\* Mutant: a netgroup is marked when it leaves the queue, not when it enters.
VisitUnmarked(graph, w) ==
  LET n == Head(w.queue)
      fresh == Children(graph, n) \ w.seen
  IN [queue |-> Tail(w.queue) \o SetToSeq(fresh),
      seen |-> w.seen \cup {n},
      via |-> [u \in DOMAIN w.via \cup NamesIn(graph, n) |-> n],
      open |-> w.open \cup (IF Open \in graph[n].slots THEN {n} ELSE {}),
      cycles |-> w.cycles \cup ({n} \X (Children(graph, n) \cap w.seen)),
      dangling |-> w.dangling \cup (graph[n].members \ DOMAIN graph)]

\* The netgroup at the head of the queue: who its slots name (the first to name
\* them keeps them), what it opens, and its members: unknown ones are dangling,
\* those met before are reported as cycles, the others join the queue.
Visit(graph, w) ==
  LET n == Head(w.queue)
      fresh == Children(graph, n) \ w.seen
  IN [queue |-> Tail(w.queue) \o SetToSeq(fresh),
      seen |-> w.seen \cup fresh,
      via |-> [u \in DOMAIN w.via \cup NamesIn(graph, n) |->
                 IF u \in DOMAIN w.via THEN w.via[u] ELSE n],
      open |-> w.open \cup (IF Open \in graph[n].slots THEN {n} ELSE {}),
      cycles |-> w.cycles \cup ({n} \X (Children(graph, n) \cap w.seen)),
      dangling |-> w.dangling \cup (graph[n].members \ DOMAIN graph)]

\* The walk as it sets out, and after each round.
Start(root) ==
  [queue |-> <<root>>, seen |-> {root}, via |-> <<>>,
   open |-> {}, cycles |-> {}, dangling |-> {}]

After(graph, root) ==
  LET after[k \in 0..Cardinality(DOMAIN graph)] ==
        IF k = 0 THEN Start(root)
        ELSE IF after[k - 1].queue = <<>> THEN after[k - 1]
        ELSE Visit(graph, after[k - 1])
  IN after

Expand(graph, root) == After(graph, root)[Cardinality(DOMAIN graph)]

-----------------------------------------------------------------------------
(* membershipsForUser: upwards from the netgroups that name the user. *)

Naming(graph, u) == {n \in DOMAIN graph : u \in NamesIn(graph, n)}

Parents(graph, ns) == {p \in DOMAIN graph : graph[p].members \cap ns # {}}

\* Mutant: only the netgroups that nest one that names the user.
ContainingUserNear(graph, u) ==
  Naming(graph, u) \cup Parents(graph, Naming(graph, u))

\* What is found within k rounds.
Found(graph, u) ==
  LET found[k \in 0..Cardinality(DOMAIN graph)] ==
        IF k = 0 THEN Naming(graph, u)
        ELSE found[k - 1] \cup Parents(graph, found[k - 1])
  IN found

ContainingUser(graph, u) == Found(graph, u)[Cardinality(DOMAIN graph)]

-----------------------------------------------------------------------------
(* The reference: paths of the nesting relation. *)

\* What k nestings or fewer lead to; no more than there are netgroups can matter.
Within(graph, root) ==
  LET within[k \in 0..Cardinality(DOMAIN graph)] ==
        IF k = 0 THEN {root}
        ELSE within[k - 1] \cup UNION {Children(graph, n) : n \in within[k - 1]}
  IN within

Reachable(graph, root) == Within(graph, root)[Cardinality(DOMAIN graph)]

Distance(graph, root, n) ==
  CHOOSE k \in 0..Cardinality(DOMAIN graph) :
    n \in Within(graph, root)[k] /\ (k > 0 => n \notin Within(graph, root)[k - 1])

\* The walk ends, meets exactly what can be reached, names the users and the open
\* slots of all of it, each user by a netgroup as near as any that names them, and
\* reports every reference into nothing.
ExpandsToReachable(graph, root) ==
  LET w == Expand(graph, root)
      reached == Reachable(graph, root)
  IN /\ w.queue = <<>>
     /\ w.seen = reached
     /\ DOMAIN w.via = UNION {NamesIn(graph, n) : n \in reached}
     /\ \A u \in DOMAIN w.via :
          /\ w.via[u] \in reached /\ u \in NamesIn(graph, w.via[u])
          /\ \A n \in reached : u \in NamesIn(graph, n) =>
               Distance(graph, root, w.via[u]) <= Distance(graph, root, n)
     /\ w.open = {n \in reached : Open \in graph[n].slots}
     /\ w.dangling = (UNION {graph[n].members : n \in reached}) \ DOMAIN graph

\* An edge on a path back to where it started.
OnCycle(graph, e) == e[1] \in Reachable(graph, e[2])

\* Every loop is reported: without the edges reported nothing leads back.
LoopsAreReported(graph, root) ==
  LET w == Expand(graph, root)
      cut == [n \in DOMAIN graph |->
                [graph[n] EXCEPT !.members = {m \in @ : <<n, m>> \notin w.cycles}]]
  IN \A n \in w.seen : \A m \in Children(cut, n) : ~OnCycle(cut, <<n, m>>)
=============================================================================
