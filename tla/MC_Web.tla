------------------------------- MODULE MC_Web -------------------------------
(***************************************************************************)
(* The machines of the web interface side by side: a behaviour picks one   *)
(* part and the others stay where they start.                              *)
(***************************************************************************)
EXTENDS OwnWrites, DetailForms, TabSession, ListInput, BulkRun, NetgroupRefs

CONSTANT Parts

VARIABLE part

vars == <<part, ownVars, formVars, tabVars, listVars, bulkVars, refVars>>

MCViewers ==
  [role : {"admin", "readonly"}, self : BOOLEAN,
   entry : {{}, {"lock", "password", "mail", "expiry", "direct"}},
   server : {{}, {"sudo", "netgroups", "policies", "expiry"}}]

Sheet(kind, warm, starts) == [kind |-> kind, warm |-> warm, starts |-> starts]

\* Only pages that send the whole form come up before their entry, and only the
\* page of a netgroup starts blank over an entry in the cache.
MCSheets == {Sheet("changed", TRUE, "entry"), Sheet("whole", TRUE, "entry"),
             Sheet("whole", TRUE, "blank"), Sheet("whole", FALSE, "entry")}

ColdSheet == {Sheet("whole", FALSE, "entry")}

(***************************************************************************)
(* Where a part that was not picked rests.                                 *)
(***************************************************************************)
OwnAtRest ==
  /\ pick = CHOOSE p \in Picks : p.op.repeats = "once"
  /\ srv = "before" /\ entry = [data |-> "none", fresh |-> FALSE]
  /\ fetch = Idle /\ watched = FALSE
  /\ call = CHOOSE c \in Requests(pick) : TRUE
  /\ fetchFails = 0

FormAtRest ==
  /\ sheet = CHOOSE one \in Sheets : one.warm
  /\ stored = Blank /\ cached = {Blank} /\ form = Blank /\ synced = {Blank}
  /\ accord = Blank /\ missed = FALSE /\ saving = NotSaving /\ others = 0

ListAtRest ==
  /\ urls = <<[q |-> "", page |-> 1]>> /\ here = 1
  /\ urlValue = "" /\ input = "" /\ debounced = ""
  /\ typedCount = MaxTyped /\ moves = MaxMoves

RefAtRest == directory = {} /\ page = {} /\ sawWanted = FALSE /\ supported = FALSE

Init ==
  /\ part \in Parts
  /\ IF part = "own" THEN OwnInit ELSE OwnAtRest
  /\ IF part = "form" THEN FormInit ELSE FormAtRest
  /\ IF part = "list" THEN ListInit ELSE ListAtRest
  /\ IF part = "refs" THEN RefInit ELSE RefAtRest
  /\ TabInit
  /\ BulkInit

Next ==
  \/ part = "own" /\ OwnStep
     /\ UNCHANGED <<part, formVars, tabVars, listVars, bulkVars, refVars>>
  \/ part = "form" /\ FormStep
     /\ UNCHANGED <<part, ownVars, tabVars, listVars, bulkVars, refVars>>
  \/ part = "tab" /\ TabStep
     /\ UNCHANGED <<part, ownVars, formVars, listVars, bulkVars, refVars>>
  \/ part = "list" /\ ListStep
     /\ UNCHANGED <<part, ownVars, formVars, tabVars, bulkVars, refVars>>
  \/ part = "bulk" /\ BulkStep
     /\ UNCHANGED <<part, ownVars, formVars, tabVars, listVars, refVars>>
  \/ part = "refs" /\ RefStep
     /\ UNCHANGED <<part, ownVars, formVars, tabVars, listVars, bulkVars>>

Spec == Init /\ [][Next]_vars /\ OwnFairness /\ ListFairness
=============================================================================
