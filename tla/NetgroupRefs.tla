---------------------------- MODULE NetgroupRefs ----------------------------
(***************************************************************************)
(* What the interface may say of a netgroup a sudo rule names              *)
(* (resolveNetgroupByName in web/src/lib/netgroup.ts and its query in      *)
(* web/src/components/netgroup-usage.tsx): it searches the collection for  *)
(* the name and gets one page of what matches, which the directory itself  *)
(* may have cut short.                                                     *)
(***************************************************************************)
EXTENDS FiniteSetsExt

CONSTANTS Names,      \* netgroups whose entry matches the search
          Wanted,     \* the name the rule gives
          LookupLimit, \* NAME_LOOKUP_LIMIT: the width of a page
          SizeLimit    \* entries the directory returns for one search

ASSUME NamesAssumption == IsFiniteSet(Names)
ASSUME WantedAssumption == Wanted \in Names
ASSUME LookupLimitAssumption == LookupLimit \in Nat \ {0}
ASSUME SizeLimitAssumption == SizeLimit \in Nat \ {0}

VARIABLES directory, \* the netgroups there are
          page,      \* the answer, none yet or one
          sawWanted, \* history: whether the name existed when it was read
          supported  \* the deployment has netgroups

refVars == <<directory, page, sawWanted, supported>>

NoPage == {}

RefInit ==
  /\ directory \in SUBSET Names
  /\ supported \in BOOLEAN
  /\ page = NoPage
  /\ sawWanted = FALSE

\* The search, sorted and cut: the directory's limit first, then the page.
Search ==
  /\ supported
  /\ \E found \in kSubset(Min({SizeLimit, Cardinality(directory)}), directory) :
       \E data \in kSubset(Min({LookupLimit, Cardinality(found)}), found) :
         page' = {[data |-> data, total |-> Cardinality(found),
                   truncated |-> found # directory]}
  /\ sawWanted' = (Wanted \in directory)
  /\ UNCHANGED <<directory, supported>>

\* The query fails or its answer is dropped from the cache.
LosePage ==
  /\ page # NoPage
  /\ page' = NoPage
  /\ UNCHANGED <<directory, sawWanted, supported>>

CreateOrDelete(name) ==
  /\ directory' = IF name \in directory THEN directory \ {name} ELSE directory \cup {name}
  /\ UNCHANGED <<page, sawWanted, supported>>

RefStep == Search \/ LosePage \/ \E name \in Names : CreateOrDelete(name)

RefSpec == RefInit /\ [][RefStep]_refVars

-----------------------------------------------------------------------------
\* Mutant: a full page counts as the whole answer.
ResolvedByPage(answer) ==
  IF answer = NoPage THEN "unknown"
  ELSE LET p == CHOOSE one \in answer : TRUE
       IN  IF Wanted \in p.data THEN "found"
           ELSE IF p.truncated THEN "unknown" ELSE "absent"

resolveNetgroupByName(answer) ==
  IF answer = NoPage THEN "unknown"
  ELSE LET p == CHOOSE one \in answer : TRUE
       IN  IF Wanted \in p.data THEN "found"
           ELSE IF ~p.truncated /\ Cardinality(p.data) >= p.total THEN "absent"
           ELSE "unknown"

(* A rule is said to name a netgroup that does not exist only when the     *)
(* whole collection was seen without it; said to name one that exists, it  *)
(* did.                                                                    *)
AbsentIsEarned ==
  /\ resolveNetgroupByName(page) = "absent" => ~sawWanted
  /\ resolveNetgroupByName(page) = "found" => sawWanted
=============================================================================
