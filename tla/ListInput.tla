----------------------------- MODULE ListInput ------------------------------
(***************************************************************************)
(* The search box of a list and the URL that holds its term                *)
(* (web/src/lib/use-url-search-input.ts over use-debounced.ts): what is    *)
(* typed reaches the URL when the typing pauses, and what comes from the   *)
(* URL, a step back in the history or a cleared filter, reaches the box.   *)
(* A navigation changes the URL at once and the page a moment later, which *)
(* is taken to be sooner than the user's next move or a pause.             *)
(***************************************************************************)
EXTENDS SequencesExt

CONSTANTS Terms,     \* what may be typed; "" is the empty box
          MaxTyped,  \* changes of the box by hand
          MaxMoves   \* steps through the history, pages turned, filters cleared

ASSUME TermsAssumption == "" \in Terms
ASSUME MaxTypedAssumption == MaxTyped \in Nat
ASSUME MaxMovesAssumption == MaxMoves \in Nat

VARIABLES urls,      \* the history of the tab: [q, page]
          here,      \* where in it the tab is
          urlValue,  \* the term the page was last rendered with
          input,     \* what the box shows
          debounced, \* what the box showed when the typing last paused
          typedCount, moves

listVars == <<urls, here, urlValue, input, debounced, typedCount, moves>>

Url == urls[here]
Rendered == urlValue = Url.q

ListInit ==
  /\ \E q \in Terms : /\ urls = <<[q |-> q, page |-> 1]>>
                      /\ urlValue = q /\ input = q /\ debounced = q
  /\ here = 1
  /\ typedCount = 0 /\ moves = 0

(***************************************************************************)
(* patchSearch: a new term replaces the entry and goes back to page one, a *)
(* page is worth an entry of its own.                                      *)
(***************************************************************************)
Replaced(q) == [urls EXCEPT ![here] = [q |-> q, page |-> 1]]

\* Mutant: the term stays in the box.
Uncommitted(last, value) == urls

\* The effect: what was typed goes into the URL.
committed(last, value) == IF last # value THEN Replaced(last) ELSE urls

Type(q) ==
  /\ Rendered /\ typedCount < MaxTyped /\ q # input
  /\ input' = q
  /\ typedCount' = typedCount + 1
  /\ UNCHANGED <<urls, here, urlValue, debounced, moves>>

\* The box has been still for three tenths of a second.
Pause ==
  /\ Rendered /\ debounced # input
  /\ debounced' = input
  /\ urls' = committed(input, urlValue)
  /\ UNCHANGED <<here, urlValue, input, typedCount, moves>>

\* The page is rendered with the URL's term, which the box adopts; then the
\* effect runs.
Render ==
  /\ ~Rendered
  /\ urlValue' = Url.q
  /\ input' = Url.q
  /\ urls' = committed(debounced, Url.q)
  /\ UNCHANGED <<here, debounced, typedCount, moves>>

Back(step) ==
  /\ Rendered /\ moves < MaxMoves /\ here + step \in DOMAIN urls
  /\ here' = here + step
  /\ moves' = moves + 1
  /\ UNCHANGED <<urls, urlValue, input, debounced, typedCount>>

clearFilters ==
  /\ Rendered /\ moves < MaxMoves /\ (Url.q # "" \/ input # "")
  /\ input' = ""
  /\ urls' = Replaced("")
  /\ moves' = moves + 1
  /\ UNCHANGED <<here, urlValue, debounced, typedCount>>

handlePageChange ==
  /\ Rendered /\ moves < MaxMoves
  /\ urls' = Append(SubSeq(urls, 1, here), [Url EXCEPT !.page = IF Url.page = 1 THEN 2 ELSE 1])
  /\ here' = here + 1
  /\ moves' = moves + 1
  /\ UNCHANGED <<urlValue, input, debounced, typedCount>>

ListStep ==
  \/ \E q \in Terms : Type(q)
  \/ Pause \/ Render \/ clearFilters \/ handlePageChange
  \/ \E step \in {1, 0 - 1} : Back(step)

\* The timer fires and the page is rendered.
ListFairness == WF_listVars(Pause) /\ WF_listVars(Render)

-----------------------------------------------------------------------------
(* When the typing and the moves are over, the box, the page and the URL   *)
(* come to agree on one term, and stay so.                                 *)
UrlFollowsInput == <>[](input = Url.q /\ urlValue = Url.q /\ debounced = input)
=============================================================================
