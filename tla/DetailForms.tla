---------------------------- MODULE DetailForms ----------------------------
(***************************************************************************)
(* A form over one entry of the directory (useSyncedForm in                *)
(* web/src/lib/form-sync.ts and the pages that use it): what the user      *)
(* types, the answers that arrive underneath, and the save, while other    *)
(* administrators write the same entry.                                    *)
(*                                                                         *)
(* A sheet says what a save sends, the fields that differ from the entry   *)
(* shown ("changed") or all of them ("whole"); whether the entry was in    *)
(* the cache when the page came up (warm); and whether its fields then     *)
(* start with that entry or, as on the page of a netgroup, blank.          *)
(***************************************************************************)
EXTENDS SequencesExt

CONSTANTS Sheets,   \* the forms looked at, [kind, warm, starts]
          Fields,
          Values,   \* what a field may hold
          Empty,    \* the empty field
          MaxOthers \* writes of other administrators

ASSUME SheetsAssumption ==
  Sheets \subseteq [kind : {"changed", "whole"}, warm : BOOLEAN, starts : {"entry", "blank"}]

ASSUME EmptyAssumption == Empty \in Values

ASSUME MaxOthersAssumption == MaxOthers \in Nat

VARIABLES sheet,
          stored, \* what the directory holds
          cached, \* the entry the page was given: none yet, or one
          form,   \* what the fields show
          synced, \* lastSynced: the copy the form last took over, if any
          accord, \* history: what the fields started with, or what form and entry
                  \* last agreed on as one arrived or as edits were discarded
          missed, \* history: an entry met edits and was passed over, and none was
                  \* taken over since
          saving, \* the request of the form
          others

formVars == <<sheet, stored, cached, form, synced, accord, missed, saving, others>>

Contents == [Fields -> Values]
Blank == [f \in Fields |-> Empty]

NotSaving == [at |-> "no", body |-> <<>>]
Pending == saving.at # "no"

(***************************************************************************)
(* The effect that runs when the entry shown changes: what the fields then *)
(* show and which copy they last took over.                                *)
(***************************************************************************)
\* Mutant: the entry is taken over whatever the user typed.
TakenOver(fields, last, arrived) == [shows |-> arrived, last |-> {arrived}]

\* Mutant: a form that already is what arrived is passed over like an edited one.
SyncedIfUntouched(fields, last, arrived) ==
  IF fields \in last
  THEN [shows |-> arrived, last |-> {arrived}]
  ELSE [shows |-> fields, last |-> last]

\* An edited form is left alone, unless it is what arrived.
useSyncedForm(fields, last, arrived) ==
  IF fields \in last \/ fields = arrived
  THEN [shows |-> arrived, last |-> {arrived}]
  ELSE [shows |-> fields, last |-> last]

FormInit ==
  /\ sheet \in Sheets
  /\ stored \in Contents
  /\ cached = IF sheet.warm THEN {stored} ELSE {}
  /\ LET first == IF sheet.starts = "entry" THEN stored ELSE Blank
         next == useSyncedForm(first, {}, stored)
     IN  /\ form = IF sheet.warm THEN next.shows ELSE Blank
         /\ synced = IF sheet.warm THEN next.last ELSE {}
  /\ accord = form /\ missed = FALSE
  /\ saving = NotSaving
  /\ others = 0

\* What the save and discard buttons go by.
Dirty == cached # {} /\ form \notin cached

\* What the user typed and neither took back nor discarded.
Typed == {f \in Fields : form[f] # accord[f]}

changedFields(fields, shown) == Restrict(fields, {f \in Fields : fields[f] # shown[f]})

Body ==
  IF sheet.kind = "whole" THEN form
  ELSE changedFields(form, CHOOSE shown \in cached : TRUE)

-----------------------------------------------------------------------------
Edit(f, value) ==
  /\ cached # {}
  /\ form' = [form EXCEPT ![f] = value]
  /\ UNCHANGED <<sheet, stored, cached, synced, accord, missed, saving, others>>

Discard ==
  /\ Dirty /\ ~Pending
  /\ form' \in cached
  /\ accord' = form'
  /\ UNCHANGED <<sheet, stored, cached, synced, missed, saving, others>>

\* Another administrator writes a field of the entry.
OtherWrites(f, value) ==
  /\ others < MaxOthers
  /\ stored[f] # value
  /\ stored' = [stored EXCEPT ![f] = value]
  /\ others' = others + 1
  /\ UNCHANGED <<sheet, cached, form, synced, accord, missed, saving>>

\* The entry is read, for the first time or again, and the effect runs if it
\* differs from the one shown.
Arrive ==
  /\ cached # {stored}
  /\ LET next == useSyncedForm(form, synced, stored)
         agree == next.shows = stored
     IN  /\ form' = next.shows
         /\ synced' = next.last
         /\ accord' = IF agree THEN stored ELSE accord
         /\ missed' = (~agree /\ (Typed # {} \/ missed))
  /\ cached' = {stored}
  /\ UNCHANGED <<sheet, stored, saving, others>>

Save ==
  /\ Dirty /\ ~Pending
  /\ saving' = [at |-> "sent", body |-> Body]
  /\ UNCHANGED <<sheet, stored, cached, form, synced, accord, missed, others>>

Store ==
  /\ saving.at = "sent"
  /\ stored' = [f \in Fields |->
                  IF f \in DOMAIN saving.body THEN saving.body[f] ELSE stored[f]]
  /\ saving' = [NotSaving EXCEPT !.at = "applied"]
  /\ UNCHANGED <<sheet, cached, form, synced, accord, missed, others>>

\* The answer: done, refused, or lost after it was applied.  The form keeps
\* what it shows and waits for the entry.
SaveEnds ==
  /\ Pending
  /\ saving' = NotSaving
  /\ UNCHANGED <<sheet, stored, cached, form, synced, accord, missed, others>>

FormStep ==
  \/ \E f \in Fields, value \in Values : Edit(f, value) \/ OtherWrites(f, value)
  \/ Discard \/ Arrive \/ Save \/ Store \/ SaveEnds

FormSpec == FormInit /\ [][FormStep]_formVars

-----------------------------------------------------------------------------
\* The fields came up with the entry.
StartsShown == sheet.warm /\ sheet.starts = "entry"

(* A form that holds nothing typed shows the entry as it last arrived, so  *)
(* it neither claims unsaved changes nor saves an old copy over a new one; *)
(* also after a save, whose values come back with the next arrival.  Two   *)
(* exceptions: a form that started blank, before its entry came or over it *)
(* (netgroups/$dn.tsx), and has taken no copy over yet; and one that       *)
(* passed over an arrival under edits since taken back or discarded.       *)
PristineFollows ==
  Typed = {} /\ ~missed /\ (StartsShown \/ synced # {}) => form \in cached

(* A page that came up before its entry shows the entry once it arrives.   *)
FirstArrivalIsAdopted ==
  [][cached = {} /\ cached' # {} /\ Typed = {} => (form' \in cached')]_formVars

\* A discard put the form back to a copy it had passed over, not the one it
\* last took over.
PutBack == missed /\ accord \notin synced

(* An arrival never replaces what the user typed.  One exception, against  *)
(* form-sync.ts:13: after a discard to a copy that had been passed over,   *)
(* typing that happens to give back the older copy the form last took over.*)
EditsSurviveRefetch ==
  [][cached' # cached /\ form' # form => Typed = {} \/ PutBack]_formVars
=============================================================================
