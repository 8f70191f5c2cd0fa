----------------------------- MODULE Web_proofs -----------------------------
(***************************************************************************)
(* What is proved of the machines of the web interface: bulk runs, forms   *)
(* over an entry, the tab's session, the verdict on a netgroup, and the    *)
(* operations of the pages over the queries they show.                     *)
(***************************************************************************)
EXTENDS OwnWrites, DetailForms, TabSession, BulkRun, NetgroupRefs, FiniteSetTheorems,
        SequenceTheorems, TLAPS

-----------------------------------------------------------------------------
(***************************************************************************)
(* Bulk runs.  Every run calls for and counts each selected entry exactly  *)
(* once, however many entries there are and however many runners.          *)
(*                                                                         *)
(* The property speaks of the end of a run.  What holds on the way there   *)
(* is that the entries before the index are those taken, each of them      *)
(* either counted or in the hands of exactly one runner.                   *)
(***************************************************************************)
RunnerStates == {Free, Over} \cup {Calling(i) : i \in Items}

BulkTypeOK ==
  /\ index \in 0 .. Total
  /\ runner \in [Runners -> RunnerStates]
  /\ succeeded \in SUBSET Items /\ failed \in SUBSET Items
  /\ calls \in [Items -> Nat]

InHand(i) == \E r \in Runners : runner[r] = Calling(i)

\* An entry was called for once if the index is past it, and not at all otherwise.
CalledOnce == \A i \in Items : calls[i] = IF i < index THEN 1 ELSE 0

\* What a runner holds was taken, is not counted yet, and no other runner holds it.
HeldApart ==
  \A r \in Runners : runner[r].at = "calling" =>
    /\ runner[r].item < index
    /\ runner[r].item \notin succeeded \cup failed
    /\ \A q \in Runners \ {r} : runner[q] # runner[r]

\* What was taken is counted once or held, and nothing else is counted.
TakenAccounted ==
  /\ succeeded \cap failed = {}
  /\ \A i \in succeeded \cup failed : i < index
  /\ \A i \in Items : i < index => i \in succeeded \cup failed \/ InHand(i)

\* A runner gives up when nothing is left to take.
OverAtTheEnd == \A r \in Runners : runner[r].at = "over" => index = Total

BulkInv == BulkTypeOK /\ CalledOnce /\ HeldApart /\ TakenAccounted /\ OverAtTheEnd

(***************************************************************************)
(* There is at least one runner.                                           *)
(***************************************************************************)
LEMMA SomeRunner == 1 \in Runners
  BY TotalAssumption, ConcurrencyAssumption DEF Runners

(***************************************************************************)
(* What the three states of a runner tell apart.                           *)
(***************************************************************************)
LEMMA StatesApart ==
  /\ Free.at = "free" /\ Over.at = "over"
  /\ \A i \in Items : Calling(i).at = "calling" /\ Calling(i).item = i
  BY DEF Free, Over, Calling

LEMMA BulkInitHolds == BulkInit => BulkInv
<1> SUFFICES ASSUME BulkInit PROVE BulkInv
  OBVIOUS
<1>1. BulkTypeOK
  BY TotalAssumption DEF BulkInit, BulkTypeOK, RunnerStates, Items
<1>2. CalledOnce
  BY TotalAssumption DEF BulkInit, CalledOnce, Items
<1>3. HeldApart /\ OverAtTheEnd
  BY StatesApart DEF BulkInit, HeldApart, OverAtTheEnd
<1>4. TakenAccounted
  BY TotalAssumption DEF BulkInit, TakenAccounted, Items
<1> QED
  BY <1>1, <1>2, <1>3, <1>4 DEF BulkInv

(***************************************************************************)
(* Taking an entry: the index moves past it as the runner gets hold of it. *)
(***************************************************************************)
LEMMA TakeKeeps == ASSUME BulkInv, NEW r \in Runners, Take(r) PROVE BulkInv'
<1> USE TotalAssumption DEF BulkInv
<1>0. index \in Items /\ index' = index + 1 /\ index \in Nat /\ Total \in Nat
  BY DEF Take, BulkTypeOK, Items
<1>1. runner' = [runner EXCEPT ![r] = Calling(index)] /\ runner[r].at = "free"
  BY DEF Take
<1>2. \A q \in Runners : runner'[q] = IF q = r THEN Calling(index) ELSE runner[q]
  BY <1>1 DEF BulkTypeOK
<1>3. succeeded' = succeeded /\ failed' = failed
  BY DEF Take
<1>4. BulkTypeOK'
  <2>1. Calling(index) \in RunnerStates
    BY <1>0 DEF RunnerStates
  <2>2. runner' \in [Runners -> RunnerStates]
    BY <1>1, <2>1 DEF BulkTypeOK
  <2>3. calls' \in [Items -> Nat]
    BY <1>0 DEF Take, BulkTypeOK
  <2> QED
    BY <1>0, <1>3, <2>2, <2>3 DEF BulkTypeOK, Items
<1>5. CalledOnce'
  BY <1>0 DEF Take, BulkTypeOK, CalledOnce, Items
<1>6. HeldApart'
  <2> SUFFICES ASSUME NEW s \in Runners, runner'[s].at = "calling"
               PROVE  /\ runner'[s].item < index'
                      /\ runner'[s].item \notin succeeded \cup failed
                      /\ \A q \in Runners \ {s} : runner'[q] # runner'[s]
    BY <1>3 DEF HeldApart
  <2>1. Calling(index).at = "calling" /\ Calling(index).item = index
    BY <1>0, StatesApart
  <2>2. \A q \in Runners : runner[q] # Calling(index)
    BY <1>0, <2>1 DEF HeldApart
  <2>3. CASE s = r
    BY <1>0, <1>2, <2>1, <2>2, <2>3 DEF TakenAccounted
  <2>4. CASE s # r
    <3>1. runner'[s] = runner[s] /\ runner[s].item < index
      BY <1>2, <2>4 DEF HeldApart
    <3>2. runner[s].item \notin succeeded \cup failed
      BY <3>1 DEF HeldApart
    <3>3. \A q \in Runners \ {s} : runner[q] # runner[s]
      BY <3>1 DEF HeldApart
    <3>4. runner[s].item \in Int
      BY <3>1, StatesApart DEF BulkTypeOK, RunnerStates, Items
    <3> QED
      BY <1>0, <1>2, <2>2, <3>1, <3>2, <3>3, <3>4
  <2> QED
    BY <2>3, <2>4
<1>7. TakenAccounted'
  <2>1. \A i \in Items : InHand(i) => InHand(i)'
    BY <1>1, <1>2, StatesApart DEF InHand
  <2>2. \A i \in Items : i = index => InHand(i)'
    BY <1>2 DEF InHand
  <2>3. \A i \in Items : i < index' => i < index \/ i = index
    BY <1>0 DEF Items
  <2>4. \A i \in succeeded \cup failed : i < index'
    BY <1>0 DEF TakenAccounted, BulkTypeOK, Items
  <2> QED
    BY <1>3, <2>1, <2>2, <2>3, <2>4 DEF TakenAccounted
<1>8. OverAtTheEnd'
  <2>1. index # Total
    BY <1>0 DEF Items
  <2>2. Calling(index).at = "calling"
    BY <1>0, StatesApart
  <2> QED
    BY <1>2, <2>1, <2>2 DEF OverAtTheEnd
<1> QED
  BY <1>4, <1>5, <1>6, <1>7, <1>8

(***************************************************************************)
(* A runner that finds nothing left is over.                               *)
(***************************************************************************)
LEMMA FinishKeeps == ASSUME BulkInv, NEW r \in Runners, Finish(r) PROVE BulkInv'
<1> USE DEF BulkInv
<1>1. runner' = [runner EXCEPT ![r] = Over] /\ runner[r].at = "free"
  BY DEF Finish
<1>2. \A q \in Runners : runner'[q] = IF q = r THEN Over ELSE runner[q]
  BY <1>1 DEF BulkTypeOK
<1>3. UNCHANGED <<index, succeeded, failed, calls>> /\ index = Total
  BY TotalAssumption DEF Finish, BulkTypeOK
<1>4. BulkTypeOK' /\ CalledOnce'
  BY <1>1, <1>3 DEF BulkTypeOK, CalledOnce, RunnerStates
<1>5. HeldApart'
  <2> SUFFICES ASSUME NEW s \in Runners, runner'[s].at = "calling"
               PROVE  /\ runner'[s].item < index
                      /\ runner'[s].item \notin succeeded \cup failed
                      /\ \A q \in Runners \ {s} : runner'[q] # runner'[s]
    BY <1>3 DEF HeldApart
  <2>1. s # r /\ runner'[s] = runner[s] /\ runner[s] # Over
    BY <1>2, StatesApart
  <2>2. /\ runner[s].item < index /\ runner[s].item \notin succeeded \cup failed
        /\ \A q \in Runners \ {s} : runner[q] # runner[s]
    BY <2>1 DEF HeldApart
  <2> QED
    BY <1>2, <2>1, <2>2
<1>6. TakenAccounted'
  <2>1. \A i \in Items : InHand(i) => InHand(i)'
    BY <1>1, <1>2, StatesApart DEF InHand
  <2> QED
    BY <1>3, <2>1 DEF TakenAccounted
<1>7. OverAtTheEnd'
  BY <1>2, <1>3 DEF OverAtTheEnd
<1> QED
  BY <1>4, <1>5, <1>6, <1>7

(***************************************************************************)
(* A call that ends counts its entry, as done or as failed, and lets it go.*)
(***************************************************************************)
LEMMA SettleKeeps == ASSUME BulkInv, NEW r \in Runners, Settle(r) PROVE BulkInv'
<1> USE DEF BulkInv
<1>1. runner' = [runner EXCEPT ![r] = Free] /\ runner[r].at = "calling"
  BY DEF Settle
<1>2. \A q \in Runners : runner'[q] = IF q = r THEN Free ELSE runner[q]
  BY <1>1 DEF BulkTypeOK
<1>3. UNCHANGED <<index, calls>>
  BY DEF Settle
<1> DEFINE held == runner[r].item
<1>4. runner[r] = Calling(held) /\ held \in Items
  BY <1>1, StatesApart DEF BulkTypeOK, RunnerStates
<1>5. held < index /\ held \notin succeeded \cup failed
  BY <1>1 DEF HeldApart
<1>6. \/ succeeded' = succeeded \cup {held} /\ failed' = failed
      \/ failed' = failed \cup {held} /\ succeeded' = succeeded
  BY DEF Settle
<1>7. BulkTypeOK' /\ CalledOnce'
  <2>1. runner' \in [Runners -> RunnerStates]
    BY <1>1 DEF BulkTypeOK, RunnerStates
  <2> QED
    BY <1>3, <1>4, <1>6, <2>1 DEF BulkTypeOK, CalledOnce
<1>8. HeldApart'
  <2> SUFFICES ASSUME NEW s \in Runners, runner'[s].at = "calling"
               PROVE  /\ runner'[s].item < index
                      /\ runner'[s].item \notin succeeded' \cup failed'
                      /\ \A q \in Runners \ {s} : runner'[q] # runner'[s]
    BY <1>3 DEF HeldApart
  <2>1. s # r /\ runner'[s] = runner[s] /\ runner[s] # Free
    BY <1>2, StatesApart
  <2>2. /\ runner[s].item < index /\ runner[s].item \notin succeeded \cup failed
        /\ \A q \in Runners \ {s} : runner[q] # runner[s]
    BY <2>1 DEF HeldApart
  <2>3. runner[s] = Calling(runner[s].item)
    BY <2>1, StatesApart DEF BulkTypeOK, RunnerStates
  <2>4. runner[s].item # held
    BY <1>4, <2>1, <2>2, <2>3
  <2> QED
    BY <1>2, <1>6, <2>1, <2>2, <2>4
<1>9. TakenAccounted'
  <2>1. \A i \in Items \ {held} : InHand(i) => InHand(i)'
    BY <1>2, <1>4, StatesApart DEF InHand
  <2> QED
    BY <1>3, <1>5, <1>6, <2>1 DEF TakenAccounted
<1>10. OverAtTheEnd'
  BY <1>2, <1>3, StatesApart DEF OverAtTheEnd
<1> QED
  BY <1>7, <1>8, <1>9, <1>10

(***************************************************************************)
(* BulkInv holds throughout every run.                                     *)
(***************************************************************************)
THEOREM BulkInvariant == BulkSpec => []BulkInv
<1>1. BulkInv /\ [BulkStep]_bulkVars => BulkInv'
  <2> SUFFICES ASSUME BulkInv, [BulkStep]_bulkVars PROVE BulkInv'
    OBVIOUS
  <2>1. CASE BulkStep
    BY <2>1, TakeKeeps, FinishKeeps, SettleKeeps DEF BulkStep
  <2>2. CASE UNCHANGED bulkVars
    BY <2>2 DEF bulkVars, BulkInv, BulkTypeOK, CalledOnce, HeldApart, TakenAccounted,
                OverAtTheEnd, InHand
  <2> QED
    BY <2>1, <2>2
<1> QED
  BY <1>1, BulkInitHolds, PTL DEF BulkSpec

(***************************************************************************)
(* However many entries are selected and however many runners there are,   *)
(* a run that is over has called the server once for each entry and counted*)
(* each once (runBulk in web/src/lib/bulk.ts).                             *)
(***************************************************************************)
THEOREM BulkRunsSettle == BulkSpec => []BulkSettlesEach
<1>1. BulkInv => BulkSettlesEach
  <2> SUFFICES ASSUME BulkInv, AllOver
               PROVE  /\ \A i \in Items : calls[i] = 1
                      /\ succeeded \cup failed = Items
                      /\ succeeded \cap failed = {}
    BY DEF BulkSettlesEach
  <2>1. index = Total
    BY SomeRunner DEF BulkInv, OverAtTheEnd, AllOver
  <2>2. \A i \in Items : i < index
    BY <2>1, TotalAssumption DEF Items
  <2>3. \A i \in Items : ~InHand(i)
    BY StatesApart DEF AllOver, InHand
  <2> QED
    BY <2>2, <2>3 DEF BulkInv, CalledOnce, TakenAccounted, BulkTypeOK
<1> QED
  BY <1>1, BulkInvariant, PTL

-----------------------------------------------------------------------------
(***************************************************************************)
(* Forms.  They keep to their entry and edits survive, for any fields and  *)
(* values, any number of other administrators' writes, and pages that come *)
(* up with or without their entry, blank or not.                           *)
(*                                                                         *)
(* Both rest on what the copy last taken over is: until an arrival is      *)
(* passed over, it is the entry shown and what the fields held before the  *)
(* user typed.                                                             *)
(***************************************************************************)
\* What a request may carry: some fields, with their values.
Bodies == UNION {[s -> Values] : s \in SUBSET Fields}

FormTypeOK ==
  /\ sheet \in Sheets
  /\ stored \in Contents /\ form \in Contents /\ accord \in Contents
  /\ cached \in SUBSET Contents /\ synced \in SUBSET Contents
  /\ missed \in BOOLEAN
  /\ saving.at = "sent" => saving.body \in Bodies

OneCopy == \A a, b \in synced : a = b

ShownIsSynced == StartsShown => synced # {}

AgreedUntilMissed ==
  synced # {} /\ ~missed => synced = {accord} /\ cached = {accord}

FormInv == FormTypeOK /\ OneCopy /\ ShownIsSynced /\ AgreedUntilMissed

(***************************************************************************)
(* A form in which nothing is typed holds what it held before.             *)
(***************************************************************************)
LEMMA SameFields ==
  ASSUME NEW a \in Contents, NEW b \in Contents, \A f \in Fields : a[f] = b[f]
  PROVE  a = b
  BY DEF Contents

LEMMA NothingTyped == ASSUME FormTypeOK PROVE Typed = {} <=> form = accord
<1>1. ASSUME Typed = {} PROVE form = accord
  <2>1. \A f \in Fields : form[f] = accord[f]
    BY <1>1 DEF Typed
  <2> QED
    BY <2>1, SameFields DEF FormTypeOK
<1>2. ASSUME form = accord PROVE Typed = {}
  BY <1>2 DEF Typed
<1> QED
  BY <1>1, <1>2

(***************************************************************************)
(* A form that comes up with its entry has taken it over; one that starts  *)
(* blank over its entry has only if the entry is blank too.                *)
(***************************************************************************)
LEMMA FormInitHolds == FormInit => FormInv
<1> SUFFICES ASSUME FormInit PROVE FormInv
  OBVIOUS
<1>1. Blank \in Contents
  BY EmptyAssumption DEF Blank, Contents
<1>2. /\ sheet \in Sheets /\ stored \in Contents
      /\ cached = IF sheet.warm THEN {stored} ELSE {}
      /\ accord = form /\ ~missed /\ missed \in BOOLEAN /\ saving.at # "sent"
  BY DEF FormInit, NotSaving
<1>3. CASE ~sheet.warm
  <2>1. form = Blank /\ synced = {} /\ cached = {}
    BY <1>2, <1>3 DEF FormInit
  <2> QED
    BY <1>1, <1>2, <1>3, <2>1
       DEF FormInv, FormTypeOK, OneCopy, ShownIsSynced, AgreedUntilMissed, StartsShown
<1>4. CASE sheet.warm
  <2>1. \/ form = stored /\ synced = {stored}
        \/ sheet.starts # "entry" /\ form = Blank /\ synced = {}
    BY <1>2, <1>4 DEF FormInit, useSyncedForm
  <2> QED
    BY <1>1, <1>2, <1>4, <2>1
       DEF FormInv, FormTypeOK, OneCopy, ShownIsSynced, AgreedUntilMissed, StartsShown
<1> QED
  BY <1>3, <1>4

LEMMA EditKeeps ==
  ASSUME FormInv, NEW f \in Fields, NEW value \in Values, Edit(f, value) PROVE FormInv'
<1> USE DEF FormInv
<1>1. form' \in Contents
  BY DEF Edit, FormTypeOK, Contents
<1>2. UNCHANGED <<sheet, stored, cached, synced, accord, missed, saving>>
  BY DEF Edit
<1> QED
  BY <1>1, <1>2 DEF FormTypeOK, OneCopy, ShownIsSynced, AgreedUntilMissed, StartsShown

(***************************************************************************)
(* Discarding goes back to the entry shown, which until an arrival was     *)
(* passed over is the copy taken over.                                     *)
(***************************************************************************)
LEMMA DiscardKeeps == ASSUME FormInv, Discard PROVE FormInv'
<1> USE DEF FormInv
<1>1. form' \in cached /\ accord' = form'
  BY DEF Discard
<1>2. UNCHANGED <<sheet, stored, cached, synced, missed, saving>>
  BY DEF Discard
<1>3. FormTypeOK'
  BY <1>1, <1>2 DEF FormTypeOK
<1> QED
  BY <1>1, <1>2, <1>3 DEF OneCopy, ShownIsSynced, AgreedUntilMissed, StartsShown

(***************************************************************************)
(* An arrival is either taken over whole, and agreed on, or passed over,   *)
(* which a form that took a copy over does only when something is typed.   *)
(***************************************************************************)
LEMMA ArriveKeeps == ASSUME FormInv, Arrive PROVE FormInv'
<1> USE DEF FormInv
<1>1. cached' = {stored} /\ UNCHANGED <<sheet, stored, saving>>
  BY DEF Arrive
<1>2. CASE form \in synced \/ form = stored
  <2>1. form' = stored /\ synced' = {stored} /\ accord' = stored /\ missed' = FALSE
    BY <1>2 DEF Arrive, useSyncedForm
  <2>2. FormTypeOK'
    BY <1>1, <2>1 DEF FormTypeOK
  <2> QED
    BY <1>1, <2>1, <2>2 DEF OneCopy, ShownIsSynced, AgreedUntilMissed
<1>3. CASE ~(form \in synced \/ form = stored)
  <2>1. /\ form' = form /\ synced' = synced /\ accord' = accord
        /\ missed' = (Typed # {} \/ missed)
    BY <1>3 DEF Arrive, useSyncedForm
  <2>2. FormTypeOK'
    BY <1>1, <2>1 DEF FormTypeOK
  <2>3. synced # {} => missed'
    <3> SUFFICES ASSUME synced # {}, ~missed, Typed = {} PROVE FALSE
      BY <2>1 DEF FormTypeOK
    <3>1. form = accord
      BY NothingTyped
    <3> QED
      BY <1>3, <3>1 DEF AgreedUntilMissed
  <2> QED
    BY <1>1, <2>1, <2>2, <2>3 DEF OneCopy, ShownIsSynced, AgreedUntilMissed, StartsShown
<1> QED
  BY <1>2, <1>3

(***************************************************************************)
(* Other administrators and the save write the directory and leave the     *)
(* form alone.                                                             *)
(***************************************************************************)
LEMMA BodyIsPartial ==
  ASSUME FormTypeOK, Dirty PROVE Body \in Bodies
<1>1. Contents \subseteq Bodies
  BY DEF Contents, Bodies
<1>2. PICK shown \in cached : TRUE
  BY DEF Dirty
<1>3. \A some \in Contents : changedFields(form, some) \in Bodies
  <2> TAKE some \in Contents
  <2>1. changedFields(form, some)
          \in [{f \in Fields : form[f] # some[f]} -> Values]
    BY DEF changedFields, Restrict, FormTypeOK, Contents
  <2> QED
    BY <2>1 DEF Bodies
<1>4. (CHOOSE one \in cached : TRUE) \in Contents
  BY <1>2 DEF FormTypeOK
<1> QED
  BY <1>1, <1>3, <1>4 DEF Body, FormTypeOK

LEMMA WriteKeeps ==
  ASSUME FormInv, Save \/ Store \/ SaveEnds \/ \E f \in Fields, v \in Values : OtherWrites(f, v)
  PROVE  FormInv'
<1> USE DEF FormInv
<1>1. UNCHANGED <<sheet, cached, form, synced, accord, missed>>
  BY DEF Save, Store, SaveEnds, OtherWrites
<1>2. CASE Save
  BY <1>1, <1>2, BodyIsPartial
     DEF Save, FormTypeOK, OneCopy, ShownIsSynced, AgreedUntilMissed, StartsShown
<1>3. CASE Store
  <2>1. PICK s \in SUBSET Fields : saving.body \in [s -> Values]
    BY <1>3 DEF Store, FormTypeOK, Bodies
  <2>2. stored' = [f \in Fields |-> IF f \in s THEN saving.body[f] ELSE stored[f]]
    BY <1>3, <2>1 DEF Store
  <2>3. stored' \in Contents
    BY <2>1, <2>2 DEF FormTypeOK, Contents
  <2>4. saving'.at # "sent"
    BY <1>3 DEF Store, NotSaving
  <2> QED
    BY <1>1, <2>3, <2>4 DEF FormTypeOK, OneCopy, ShownIsSynced, AgreedUntilMissed, StartsShown
<1>4. CASE SaveEnds
  BY <1>1, <1>4 DEF SaveEnds, NotSaving, FormTypeOK, OneCopy, ShownIsSynced, AgreedUntilMissed, StartsShown
<1>5. CASE \E f \in Fields, v \in Values : OtherWrites(f, v)
  <2>1. stored' \in Contents /\ UNCHANGED saving
    BY <1>5 DEF OtherWrites, FormTypeOK, Contents
  <2> QED
    BY <1>1, <2>1 DEF FormTypeOK, OneCopy, ShownIsSynced, AgreedUntilMissed, StartsShown
<1> QED
  BY <1>2, <1>3, <1>4, <1>5

(***************************************************************************)
(* FormInv holds throughout.                                               *)
(***************************************************************************)
THEOREM FormInvariant == FormSpec => []FormInv
<1>1. FormInv /\ [FormStep]_formVars => FormInv'
  <2> SUFFICES ASSUME FormInv, [FormStep]_formVars PROVE FormInv'
    OBVIOUS
  <2>1. CASE FormStep
    BY <2>1, EditKeeps, DiscardKeeps, ArriveKeeps, WriteKeeps DEF FormStep
  <2>2. CASE UNCHANGED formVars
    BY <2>2 DEF formVars, FormInv, FormTypeOK, OneCopy, ShownIsSynced,
       AgreedUntilMissed, StartsShown
  <2> QED
    BY <2>1, <2>2
<1> QED
  BY <1>1, FormInitHolds, PTL DEF FormSpec

(***************************************************************************)
(* A form that holds nothing typed shows the entry that last arrived, if   *)
(* it came up with its entry or has taken a copy over since, and as long   *)
(* as no arrival was passed over (useSyncedForm in                         *)
(* web/src/lib/form-sync.ts).                                              *)
(***************************************************************************)
THEOREM PristineFormsFollow == FormSpec => []PristineFollows
<1>1. FormInv => PristineFollows
  <2> SUFFICES ASSUME FormInv, Typed = {}, ~missed, StartsShown \/ synced # {}
               PROVE  form \in cached
    BY DEF PristineFollows
  <2>1. form = accord
    BY NothingTyped DEF FormInv
  <2> QED
    BY <2>1 DEF FormInv, ShownIsSynced, AgreedUntilMissed
<1> QED
  BY <1>1, FormInvariant, PTL

(***************************************************************************)
(* An arrival changes no form in which something is typed, on any page,    *)
(* unless a discard had put back a copy the form had passed over.          *)
(***************************************************************************)
THEOREM EditsSurvive == FormSpec => EditsSurviveRefetch
<1>1. FormInv /\ [FormStep]_formVars
        => [cached' # cached /\ form' # form => Typed = {} \/ PutBack]_formVars
  <2> SUFFICES ASSUME FormInv, FormStep, cached' # cached, form' # form, ~PutBack
               PROVE  Typed = {}
    OBVIOUS
  <2>1. Arrive
    BY DEF FormStep, Edit, OtherWrites, Discard, Save, Store, SaveEnds
  <2>2. form \in synced
    BY <2>1 DEF Arrive, useSyncedForm
  <2>3. accord \in synced
    BY <2>2 DEF PutBack, FormInv, AgreedUntilMissed
  <2>4. form = accord
    BY <2>2, <2>3 DEF FormInv, OneCopy
  <2> QED
    BY <2>4, NothingTyped DEF FormInv
<1> QED
  BY <1>1, FormInvariant, PTL DEF FormSpec, EditsSurviveRefetch

-----------------------------------------------------------------------------
(***************************************************************************)
(* The tab.  It never serves one person what another fetched in it, for    *)
(* any people and any number of sign-ins.                                  *)
(*                                                                         *)
(* What is in the cache was fetched with the cookie of the moment, and     *)
(* while the tab shows a session that cookie is the session's own, gone,   *)
(* or one another tab signed in with.  The cache and the query under way   *)
(* end together with the session.                                          *)
(***************************************************************************)
Owners == [who : People, here : BOOLEAN]
TabRequests == [at : {"no", "sent", "ok", "401"}, as : Nat]

TabTypeOK ==
  /\ owners \in Seq(Owners)
  /\ live \in SUBSET (1 .. Len(owners))
  /\ cookie \in 0 .. Len(owners) /\ session \in 0 .. Len(owners)
  /\ query \in TabRequests /\ query.as <= Len(owners)

\* A session whose answers this tab may keep.
Own(s) == s = 0 \/ s = session \/ ~owners[s].here

\* Without a session there is nothing to keep and nothing under way.
EmptyWithout == session = 0 => cache = {} /\ query.at = "no"

LoadingIsWithout == isLoading => session = 0

CookieIsOwn == session # 0 => Own(cookie)

\* An answer that will be kept was asked for with a session, and by this tab's right.
QueryIsOwn == query.at # "no" => Own(query.as) /\ (query.at = "ok" => query.as # 0)

CacheKept == cache \subseteq {Of(session), "another tab"}

TabInv == /\ TabTypeOK /\ EmptyWithout /\ LoadingIsWithout
          /\ CookieIsOwn /\ QueryIsOwn /\ CacheKept

LEMMA TabInitHolds == TabInit => TabInv
  BY DEF TabInit, TabInv, TabTypeOK, EmptyWithout, LoadingIsWithout, CookieIsOwn,
         QueryIsOwn, CacheKept, None, TabRequests

(***************************************************************************)
(* A sign-in adds a session and leaves those there were as they are.       *)
(***************************************************************************)
LEMMA NewSessionAdds ==
  ASSUME TabTypeOK, NEW p \in People, NEW here \in BOOLEAN, NewSession(p, here)
  PROVE  /\ owners' \in Seq(Owners) /\ Len(owners') = Len(owners) + 1
         /\ cookie' = Len(owners') /\ owners'[cookie'].here = here
         /\ \A s \in 1 .. Len(owners) : owners'[s] = owners[s]
         /\ live' \in SUBSET (1 .. Len(owners'))
<1>1. owners' = Append(owners, [who |-> p, here |-> here]) /\ cookie' = Len(owners) + 1
      /\ live' = live \cup {Len(owners) + 1}
  BY DEF NewSession
<1>2. [who |-> p, here |-> here] \in Owners /\ owners \in Seq(Owners)
  BY DEF Owners, TabTypeOK
<1>3. /\ owners' \in Seq(Owners) /\ Len(owners') = Len(owners) + 1
      /\ owners'[Len(owners) + 1] = [who |-> p, here |-> here]
      /\ \A s \in 1 .. Len(owners) : owners'[s] = owners[s]
  BY <1>1, <1>2
<1>4. live \in SUBSET (1 .. Len(owners)) /\ Len(owners) \in Nat
  BY <1>2 DEF TabTypeOK
<1>5. live' \in SUBSET (1 .. Len(owners'))
  <2> DEFINE n == Len(owners)
  <2>1. n \in Nat /\ live \in SUBSET (1 .. n) /\ live' = live \cup {n + 1}
        /\ Len(owners') = n + 1
    BY <1>1, <1>3, <1>4
  <2> HIDE DEF n
  <2>2. live \cup {n + 1} \in SUBSET (1 .. n + 1)
    BY <2>1
  <2> QED
    BY <2>1, <2>2
<1> QED
  BY <1>1, <1>3, <1>5

(***************************************************************************)
(* The request that is not there is typed, and known by no session.        *)
(***************************************************************************)
LEMMA NoneIsTyped == None \in TabRequests /\ None.at = "no" /\ None.as = 0
  BY DEF None, TabRequests

(***************************************************************************)
(* The tab comes up, is reloaded, and signs in: all without a session.     *)
(***************************************************************************)
LEMMA EnterKeeps ==
  ASSUME TabInv, probe \/ Reload \/ \E p \in People : login(p) PROVE TabInv'
<1> USE DEF TabInv
<1>1. CASE probe
  <2>1. session = 0 /\ cache = {} /\ query.at = "no"
    BY <1>1 DEF probe, LoadingIsWithout, EmptyWithout
  <2> QED
    BY <1>1, <2>1 DEF probe, TabTypeOK, EmptyWithout, LoadingIsWithout, CookieIsOwn,
                      QueryIsOwn, CacheKept, Own
<1>2. CASE Reload
  <2>1. session' = 0 /\ cache' = {} /\ query' = None /\ UNCHANGED <<owners, live, cookie>>
    BY <1>2 DEF Reload
  <2>2. TabTypeOK'
    BY <2>1, NoneIsTyped DEF TabTypeOK
  <2> QED
    BY <2>1, <2>2, NoneIsTyped
       DEF EmptyWithout, LoadingIsWithout, CookieIsOwn, QueryIsOwn, CacheKept
<1>3. CASE \E p \in People : login(p)
  <2>1. PICK p \in People : login(p)
    BY <1>3
  <2>2. NewSession(p, TRUE) /\ session = 0 /\ ~isLoading /\ session' = cookie'
        /\ UNCHANGED <<isLoading, cache, query>>
    BY <2>1 DEF login
  <2>3. cache = {} /\ query.at = "no"
    BY <2>2 DEF EmptyWithout
  <2>4. /\ owners' \in Seq(Owners) /\ Len(owners') = Len(owners) + 1
        /\ cookie' = Len(owners') /\ live' \in SUBSET (1 .. Len(owners'))
    BY <2>2, NewSessionAdds
  <2>5. TabTypeOK'
    BY <2>2, <2>4 DEF TabTypeOK, TabRequests
  <2>6. session' # 0
    BY <2>2, <2>4 DEF TabTypeOK
  <2> QED
    BY <2>2, <2>3, <2>5, <2>6
       DEF EmptyWithout, LoadingIsWithout, CookieIsOwn, QueryIsOwn, CacheKept, Own
<1> QED
  BY <1>1, <1>2, <1>3

(***************************************************************************)
(* However the tab loses its session, the cache and the query go with it.  *)
(***************************************************************************)
LEMMA DropKeeps ==
  ASSUME TabInv, DropSession, UNCHANGED <<owners, live, isLoading>>,
         cookie' \in {0, cookie}
  PROVE  TabInv'
<1>1. session' = 0 /\ cache' = {} /\ query' = None
  BY DEF DropSession
<1>2. TabTypeOK'
  BY <1>1, NoneIsTyped DEF TabInv, TabTypeOK
<1> QED
  BY <1>1, <1>2, NoneIsTyped
     DEF TabInv, EmptyWithout, LoadingIsWithout, CookieIsOwn, QueryIsOwn, CacheKept

LEMMA LeaveKeeps ==
  ASSUME TabInv,
         \/ QueryAnswered /\ query.at = "401"
         \/ MutationAnswered /\ mutation.at = "401"
         \/ LogoutSettled \/ LogoutFails
  PROVE  TabInv'
<1>1. DropSession /\ UNCHANGED <<owners, live, isLoading>> /\ cookie' \in {0, cookie}
  BY DEF QueryAnswered, MutationAnswered, LogoutSettled, LogoutFails, onAuthError
<1> QED
  BY <1>1, DropKeeps

(***************************************************************************)
(* The query under way.                                                    *)
(***************************************************************************)
LEMMA QueryKeeps ==
  ASSUME TabInv, AskQuery \/ QueryServed \/ (QueryAnswered /\ query.at = "ok")
  PROVE  TabInv'
<1> USE DEF TabInv
<1>1. UNCHANGED <<owners, live, cookie, session, isLoading>>
  BY DEF AskQuery, QueryServed, QueryAnswered
<1>2. CASE AskQuery
  <2>1. query' = [at |-> "sent", as |-> cookie] /\ session # 0 /\ cache' = cache
    BY <1>2 DEF AskQuery, Sent
  <2>2. TabTypeOK'
    BY <1>1, <2>1 DEF TabTypeOK, TabRequests
  <2>3. QueryIsOwn'
    BY <1>1, <2>1 DEF CookieIsOwn, QueryIsOwn, Own
  <2> QED
    BY <1>1, <2>1, <2>2, <2>3
       DEF EmptyWithout, LoadingIsWithout, CookieIsOwn, CacheKept, Own, Of
<1>3. CASE QueryServed
  <2>1. /\ query.at = "sent" /\ cache' = cache
        /\ query' = [query EXCEPT !.at = IF query.as \in live THEN "ok" ELSE "401"]
    BY <1>3 DEF QueryServed, Served
  <2>2. query' \in TabRequests /\ query'.as = query.as
        /\ (query'.at = "ok" => query.as \in live)
    BY <2>1 DEF TabTypeOK, TabRequests
  <2>3. query.as \in live => query.as # 0
    BY DEF TabTypeOK
  <2>4. session # 0
    BY <2>1 DEF EmptyWithout
  <2> QED
    BY <1>1, <2>1, <2>2, <2>3, <2>4
       DEF TabTypeOK, EmptyWithout, LoadingIsWithout, CookieIsOwn, QueryIsOwn, CacheKept,
           Own, Of
<1>4. CASE QueryAnswered /\ query.at = "ok"
  <2>1. query' = None /\ cache' = cache \cup {Of(query.as)}
    BY <1>4 DEF QueryAnswered
  <2>2. session # 0 /\ Own(query.as) /\ query.as # 0
    BY <1>4 DEF EmptyWithout, QueryIsOwn
  <2>3. Of(query.as) \in {Of(session), "another tab"}
    BY <2>2 DEF Own, Of
  <2>4. cache' \subseteq {Of(session), "another tab"}
    BY <2>1, <2>3 DEF CacheKept
  <2>5. query'.at = "no" /\ query' \in TabRequests /\ query'.as <= Len(owners)
    BY <2>1 DEF None, TabRequests, TabTypeOK
  <2> QED
    BY <1>1, <2>2, <2>4, <2>5
       DEF TabTypeOK, EmptyWithout, LoadingIsWithout, CookieIsOwn, QueryIsOwn, CacheKept,
           Own, Of
<1> QED
  BY <1>2, <1>3, <1>4

(***************************************************************************)
(* Another tab signs in: the cookie is no longer this tab's.               *)
(***************************************************************************)
LEMMA OtherTabKeeps ==
  ASSUME TabInv, NEW p \in People, OtherTabSignsIn(p) PROVE TabInv'
<1> USE DEF TabInv
<1>1. NewSession(p, FALSE) /\ UNCHANGED <<session, isLoading, cache, query>>
  BY DEF OtherTabSignsIn
<1>2. /\ owners' \in Seq(Owners) /\ Len(owners') = Len(owners) + 1
      /\ cookie' = Len(owners') /\ ~owners'[cookie'].here
      /\ \A s \in 1 .. Len(owners) : owners'[s] = owners[s]
      /\ live' \in SUBSET (1 .. Len(owners'))
  BY <1>1, NewSessionAdds
<1>3. TabTypeOK'
  BY <1>1, <1>2 DEF TabTypeOK, TabRequests
<1>4. query.as \in 0 .. Len(owners) /\ session \in 0 .. Len(owners)
  BY DEF TabTypeOK, TabRequests
<1>5. QueryIsOwn'
  BY <1>1, <1>2, <1>4 DEF QueryIsOwn, Own
<1>6. CacheKept'
  <2>1. CASE session = 0
    BY <1>1, <2>1 DEF EmptyWithout, CacheKept
  <2>2. CASE session # 0
    <3>1. owners'[session] = owners[session] /\ session' = session
      BY <1>1, <1>2, <1>4, <2>2
    <3> QED
      BY <1>1, <3>1 DEF CacheKept, Of
  <2> QED
    BY <2>1, <2>2
<1> QED
  BY <1>1, <1>2, <1>3, <1>5, <1>6
     DEF EmptyWithout, LoadingIsWithout, CookieIsOwn, Own

(***************************************************************************)
(* Everything else leaves what the tab holds alone.                        *)
(***************************************************************************)
LEMMA RestKeeps ==
  ASSUME TabInv, UNCHANGED <<owners, cookie, session, isLoading, cache, query>>,
         live' \subseteq live
  PROVE  TabInv'
  BY DEF TabInv, TabTypeOK, EmptyWithout, LoadingIsWithout, CookieIsOwn, QueryIsOwn,
         CacheKept, Own, Of

(***************************************************************************)
(* TabInv holds throughout.                                                *)
(***************************************************************************)
THEOREM TabInvariant == TabSpec => []TabInv
<1>1. TabInv /\ [TabStep]_tabVars => TabInv'
  <2> SUFFICES ASSUME TabInv, [TabStep]_tabVars PROVE TabInv'
    OBVIOUS
  <2>1. CASE probe \/ Reload \/ \E p \in People : login(p)
    BY <2>1, EnterKeeps
  <2>2. CASE \E p \in People : OtherTabSignsIn(p)
    BY <2>2, OtherTabKeeps
  <2>3. CASE AskQuery \/ QueryServed
    BY <2>3, QueryKeeps
  <2>4. CASE QueryAnswered
    <3>1. query.at = "ok" \/ query.at = "401"
      BY <2>4 DEF QueryAnswered
    <3> QED
      BY <2>4, <3>1, QueryKeeps, LeaveKeeps
  <2>5. CASE MutationAnswered
    <3>1. CASE mutation.at = "401"
      BY <2>5, <3>1, LeaveKeeps
    <3>2. CASE mutation.at # "401"
      BY <2>5, <3>2, RestKeeps DEF MutationAnswered
    <3> QED
      BY <3>1, <3>2
  <2>6. CASE LogoutSettled \/ LogoutFails
    BY <2>6, LeaveKeeps
  <2>7. CASE \/ AskMutation \/ MutationServed \/ logout \/ LogoutServed
             \/ \E s \in live : SessionEnds(s)
    BY <2>7, RestKeeps DEF AskMutation, MutationServed, logout, LogoutServed, SessionEnds
  <2>8. CASE UNCHANGED tabVars
    BY <2>8, RestKeeps DEF tabVars
  <2> QED
    BY <2>1, <2>2, <2>3, <2>4, <2>5, <2>6, <2>7, <2>8 DEF TabStep
<1> QED
  BY <1>1, TabInitHolds, PTL DEF TabSpec

(***************************************************************************)
(* Whoever the tab shows as signed in is served from its cache only what   *)
(* was fetched by them, or by a sign-in of another tab (AuthProvider in    *)
(* web/src/lib/auth.tsx).                                                  *)
(***************************************************************************)
THEOREM CacheStaysOwn == TabSpec => []CacheIsOwn
<1>1. TabInv => CacheIsOwn
  BY DEF TabInv, EmptyWithout, CacheKept, CacheIsOwn
<1> QED
  BY <1>1, TabInvariant, PTL

-----------------------------------------------------------------------------
(***************************************************************************)
(* The verdict on a netgroup.  A page agrees with the moment it was read   *)
(* at: it holds the wanted name only if that existed, and a page that is   *)
(* the whole collection holds it if it did.                                *)
(***************************************************************************)
Whole(p) == ~p.truncated /\ Cardinality(p.data) >= p.total

PageAgrees(p) ==
  /\ Wanted \in p.data => sawWanted
  /\ Whole(p) /\ sawWanted => Wanted \in p.data

RefInv ==
  /\ directory \in SUBSET Names
  /\ page # NoPage => \E p : page = {p} /\ PageAgrees(p)

(***************************************************************************)
(* A part of what was found that is as large as all of it is all of it.    *)
(***************************************************************************)
LEMMA WholeIsAll ==
  ASSUME NEW found \in SUBSET Names, NEW data \in SUBSET found,
         Cardinality(data) >= Cardinality(found)
  PROVE  data = found
<1>1. IsFiniteSet(found)
  BY NamesAssumption, FS_Subset
<1>2. /\ Cardinality(data) <= Cardinality(found)
      /\ Cardinality(data) = Cardinality(found) => data = found
  BY <1>1, FS_Subset
<1>3. Cardinality(found) \in Nat /\ Cardinality(data) \in Nat
  BY <1>1, FS_Subset, FS_CardinalityType
<1> QED
  BY <1>2, <1>3

LEMMA SearchKeeps == ASSUME RefInv, Search PROVE RefInv'
<1>1. directory' = directory /\ directory \in SUBSET Names /\ sawWanted' = (Wanted \in directory)
  BY DEF RefInv, Search
<1>2. PICK found \in SUBSET directory, data \in SUBSET directory :
        /\ data \subseteq found
        /\ page' = {[data |-> data, total |-> Cardinality(found),
                     truncated |-> found # directory]}
  <2>1. PICK found \in kSubset(Min({SizeLimit, Cardinality(directory)}), directory) :
          \E data \in kSubset(Min({LookupLimit, Cardinality(found)}), found) :
            page' = {[data |-> data, total |-> Cardinality(found),
                      truncated |-> found # directory]}
    BY DEF Search
  <2> QED
    BY <2>1 DEF kSubset
<1> DEFINE p == [data |-> data, total |-> Cardinality(found), truncated |-> found # directory]
<1>3. Whole(p) => data = directory
  BY <1>1, WholeIsAll DEF Whole
<1>4. PageAgrees(p)'
  BY <1>1, <1>2, <1>3 DEF PageAgrees
<1> QED
  BY <1>1, <1>2, <1>4 DEF RefInv

(***************************************************************************)
(* RefInv holds throughout.                                                *)
(***************************************************************************)
THEOREM RefInvariant == RefSpec => []RefInv
<1>1. RefInit => RefInv
  BY DEF RefInit, RefInv
<1>2. RefInv /\ [RefStep]_refVars => RefInv'
  <2> SUFFICES ASSUME RefInv, [RefStep]_refVars PROVE RefInv'
    OBVIOUS
  <2>1. CASE Search
    BY <2>1, SearchKeeps
  <2>2. CASE LosePage
    BY <2>2 DEF LosePage, RefInv
  <2>3. CASE \E name \in Names : CreateOrDelete(name)
    BY <2>3 DEF CreateOrDelete, RefInv, PageAgrees
  <2>4. CASE UNCHANGED refVars
    BY <2>4 DEF refVars, RefInv, PageAgrees
  <2> QED
    BY <2>1, <2>2, <2>3, <2>4 DEF RefStep
<1> QED
  BY <1>1, <1>2, PTL DEF RefSpec

(***************************************************************************)
(* A rule is said to name a netgroup that does not exist only if, when the *)
(* answer was read, there was none of that name; and one that exists only  *)
(* if there was; for any widths of a page and limits of the directory      *)
(* (resolveNetgroupByName in web/src/lib/netgroup.ts).                     *)
(***************************************************************************)
THEOREM AbsenceIsEarned == RefSpec => []AbsentIsEarned
<1>1. RefInv => AbsentIsEarned
  <2> SUFFICES ASSUME RefInv, page # NoPage PROVE AbsentIsEarned
    BY DEF AbsentIsEarned, resolveNetgroupByName
  <2>1. PICK p : page = {p} /\ PageAgrees(p)
    BY DEF RefInv
  <2>2. /\ resolveNetgroupByName(page) = "found" => Wanted \in p.data
        /\ resolveNetgroupByName(page) = "absent" => Wanted \notin p.data /\ Whole(p)
    <3>1. (CHOOSE one \in page : TRUE) = p
      BY <2>1
    <3> QED
      BY <3>1 DEF resolveNetgroupByName, Whole
  <2> QED
    BY <2>1, <2>2 DEF AbsentIsEarned, PageAgrees
<1> QED
  BY <1>1, RefInvariant, PTL

-----------------------------------------------------------------------------
(***************************************************************************)
(* One operation and one query.  What is proved is about every operation   *)
(* the pages offer and every query they show, whoever looks and whatever   *)
(* the entry and the deployment have.                                      *)
(*                                                                         *)
(* First, what a viewer is offered: an administrator lacks no permission   *)
(* any route demands, and who may only read is offered one call, which     *)
(* demands none; what is refused on one's own account is not offered there,*)
(* but by the bar over a selection.                                        *)
(***************************************************************************)
Viewer(v) == v.role \in {"admin", "readonly"} /\ v.self \in BOOLEAN

Spared(v, op) == ~(v.self /\ op.repeats # "all" /\ op.call \in RefusedOnSelf)

\* Accepted, but for a bulk action on one's own row.
Welcome(op, verdict) == verdict = "accepted" \/ (verdict = "own" /\ op.repeats = "all")

LEMMA Demanded == ASSUME NEW c PROVE Demand(c) \subseteq Administrator
  BY DEF Demand, Administrator

LEMMA AdministratorMay ==
  ASSUME NEW v, v.role = "admin"
  PROVE  \A p \in Administrator : May(v, p)
  BY DEF May, Permissions

LEMMA ReaderMayNot ==
  ASSUME NEW v, Viewer(v), v.role # "admin"
  PROVE  /\ ~May(v, "users:write") /\ ~May(v, "users:delete")
         /\ ~May(v, "groups:write") /\ ~May(v, "groups:delete")
         /\ ~May(v, "settings:read") /\ ~May(v, "settings:write")
         /\ ~May(v, "audit:read")
  BY DEF Viewer, May, Permissions, ReadOnly

LEMMA OpIs ==
  ASSUME NEW c, NEW k, NEW g
  PROVE  LET o == Op(c, k, g)
         IN  /\ o.call = c /\ o.refreshes = k /\ o.goes = g /\ o.repeats = "once"
             /\ Telling(o).call = c /\ Telling(o).refreshes = k
             /\ Telling(o).goes = g /\ Telling(o).repeats = "once"
             /\ InChain(o).call = c /\ InChain(o).refreshes = k
             /\ InChain(o).goes = g /\ InChain(o).repeats = "chain"
             /\ ForAll(o).call = c /\ ForAll(o).refreshes = k
             /\ ForAll(o).goes = g /\ ForAll(o).repeats = "all"
             /\ ForAll(Telling(o)).call = c /\ ForAll(Telling(o)).refreshes = k
             /\ ForAll(Telling(o)).goes = g /\ ForAll(Telling(o)).repeats = "all"
  BY DEF Op, Telling, InChain, ForAll

LEMMA ReaderOffers ==
  ASSUME NEW v, Viewer(v), v.role # "admin"
  PROVE  Offers(v) \subseteq {changeOwnPassword}
<1>1. UserOffers(v) = {}
  BY ReaderMayNot DEF UserOffers, PersonalInformation, GroupMemberships, PosixTab,
     SSHKeysCard, SambaNotEnabled, SambaCard, ShadowNotEnabled, ShadowCard, SudoCard,
     PasswordCard, ResetEmailCard, StatusCard, ExpirationCard, PolicyCard,
     UsernameCard, DangerZone
<1>2. GroupOffers(v) = {}
  BY ReaderMayNot DEF GroupOffers, InformationTab, GroupRenameCard, AddMemberDialog,
     MemberRows, GroupSambaNotEnabled, GroupSambaCard, AddRoleDialog, RoleRows,
     GroupDangerZone
<1>3. RuleOffers(v) = {}
  BY ReaderMayNot DEF RuleOffers, SudoRoleActions,
     NetgroupActions, NetgroupDangerZone,
     PolicyActions, PolicyEnters
<1>4. CreateOffers(v) = {}
  BY ReaderMayNot DEF CreateOffers, NewUserEnters, NewGroupEnters, NewUser,
     ImportUsers, NewGroup, ImportGroups, NewNetgroup,
     ImportNetgroups, NewSudoRole, NewPolicy
<1>5. BulkOffers(v) = {} /\ RowOffers(v) = {}
  BY ReaderMayNot DEF BulkOffers, RowOffers, UsersBulkBar, GroupRows, NetgroupRows, SudoRoleRows, PolicyRows, PolicyEnters
<1>6. AdminOffers(v) = {changeOwnPassword}
  BY DEF Viewer, AdminOffers, AdminEnters, TasksCard, DirectoryExportCard,
     DirectoryEnforcementCard, PasswordDialog
<1> QED
  BY <1>1, <1>2, <1>3, <1>4, <1>5, <1>6 DEF Offers

(***************************************************************************)
(* What the server refuses on one's own account is not offered there, but  *)
(* for the bulk actions.                                                   *)
(***************************************************************************)
LEMMA OffersSpared == ASSUME NEW v, Viewer(v), NEW op \in Offers(v) PROVE Spared(v, op)
<1> USE OpIs DEF Viewer, Spared, RefusedOnSelf
<1>1. CASE op \in UserOffers(v)
  <2>1. ASSUME op \in ShadowCard(v) PROVE Spared(v, op)
    BY <2>1 DEF ShadowCard, saveShadow, saveShadowExpire
  <2>2. ASSUME op \in StatusCard(v) PROVE Spared(v, op)
    BY <2>2 DEF StatusCard, lock, unlock
  <2>3. ASSUME op \in ExpirationCard(v) PROVE Spared(v, op)
    BY <2>3 DEF ExpirationCard, setExpiration, clearExpiration
  <2>4. ASSUME op \in PasswordCard(v) PROVE Spared(v, op)
    BY <2>4 DEF PasswordCard, changePassword, removePassword
  <2>5. ASSUME op \in UsernameCard(v) \cup DangerZone(v) PROVE Spared(v, op)
    BY <2>5 DEF UsernameCard, DangerZone, changeUid, deleteUser
  <2>6. ASSUME op \in PersonalInformation(v) \cup GroupMemberships(v) \cup PosixTab(v)
                      \cup SSHKeysCard(v)
        PROVE  Spared(v, op)
    BY <2>6 DEF PersonalInformation, GroupMemberships, PosixTab, PosixIdsChange,
       SSHKeysCard, saveIdentity, addToGroup, removeFromGroup, savePosix,
       changePosixIds, addKey, removeKey
  <2>7. ASSUME op \in SambaNotEnabled(v) \cup SambaCard(v) \cup ShadowNotEnabled(v)
                      \cup SudoCard(v) \cup ResetEmailCard(v) \cup PolicyCard(v)
        PROVE  Spared(v, op)
    BY <2>7 DEF SambaNotEnabled, SambaCard, ShadowNotEnabled, SudoCard,
       ResetEmailCard, PolicyCard, saveSamba, saveShadow, addToRole, removeFromRole,
       sendPasswordReset, updatePolicy
  <2> QED
    BY <1>1, <2>1, <2>2, <2>3, <2>4, <2>5, <2>6, <2>7 DEF UserOffers
<1>2. CASE op \in GroupOffers(v)
  BY <1>2 DEF GroupOffers, InformationTab, GroupRenameCard, AddMemberDialog, MemberRows,
     GroupSambaNotEnabled, GroupSambaCard, AddRoleDialog, RoleRows, GroupDangerZone,
     saveDescription, addMember, removeMember, deleteGroup, renameGroup,
     saveGroupSamba, addGroupToRole, removeGroupFromRole
<1>3. CASE op \in RuleOffers(v)
  BY <1>3 DEF RuleOffers, SudoRoleActions,
     NetgroupActions, NetgroupDangerZone,
     PolicyActions, saveSudoRole, deleteSudoRole,
     saveNetgroup, deleteNetgroup, savePolicy, deletePolicy
<1>4. CASE op \in CreateOffers(v)
  BY <1>4 DEF CreateOffers, NewUser, ImportUsers,
     NewGroup, ImportGroups, NewNetgroup, ImportNetgroups, NewSudoRole,
     NewPolicy, createUser, importUsers, createGroup, importGroups, createNetgroup,
     importNetgroups, createSudoRole, createPolicy
<1>5. CASE op \in BulkOffers(v) \cup RowOffers(v)
  BY <1>5 DEF BulkOffers, RowOffers, UsersBulkBar, GroupRows, NetgroupRows, SudoRoleRows, PolicyRows, BulkDelete, bulkLock,
     bulkUnlock, bulkAddToGroup, bulkRemoveFromGroup, bulkSetExpiration,
     bulkDeleteUsers, rowDeleteSudoRole, rowDeletePolicy
<1>6. CASE op \in AdminOffers(v)
  BY <1>6 DEF AdminOffers, TasksCard, DirectoryExportCard, DirectoryEnforcementCard,
     PasswordDialog, triggerTask, exportDirectory, policySelfTest, changeOwnPassword
<1> QED
  BY <1>1, <1>2, <1>3, <1>4, <1>5, <1>6 DEF Offers

(***************************************************************************)
(* So the server accepts whatever is offered, but for those.               *)
(***************************************************************************)
LEMMA OffersWelcome ==
  ASSUME NEW v, Viewer(v), NEW op \in Offers(v) PROVE Welcome(op, Verdict(v, op))
<1>1. Demand(op.call) \subseteq Permissions(v.role)
  <2>1. CASE v.role = "admin"
    BY <2>1, Demanded DEF Permissions
  <2>2. CASE v.role # "admin"
    <3>1. op.call = "auth.changePassword"
      BY <2>2, ReaderOffers, OpIs DEF changeOwnPassword
    <3> QED
      BY <3>1 DEF Demand, usersReads, sudoRolesReads, usersWrites, sudoRolesWrites,
         groupsReads, netgroupsReads, groupsWrites, netgroupsWrites, sudoGroupGrants,
         policiesReads, adminReads, policiesWrites, adminWrites, auditReads
  <2> QED
    BY <2>1, <2>2
<1> QED
  BY <1>1, OffersSpared DEF Welcome, Verdict, Accepts, Spared

(***************************************************************************)
(* Links.  A page's path is short, and short paths differ by their length. *)
(***************************************************************************)
LEMMA PathsApart ==
  ASSUME NEW a, NEW b, NEW c
  PROVE  <<a>>[1] = a /\ <<b, c>>[1] = b /\ <<a>> # <<b, c>>
<1>1. Len(<<a>>) = 1 /\ Len(<<b, c>>) = 2
  OBVIOUS
<1> QED
  BY <1>1

LEMMA LinksAllowed ==
  ASSUME NEW v, Viewer(v), NEW path \in PaletteLinks(v)
  PROVE  beforeLoad(v, path)
<1>0. requireModule(v, path)
  <2> DEFINE From(name) ==
               /\ Module(v, name)
               /\ path = <<name>> \/ path = <<name, "new">> \/ path = <<name, "import">>
  <2>1. ASSUME NEW name, From(name) PROVE requireModule(v, path)
    <3>1. path[1] = name
      BY <2>1, PathsApart
    <3> QED
      BY <2>1, <3>1 DEF requireModule
  <2>2. CASE path = <<"dashboard">> \/ path = <<"admin">> \/ path = <<"audit">>
    <3>1. path[1] \in {"dashboard", "admin", "audit"}
      BY <2>2, PathsApart
    <3> QED
      BY <3>1 DEF requireModule
  <2>3. \/ path = <<"dashboard">> \/ path = <<"admin">> \/ path = <<"audit">>
        \/ From("users") \/ From("groups") \/ From("sudo") \/ From("netgroups")
        \/ From("policies")
    BY DEF PaletteLinks, Sections, Section
  <2> HIDE DEF From
  <2> QED
    BY <2>1, <2>2, <2>3
<1>1. CASE v.role = "admin"
  <2>1. /\ AdminEnters(v) /\ AuditEnters(v) /\ PolicyEnters(v) /\ NewUserEnters(v)
        /\ NewGroupEnters(v) /\ May(v, "settings:write")
    BY <1>1, AdministratorMay DEF Administrator, AdminEnters, AuditEnters, PolicyEnters,
       NewUserEnters, NewGroupEnters
  <2> QED
    BY <1>0, <2>1 DEF beforeLoad
<1>2. CASE v.role # "admin"
  <2>1. path \in {<<"dashboard">>, <<"users">>, <<"groups">>, <<"sudo">>, <<"netgroups">>}
    BY <1>2, ReaderMayNot DEF PaletteLinks, Sections, Section
  <2>3. /\ path # <<"admin">> /\ path # <<"audit">> /\ path # <<"policies">>
        /\ path # <<"policies", "new">>
        /\ path \notin {<<"users", "new">>, <<"users", "import">>, <<"sudo", "new">>}
        /\ path \notin {<<"groups", "new">>, <<"groups", "import">>,
                       <<"netgroups", "new">>, <<"netgroups", "import">>}
    BY <2>1, PathsApart
  <2> QED
    BY <1>0, <2>3 DEF beforeLoad
<1> QED
  BY <1>1, <1>2

-----------------------------------------------------------------------------
(***************************************************************************)
(* What the pages read, by the first word of the key.                      *)
(***************************************************************************)
Keyed(key, head) ==
  /\ key[1] = head
  /\ IsPrefix(key, key) /\ IsPrefix(<<head>>, key) /\ IsPrefix(<<>>, key)

(***************************************************************************)
(* A sequence that agrees with the beginning of another is its prefix.     *)
(***************************************************************************)
LEMMA Begins ==
  ASSUME NEW S, NEW s \in Seq(S), NEW t \in Seq(S), Len(s) <= Len(t),
         \A i \in 1..Len(s) : s[i] = t[i]
  PROVE  IsPrefix(s, t)
<1>1. Len(s) \in Nat /\ Len(t) \in Nat
  OBVIOUS
<1>2. (\A i \in 1 .. Len(s) : s[i] \in S) /\ (\A i \in 1 .. Len(s) : t[i] \in S)
  BY <1>1, ElementOfSeq
<1>3. /\ SubSeq(s, 1, Len(s)) \in Seq(S) /\ SubSeq(t, 1, Len(s)) \in Seq(S)
      /\ Len(SubSeq(s, 1, Len(s))) = Len(s) /\ Len(SubSeq(t, 1, Len(s))) = Len(s)
      /\ \A i \in 1 .. Len(s) : SubSeq(s, 1, Len(s))[i] = s[i] /\ SubSeq(t, 1, Len(s))[i] = t[i]
  BY <1>1, <1>2, SubSeqProperties
<1>4. SubSeq(s, 1, Len(s)) = SubSeq(t, 1, Len(s))
  BY <1>3, SeqEqual
<1> QED
  BY <1>4 DEF IsPrefix

LEMMA KeyedIs ==
  ASSUME NEW S, NEW key \in Seq(S), Len(key) >= 1
  PROVE  Keyed(key, key[1])
<1>1. key[1] \in S
  BY ElementOfSeq
<1>2. /\ <<key[1]>> \in Seq(S) /\ <<>> \in Seq(S)
      /\ Len(<<key[1]>>) = 1 /\ Len(<<>>) = 0 /\ <<key[1]>>[1] = key[1]
  BY <1>1
<1>3. IsPrefix(key, key)
  BY Begins
<1>4. IsPrefix(<<key[1]>>, key)
  <2> DEFINE s == <<key[1]>>
  <2>1. s \in Seq(S) /\ Len(s) <= Len(key) /\ \A i \in 1 .. Len(s) : s[i] = key[i]
    BY <1>2
  <2> HIDE DEF s
  <2>2. IsPrefix(s, key)
    BY <2>1, Begins
  <2> QED
    BY <2>2 DEF s
<1>5. IsPrefix(<<>>, key)
  <2> DEFINE s == <<>>
  <2>1. s \in Seq(S) /\ Len(s) <= Len(key) /\ \A i \in 1 .. Len(s) : s[i] = key[i]
    BY <1>2
  <2> HIDE DEF s
  <2>2. IsPrefix(s, key)
    BY <2>1, Begins
  <2> QED
    BY <2>2 DEF s
<1> QED
  BY <1>3, <1>4, <1>5 DEF Keyed

LEMMA OneWord == ASSUME NEW a PROVE Keyed(<<a>>, a)
<1> DEFINE key == <<a>>
           S == {a}
<1>1. key \in Seq(S) /\ Len(key) >= 1 /\ key[1] = a
  OBVIOUS
<1> HIDE DEF key, S
<1>2. Keyed(key, a)
  BY <1>1, KeyedIs
<1> QED
  BY <1>2 DEF key

LEMMA TwoWords == ASSUME NEW a, NEW b PROVE Keyed(<<a, b>>, a)
<1> DEFINE key == <<a, b>>
           S == {a, b}
<1>1. key \in Seq(S) /\ Len(key) >= 1 /\ key[1] = a
  OBVIOUS
<1> HIDE DEF key, S
<1>2. Keyed(key, a)
  BY <1>1, KeyedIs
<1> QED
  BY <1>2 DEF key

LEMMA ThreeWords == ASSUME NEW a, NEW b, NEW c PROVE Keyed(<<a, b, c>>, a)
<1> DEFINE key == <<a, b, c>>
           S == {a, b, c}
<1>1. key \in Seq(S) /\ Len(key) >= 1 /\ key[1] = a
  OBVIOUS
<1> HIDE DEF key, S
<1>2. Keyed(key, a)
  BY <1>1, KeyedIs
<1> QED
  BY <1>2 DEF key

UserQueries ==
  {Read(User, "users.get"), Read(<<"user", "groups">>, "users.getGroups"),
   Read(<<"user", "sudo-roles">>, "users.getSudoRoles"),
   Read(<<"user", "netgroups">>, "users.getNetgroups")}

GroupQueries ==
  {Read(Group, "groups.get"), Read(<<"group", "members">>, "groups.members"),
   Read(<<"group", "sudo-roles">>, "groups.getSudoRoles")}

Queried(r) ==
  /\ Keyed(r.key, r.key[1])
  /\ r.key[1] = "user" => r \in UserQueries
  /\ r.key[1] = "users" => r.call = "users.list"
  /\ r.key[1] = "group" => r \in GroupQueries
  /\ r.key[1] = "groups" => r.call = "groups.list"

LEMMA ReadIs == ASSUME NEW k, NEW c PROVE Read(k, c).key = k /\ Read(k, c).call = c
  BY DEF Read

LEMMA KeysAre ==
  /\ Keyed(User, "user")
  /\ Keyed(Group, "group")
  /\ Keyed(SudoRole, "sudo-role")
  /\ Keyed(Netgroup, "netgroup")
  /\ Keyed(Policy, "password-policy")
  /\ Keyed(<<"user", "groups">>, "user")
  /\ Keyed(<<"groups", "picker">>, "groups")
  /\ Keyed(<<"users", "picker">>, "users")
  /\ Keyed(<<"user", "sudo-roles">>, "user")
  /\ Keyed(<<"sudo-roles", "picker">>, "sudo-roles")
  /\ Keyed(<<"user", "netgroups">>, "user")
  /\ Keyed(<<"password-policies", "options">>, "password-policies")
  /\ Keyed(<<"group", "members">>, "group")
  /\ Keyed(<<"group", "sudo-roles">>, "group")
  /\ Keyed(<<"netgroup", "expand">>, "netgroup")
  /\ Keyed(<<"netgroup", "sudo-roles">>, "netgroup")
  /\ Keyed(<<"nextIds">>, "nextIds")
  /\ Keyed(<<"groups", "options">>, "groups")
  /\ Keyed(<<"groups", "picker", "new-user">>, "groups")
  /\ Keyed(<<"users", "page">>, "users")
  /\ Keyed(<<"groups", "page">>, "groups")
  /\ Keyed(<<"sudo-roles", "page">>, "sudo-roles")
  /\ Keyed(<<"netgroups", "page">>, "netgroups")
  /\ Keyed(<<"password-policies", "page">>, "password-policies")
  /\ Keyed(<<"overview">>, "overview")
  /\ Keyed(<<"audit-logs", "recent">>, "audit-logs")
  /\ Keyed(<<"admin", "scheduled-tasks", "health">>, "admin")
  /\ Keyed(<<"admin", "config">>, "admin")
  /\ Keyed(<<"admin", "scheduled-tasks", "config">>, "admin")
  /\ Keyed(<<"admin", "scheduled-tasks", "runs">>, "admin")
  /\ Keyed(<<"audit-logs", "page">>, "audit-logs")
  /\ Keyed(<<"audit-logs", "actors">>, "audit-logs")
  /\ Keyed(<<"directory-changes">>, "directory-changes")
  /\ Keyed(<<"users", "palette">>, "users")
  /\ Keyed(<<"groups", "palette">>, "groups")
  /\ Keyed(<<"netgroups", "palette">>, "netgroups")
  /\ Keyed(<<"sudo-roles", "palette">>, "sudo-roles")
  /\ Keyed(<<"password-policies", "palette">>, "password-policies")
  BY OneWord, TwoWords, ThreeWords DEF User, Group, SudoRole, Netgroup, Policy

LEMMA HeadIs == ASSUME NEW k, NEW h, Keyed(k, h) PROVE k[1] = h /\ Keyed(k, k[1])
  BY DEF Keyed

(***************************************************************************)
(* Every query of every page has one of these keys.                        *)
(***************************************************************************)
LEMMA ReadsAre == ASSUME NEW v, NEW r \in Reads(v) PROVE Queried(r)
<1> USE ReadIs, KeysAre, HeadIs DEF Queried
<1>1. CASE r \in UserReads(v)
  <2>1. CASE r \in pageReads(v) \cup sudoTabReads(v)
    BY <2>1 DEF pageReads, sudoTabReads, UserQueries
  <2>2. CASE r \in pickerReads(v) \cup policyReads(v)
    BY <2>2 DEF pickerReads, policyReads
  <2> QED
    BY <1>1, <2>1, <2>2 DEF UserReads
<1>2. CASE r \in GroupReads(v)
  BY <1>2 DEF GroupReads, groupReads, memberPicker, groupSudoReads, GroupQueries
<1>3. CASE r \in RuleReads(v)
  BY <1>3 DEF RuleReads, sudoRoleReads, netgroupReads, policyPageReads
<1>4. CASE r \in CreateReads(v)
  BY <1>4 DEF CreateReads, newUserReads, newGroupReads
<1>5. CASE r \in ListReads(v)
  BY <1>5 DEF ListReads, usersListReads, groupsListReads, sudoRolesListReads,
     netgroupsListReads, policiesListReads
<1>6. CASE r \in paletteReads(v)
  <2>1. r \in {Read(<<"users", "palette">>, "users.list"),
               Read(<<"groups", "palette">>, "groups.list"),
               Read(<<"netgroups", "palette">>, "netgroups.list"),
               Read(<<"sudo-roles", "palette">>, "sudoRoles.list"),
               Read(<<"password-policies", "palette">>, "passwordPolicies.list")}
    BY <1>6, Zenon DEF paletteReads
  <2> QED
    BY <2>1
<1>7. CASE r \in AdminReads(v) \ paletteReads(v)
  BY <1>7 DEF AdminReads, overviewReads, recentAuditReads, taskHealthReads,
     adminPageReads, auditReadsOf, directoryChangesReads
<1> QED
  BY <1>1, <1>2, <1>3, <1>4, <1>5, <1>6, <1>7 DEF Reads

(***************************************************************************)
(* A key is caught by itself, by its first word and by everything.         *)
(***************************************************************************)
LEMMA Caught ==
  ASSUME NEW prefixes, NEW key, Keyed(key, key[1]),
         \/ key \in prefixes \/ <<key[1]>> \in prefixes \/ Everything \in prefixes
  PROVE  Reaches(prefixes, key)
  BY DEF Keyed, Reaches, Everything

-----------------------------------------------------------------------------
(***************************************************************************)
(* What an operation writes and a query shows, the operation catches.      *)
(***************************************************************************)
Met(op, r, keys) ==
  /\ Queried(r) /\ r.key[1] \in keys
  /\ Changes(op.call) \cap Shows(r.call) # {}
  /\ ~Lags(op, r.key) /\ ~Leaves(op, r.key)

Catches(op, r) ==
  \/ r.key \in op.refreshes \/ <<r.key[1]>> \in op.refreshes \/ Everything \in op.refreshes

(***************************************************************************)
(* What the queries of accounts and groups show.                           *)
(***************************************************************************)
LEMMA ShowsAre ==
  /\ Shows("users.list") = {"account", "membership"}
  /\ Shows("groups.list") = {"group", "membership"}
  /\ Shows("users.get") = {"account", "entry"}
  /\ Shows("users.getGroups") = {"group", "membership"}
  /\ Shows("users.getSudoRoles") = {"rule", "membership", "netgroup"}
  /\ Shows("users.getNetgroups") = {"netgroup"}
  /\ Shows("groups.get") = {"group", "membership"}
  /\ Shows("groups.members") = {"membership", "account"}
  /\ Shows("groups.getSudoRoles") = {"rule"}
<1> DEFINE rules == sudoRolesReads \cup {"groups.getSudoRoles", "netgroups.getSudoRoles"}
<1>1. /\ "users.list" \notin rules /\ "users.list" \notin policiesReads
      /\ "groups.list" \notin rules /\ "groups.list" \notin policiesReads
      /\ "users.get" \notin rules /\ "users.get" \notin policiesReads
      /\ "users.getGroups" \notin rules /\ "users.getGroups" \notin policiesReads
      /\ "users.getSudoRoles" \notin rules /\ "users.getSudoRoles" \notin policiesReads
      /\ "users.getNetgroups" \notin rules /\ "users.getNetgroups" \notin policiesReads
      /\ "groups.get" \notin rules /\ "groups.get" \notin policiesReads
      /\ "groups.members" \notin rules /\ "groups.members" \notin policiesReads
      /\ "groups.getSudoRoles" \in rules /\ "groups.getSudoRoles" \notin policiesReads
  BY DEF sudoRolesReads, policiesReads
<1>3. Shows("users.list") = UserListItemSchema
  BY <1>1, Zenon DEF Shows
<1>4. Shows("groups.list") = GroupListItemSchema
  BY <1>1, Zenon DEF Shows
<1>5. Shows("users.get") = UserSchema
  BY <1>1, Zenon DEF Shows
<1>6. Shows("users.getGroups") = GroupSchema
  BY <1>1, Zenon DEF Shows
<1>7. Shows("groups.get") = GroupSchema
  BY <1>1, Zenon DEF Shows
<1>8. Shows("users.getSudoRoles") = SudoRoleGrantSchema
  BY <1>1, Zenon DEF Shows
<1>9. Shows("users.getNetgroups") = UserNetgroupsResponseSchema
  BY <1>1, Zenon DEF Shows
<1>10. Shows("groups.members") = GroupMemberSchema
  BY <1>1, Zenon DEF Shows
<1>11. Shows("groups.getSudoRoles") = SudoRoleSchema
  BY <1>1, Zenon DEF Shows
<1> QED
  BY <1>3, <1>4, <1>5, <1>6, <1>7, <1>8, <1>9, <1>10, <1>11
     DEF GroupListItemSchema, GroupMemberSchema, GroupSchema, SudoRoleGrantSchema,
         SudoRoleSchema, UserListItemSchema, UserNetgroupsResponseSchema, UserSchema

(***************************************************************************)
(* What the calls that refresh only part of their page write.              *)
(***************************************************************************)
LEMMA MembershipCalls ==
  ASSUME NEW c, c \in {"groups.addMember", "groups.removeMember"}
  PROVE  Changes(c) = {"membership"}
<1>1. /\ c \notin usersWrites \cup {"users.delete"}
      /\ c \in groupsWrites \cup {"groups.delete"}
      /\ c \notin sudoRolesWrites \cup sudoGroupGrants \cup {"sudoRoles.delete"}
      /\ c \notin netgroupsWrites \cup {"netgroups.delete"} /\ c \notin policiesWrites
  BY DEF usersWrites, groupsWrites, sudoRolesWrites, sudoGroupGrants, netgroupsWrites,
     policiesWrites
<1>2. c # "groups.changeCn" /\ c \notin {"groups.create", "groups.import", "groups.delete"}
  OBVIOUS
<1>3. Changes(c) = GroupWrites(c)
  BY <1>1, Zenon DEF Changes
<1>4. GroupWrites(c) = {"membership"}
  BY <1>2, Zenon DEF GroupWrites
<1> QED
  BY <1>3, <1>4

LEMMA RuleCalls ==
  ASSUME NEW c, c \in {"sudoRoles.addUser", "sudoRoles.removeUser", "sudoRoles.addGroup",
                      "sudoRoles.removeGroup"}
  PROVE  Changes(c) = {"rule"}
<1>1. /\ c \notin usersWrites \cup {"users.delete"}
      /\ c \notin groupsWrites \cup {"groups.delete"}
      /\ c \in sudoRolesWrites \cup sudoGroupGrants \cup {"sudoRoles.delete"}
      /\ c \notin netgroupsWrites \cup {"netgroups.delete"} /\ c \notin policiesWrites
  BY DEF usersWrites, groupsWrites, sudoRolesWrites, sudoGroupGrants, netgroupsWrites,
     policiesWrites
<1> QED
  BY <1>1, Zenon DEF Changes

LEMMA AccountCalls ==
  ASSUME NEW c, c \in usersWrites
  PROVE  Changes(c) = AccountWrites(c)
<1>1. /\ c \in usersWrites \cup {"users.delete"}
      /\ c \notin groupsWrites \cup {"groups.delete"}
      /\ c \notin sudoRolesWrites \cup sudoGroupGrants \cup {"sudoRoles.delete"}
      /\ c \notin netgroupsWrites \cup {"netgroups.delete"} /\ c \notin policiesWrites
  BY DEF usersWrites, groupsWrites, sudoRolesWrites, sudoGroupGrants, netgroupsWrites,
     policiesWrites
<1> QED
  BY <1>1, Zenon DEF Changes

LEMMA EntryCalls ==
  ASSUME NEW c, c \in {"users.addSSHKey", "users.removeSSHKey", "users.setPolicy",
                      "users.changePassword", "users.removePassword"}
  PROVE  Changes(c) = {"entry"}
<1>1. /\ c \in usersWrites
      /\ c \notin {"users.delete", "users.changeUid"}
      /\ c \notin {"users.create", "users.import"} /\ c # "users.sendPasswordReset"
      /\ c \in {"users.setPolicy", "users.changePassword", "users.removePassword",
               "users.addSSHKey", "users.removeSSHKey", "users.updateSamba",
               "users.updateShadow", "users.updateShadowExpire"}
      /\ c # "users.update"
  BY DEF usersWrites
<1>2. AccountWrites(c) = {"entry"}
  BY <1>1, Zenon DEF AccountWrites
<1> QED
  BY <1>1, <1>2, AccountCalls

LEMMA StatusCalls ==
  ASSUME NEW c, c \in {"users.lock", "users.unlock", "users.setExpiration"}
  PROVE  Changes(c) = {"account"}
<1>1. /\ c \in usersWrites
      /\ c \notin {"users.delete", "users.changeUid"}
      /\ c \notin {"users.create", "users.import"} /\ c # "users.sendPasswordReset"
      /\ c \notin {"users.setPolicy", "users.changePassword", "users.removePassword",
                  "users.addSSHKey", "users.removeSSHKey", "users.updateSamba",
                  "users.updateShadow", "users.updateShadowExpire"}
      /\ c # "users.update"
  BY DEF usersWrites
<1>2. AccountWrites(c) = {"account"}
  BY <1>1, Zenon DEF AccountWrites
<1> QED
  BY <1>1, <1>2, AccountCalls

LEMMA ResetMailWritesNothing == Changes("users.sendPasswordReset") = {}
<1>1. "users.sendPasswordReset" \in usersWrites
  BY DEF usersWrites
<1>2. AccountWrites("users.sendPasswordReset") = {}
  BY Zenon DEF AccountWrites
<1> QED
  BY <1>1, <1>2, AccountCalls

(***************************************************************************)
(* An operation that refreshes every section it is met in, or goes away    *)
(* from the entries it does not refresh.                                   *)
(***************************************************************************)
LEMMA WholeCatches ==
  ASSUME NEW op, NEW r, NEW keys, Met(op, r, keys),
         \A k \in keys : \/ <<k>> \in op.refreshes
                         \/ op.goes # "stay" /\ k \in {"user", "group", "sudo-role",
                                                     "netgroup", "password-policy"}
  PROVE  Catches(op, r)
  BY DEF Met, Catches, Leaves

(***************************************************************************)
(* The account page: each operation refreshes the account's queries that   *)
(* show what it writes, but for those the pages let lag.                   *)
(***************************************************************************)
LEMMA UserOffersCatch ==
  ASSUME NEW v, NEW op \in UserOffers(v), NEW r, Met(op, r, {"user", "users"})
  PROVE  Catches(op, r)
<1>1. r \in UserQueries \/ (r.key[1] = "users" /\ r.call = "users.list")
  BY DEF Met, Queried
<1> USE OpIs DEF User, Users
<1>2. CASE op \in {addToGroup, removeFromGroup}
  <2>1. Changes(op.call) = {"membership"} /\ op.call \in {"groups.addMember", "groups.removeMember"}
    BY <1>2, MembershipCalls DEF addToGroup, removeFromGroup
  <2>2. op.repeats # "all" /\ <<"user", "groups">> \in op.refreshes
    BY <1>2 DEF addToGroup, removeFromGroup
  <2>3. r.key[1] # "users" /\ r.key # <<"user", "sudo-roles">>
    BY <2>1, <2>2 DEF Met, Lags
  <2>4. r = Read(<<"user", "groups">>, "users.getGroups")
    BY <1>1, <2>1, <2>3, ShowsAre, ReadIs DEF Met, UserQueries
  <2> QED
    BY <2>2, <2>4, ReadIs DEF Catches
<1>3. CASE op \in {addKey, removeKey, updatePolicy, removePassword}
  <2>1. Changes(op.call) = {"entry"} /\ <<"user">> \in op.refreshes
    BY <1>3, EntryCalls DEF addKey, removeKey, updatePolicy, removePassword
  <2>2. r.key[1] = "user"
    BY <1>1, <2>1, ShowsAre DEF Met, Queried
  <2> QED
    BY <2>1, <2>2 DEF Catches
<1>4. CASE op = changePassword
  <2>1. Changes(op.call) = {"entry"} /\ op.call = "users.changePassword"
    BY <1>4, EntryCalls DEF changePassword
  <2>2. r.key # User
    BY <2>1 DEF Met, Lags
  <2> QED
    BY <1>1, <2>1, <2>2, ShowsAre, ReadIs DEF Met, UserQueries
<1>5. CASE op = sendPasswordReset
  BY <1>5, ResetMailWritesNothing DEF Met, sendPasswordReset
<1>6. CASE op \in {addToRole, removeFromRole}
  <2>1. Changes(op.call) = {"rule"} /\ <<"user", "sudo-roles">> \in op.refreshes
    BY <1>6, RuleCalls DEF addToRole, removeFromRole
  <2>2. r = Read(<<"user", "sudo-roles">>, "users.getSudoRoles")
    BY <1>1, <2>1, ShowsAre, ReadIs DEF Met, UserQueries
  <2> QED
    BY <2>1, <2>2, ReadIs DEF Catches
<1>7. CASE op \in {saveIdentity, savePosix, changePosixIds, saveSamba, saveShadow,
                  saveShadowExpire, lock, unlock, setExpiration, clearExpiration}
  <2>1. <<"user">> \in op.refreshes /\ <<"users">> \in op.refreshes
    BY <1>7 DEF saveIdentity, savePosix, changePosixIds, saveSamba, saveShadow,
       saveShadowExpire, lock, unlock, setExpiration, clearExpiration
  <2> QED
    BY <2>1, WholeCatches
<1>8. CASE op \in {changeUid, deleteUser}
  <2>1. op.goes # "stay" /\ <<"users">> \in op.refreshes
    BY <1>8 DEF changeUid, deleteUser
  <2> QED
    BY <2>1, WholeCatches
<1>9. \/ op \in {addToGroup, removeFromGroup}
      \/ op \in {addKey, removeKey, updatePolicy, removePassword}
      \/ op = changePassword \/ op = sendPasswordReset
      \/ op \in {addToRole, removeFromRole}
      \/ op \in {saveIdentity, savePosix, changePosixIds, saveSamba, saveShadow,
                saveShadowExpire, lock, unlock, setExpiration, clearExpiration}
      \/ op \in {changeUid, deleteUser}
  BY DEF UserOffers, PersonalInformation, GroupMemberships, PosixTab, PosixIdsChange,
     SSHKeysCard, SambaNotEnabled, SambaCard, ShadowNotEnabled, ShadowCard, SudoCard,
     PasswordCard, ResetEmailCard, StatusCard, ExpirationCard, PolicyCard,
     UsernameCard, DangerZone
<1> QED
  BY <1>2, <1>3, <1>4, <1>5, <1>6, <1>7, <1>8, <1>9

(***************************************************************************)
(* The group page.                                                         *)
(***************************************************************************)
LEMMA GroupOffersCatch ==
  ASSUME NEW v, NEW op \in GroupOffers(v), NEW r, Met(op, r, {"group", "groups"})
  PROVE  Catches(op, r)
<1>1. r \in GroupQueries \/ (r.key[1] = "groups" /\ r.call = "groups.list")
  BY DEF Met, Queried
<1> USE OpIs DEF Group, Groups
<1>2. CASE op \in {addMember, removeMember}
  <2>1. /\ op.call \in {"groups.addMember", "groups.removeMember"}
        /\ op.repeats = "once" /\ op.refreshes = {<<"group">>}
    BY <1>2 DEF addMember, removeMember
  <2>2. User \o <<"groups">> \notin op.refreshes
    <3>1. Len(User \o <<"groups">>) = 2 /\ Len(<<"group">>) = 1
      BY DEF User
    <3> QED
      BY <2>1, <3>1
  <2>3. r.key[1] # "groups"
    BY <2>1, <2>2 DEF Met, Lags
  <2>4. r.key[1] = "group"
    BY <2>3 DEF Met
  <2> QED
    BY <2>1, <2>4 DEF Catches
<1>3. CASE op \in {addGroupToRole, removeGroupFromRole}
  <2>1. Changes(op.call) = {"rule"} /\ <<"group", "sudo-roles">> \in op.refreshes
    BY <1>3, RuleCalls DEF addGroupToRole, removeGroupFromRole
  <2>2. r = Read(<<"group", "sudo-roles">>, "groups.getSudoRoles")
    BY <1>1, <2>1, ShowsAre, ReadIs DEF Met, GroupQueries
  <2> QED
    BY <2>1, <2>2, ReadIs DEF Catches
<1>4. CASE op \in {saveDescription, saveGroupSamba}
  <2>1. <<"group">> \in op.refreshes /\ <<"groups">> \in op.refreshes
    BY <1>4 DEF saveDescription, saveGroupSamba
  <2> QED
    BY <2>1, WholeCatches
<1>5. CASE op \in {deleteGroup, renameGroup}
  <2>1. op.goes # "stay" /\ <<"groups">> \in op.refreshes
    BY <1>5 DEF deleteGroup, renameGroup
  <2> QED
    BY <2>1, WholeCatches
<1>6. \/ op \in {addMember, removeMember} \/ op \in {addGroupToRole, removeGroupFromRole}
      \/ op \in {saveDescription, saveGroupSamba} \/ op \in {deleteGroup, renameGroup}
  BY DEF GroupOffers, InformationTab, GroupRenameCard, AddMemberDialog, MemberRows,
     GroupSambaNotEnabled, GroupSambaCard, AddRoleDialog, RoleRows, GroupDangerZone
<1> QED
  BY <1>2, <1>3, <1>4, <1>5, <1>6

(***************************************************************************)
(* The pages of a sudo role, a netgroup and a policy.                      *)
(***************************************************************************)
LEMMA RuleOffersCatch ==
  ASSUME NEW v, NEW op, NEW r,
         \/ op \in SudoRoleActions(v) /\ Met(op, r, {"sudo-role", "sudo-roles"})
         \/ /\ op \in NetgroupActions(v) \cup NetgroupDangerZone(v)
            /\ Met(op, r, {"netgroup", "netgroups"})
         \/ /\ op \in PolicyActions(v)
            /\ Met(op, r, {"password-policy", "password-policies"})
  PROVE  Catches(op, r)
<1> USE OpIs DEF SudoRole, SudoRoles, Netgroup, Netgroups, Policy, Policies
<1>1. CASE op \in SudoRoleActions(v) /\ Met(op, r, {"sudo-role", "sudo-roles"})
  <2>1. <<"sudo-roles">> \in op.refreshes
        /\ (<<"sudo-role">> \in op.refreshes \/ op.goes # "stay")
    BY <1>1 DEF SudoRoleActions, saveSudoRole, deleteSudoRole
  <2> QED
    BY <1>1, <2>1, WholeCatches
<1>2. CASE /\ op \in NetgroupActions(v) \cup NetgroupDangerZone(v)
           /\ Met(op, r, {"netgroup", "netgroups"})
  <2>1. <<"netgroups">> \in op.refreshes
        /\ (<<"netgroup">> \in op.refreshes \/ op.goes # "stay")
    BY <1>2 DEF NetgroupActions, NetgroupDangerZone, saveNetgroup,
       deleteNetgroup
  <2> QED
    BY <1>2, <2>1, WholeCatches
<1>3. CASE /\ op \in PolicyActions(v)
           /\ Met(op, r, {"password-policy", "password-policies"})
  <2>1. <<"password-policies">> \in op.refreshes
        /\ (<<"password-policy">> \in op.refreshes \/ op.goes # "stay")
    BY <1>3 DEF PolicyActions, savePolicy, deletePolicy
  <2> QED
    BY <1>3, <2>1, WholeCatches
<1> QED
  BY <1>1, <1>2, <1>3

(***************************************************************************)
(* The pages that create, import, and act on rows.                         *)
(***************************************************************************)
LEMMA ListOffersCatch ==
  ASSUME NEW v, NEW op, NEW r,
         \/ /\ op \in NewUser(v) \cup ImportUsers(v) \cup UsersBulkBar(v)
            /\ Met(op, r, {"users", "groups"})
         \/ /\ op \in NewGroup(v) \cup ImportGroups(v) \cup GroupRows(v)
            /\ Met(op, r, {"groups"})
         \/ /\ op \in NewNetgroup(v) \cup ImportNetgroups(v) \cup NetgroupRows(v)
            /\ Met(op, r, {"netgroups"})
         \/ op \in NewSudoRole(v) \cup SudoRoleRows(v) /\ Met(op, r, {"sudo-roles"})
         \/ /\ op \in NewPolicy(v) \cup PolicyRows(v)
            /\ Met(op, r, {"password-policies"})
  PROVE  Catches(op, r)
<1> USE OpIs DEF Users, SudoRoles, Netgroups, Policies
<1>1. CASE op \in {bulkLock, bulkUnlock, bulkSetExpiration} /\ Met(op, r, {"users", "groups"})
  <2>1. Changes(op.call) = {"account"} /\ <<"users">> \in op.refreshes
    BY <1>1, StatusCalls DEF bulkLock, bulkUnlock, bulkSetExpiration
  <2>2. r.key[1] = "users"
    BY <1>1, <2>1, ShowsAre DEF Met, Queried
  <2> QED
    BY <2>1, <2>2 DEF Catches
<1>2. CASE /\ op \in {createUser, bulkAddToGroup, bulkRemoveFromGroup, bulkDeleteUsers}
           /\ Met(op, r, {"users", "groups"})
  <2>1. <<"users">> \in op.refreshes /\ <<"groups">> \in op.refreshes
    BY <1>2 DEF createUser, bulkAddToGroup, bulkRemoveFromGroup, bulkDeleteUsers
  <2> QED
    BY <1>2, <2>1, WholeCatches
<1>3. CASE op \in {importUsers, importGroups, importNetgroups}
  BY <1>3 DEF importUsers, importGroups, importNetgroups, Catches
<1>4. CASE op \in {createGroup} \cup GroupRows(v) /\ Met(op, r, {"groups"})
  <2>1. <<"groups">> \in op.refreshes
    BY <1>4 DEF createGroup, GroupRows, BulkDelete
  <2> QED
    BY <1>4, <2>1, WholeCatches
<1>5. CASE op \in {createNetgroup} \cup NetgroupRows(v) /\ Met(op, r, {"netgroups"})
  <2>1. <<"netgroups">> \in op.refreshes
    BY <1>5 DEF createNetgroup, NetgroupRows, BulkDelete
  <2> QED
    BY <1>5, <2>1, WholeCatches
<1>6. CASE op \in NewSudoRole(v) \cup SudoRoleRows(v) /\ Met(op, r, {"sudo-roles"})
  <2>1. <<"sudo-roles">> \in op.refreshes
    BY <1>6 DEF NewSudoRole, createSudoRole, SudoRoleRows, BulkDelete,
       rowDeleteSudoRole
  <2> QED
    BY <1>6, <2>1, WholeCatches
<1>7. CASE op \in NewPolicy(v) \cup PolicyRows(v) /\ Met(op, r, {"password-policies"})
  <2>1. <<"password-policies">> \in op.refreshes
    BY <1>7 DEF NewPolicy, createPolicy, PolicyRows, BulkDelete,
       rowDeletePolicy
  <2> QED
    BY <1>7, <2>1, WholeCatches
<1>8. CASE op \in NewUser(v) \cup ImportUsers(v) \cup UsersBulkBar(v)
           /\ Met(op, r, {"users", "groups"})
  <2>1. \/ op \in {bulkLock, bulkUnlock, bulkSetExpiration}
        \/ op \in {createUser, bulkAddToGroup, bulkRemoveFromGroup, bulkDeleteUsers}
        \/ op \in {importUsers, importGroups, importNetgroups}
    BY <1>8 DEF NewUser, ImportUsers, UsersBulkBar
  <2> QED
    BY <1>1, <1>2, <1>3, <1>8, <2>1
<1>9. CASE op \in NewGroup(v) \cup ImportGroups(v) \cup GroupRows(v) /\ Met(op, r, {"groups"})
  <2>1. \/ op \in {createGroup} \cup GroupRows(v)
        \/ op \in {importUsers, importGroups, importNetgroups}
    BY <1>9 DEF NewGroup, ImportGroups
  <2> QED
    BY <1>3, <1>4, <1>9, <2>1
<1>10. CASE /\ op \in NewNetgroup(v) \cup ImportNetgroups(v) \cup NetgroupRows(v)
            /\ Met(op, r, {"netgroups"})
  <2>1. \/ op \in {createNetgroup} \cup NetgroupRows(v)
        \/ op \in {importUsers, importGroups, importNetgroups}
    BY <1>10 DEF NewNetgroup, ImportNetgroups
  <2> QED
    BY <1>3, <1>5, <1>10, <2>1
<1> QED
  BY <1>6, <1>7, <1>8, <1>9, <1>10

-----------------------------------------------------------------------------
(***************************************************************************)
(* What a behaviour may start from: an operation the server welcomes,      *)
(* which reaches the query it is met with if it writes what that shows.    *)
(***************************************************************************)
Writes(p) == Changes(p.op.call) \cap Shows(p.read.call) # {}

Sound(p) == Welcome(p.op, p.verdict) /\ (Writes(p) => Reaches(p.op.refreshes, p.read.key))

(***************************************************************************)
(* Wherever an operation is met with a query, it catches the query.        *)
(***************************************************************************)
LEMMA PlacesCatch ==
  ASSUME NEW v, NEW p \in Places(v), NEW r, Met(p.op, r, p.keys)
  PROVE  p.op \in Offers(v) /\ Catches(p.op, r)
<1> DEFINE In(offers, keys) == p.op \in offers /\ p.keys = keys
<1>1. ASSUME NEW offers, NEW keys, p \in Place(offers, keys) PROVE In(offers, keys)
  BY <1>1 DEF Place
<1>2. \/ In(UserOffers(v), {"user", "users"})
      \/ In(GroupOffers(v), {"group", "groups"})
      \/ In(SudoRoleActions(v), {"sudo-role", "sudo-roles"})
      \/ In(NetgroupActions(v) \cup NetgroupDangerZone(v), {"netgroup", "netgroups"})
      \/ In(PolicyActions(v), {"password-policy", "password-policies"})
      \/ In(NewUser(v) \cup ImportUsers(v) \cup UsersBulkBar(v), {"users", "groups"})
      \/ In(NewGroup(v) \cup ImportGroups(v) \cup GroupRows(v), {"groups"})
      \/ In(NewNetgroup(v) \cup ImportNetgroups(v) \cup NetgroupRows(v), {"netgroups"})
      \/ In(NewSudoRole(v) \cup SudoRoleRows(v), {"sudo-roles"})
      \/ In(NewPolicy(v) \cup PolicyRows(v), {"password-policies"})
  <2> HIDE DEF In
  <2> QED
    BY <1>1 DEF Places
<1>3. p.op \in Offers(v)
  <2>1. SudoRoleActions(v) \cup NetgroupActions(v) \cup NetgroupDangerZone(v)
          \cup PolicyActions(v) \subseteq RuleOffers(v)
    BY DEF RuleOffers
  <2>2. NewUser(v) \cup ImportUsers(v) \cup NewGroup(v) \cup ImportGroups(v)
          \cup NewNetgroup(v) \cup ImportNetgroups(v) \cup NewSudoRole(v)
          \cup NewPolicy(v) \subseteq CreateOffers(v)
    BY DEF CreateOffers
  <2>3. UsersBulkBar(v) \cup GroupRows(v) \cup NetgroupRows(v) \cup SudoRoleRows(v)
          \cup PolicyRows(v) \subseteq BulkOffers(v) \cup RowOffers(v)
    BY DEF BulkOffers
  <2> QED
    BY <1>2, <2>1, <2>2, <2>3 DEF Offers
<1>4. Catches(p.op, r)
  <2>1. CASE In(UserOffers(v), {"user", "users"})
    BY <2>1, UserOffersCatch
  <2>2. CASE In(GroupOffers(v), {"group", "groups"})
    BY <2>2, GroupOffersCatch
  <2>3. CASE \/ In(SudoRoleActions(v), {"sudo-role", "sudo-roles"})
             \/ In(NetgroupActions(v) \cup NetgroupDangerZone(v), {"netgroup", "netgroups"})
             \/ In(PolicyActions(v), {"password-policy", "password-policies"})
    BY <2>3, RuleOffersCatch
  <2>4. CASE \/ In(NewUser(v) \cup ImportUsers(v) \cup UsersBulkBar(v),
                   {"users", "groups"})
             \/ In(NewGroup(v) \cup ImportGroups(v) \cup GroupRows(v), {"groups"})
             \/ In(NewNetgroup(v) \cup ImportNetgroups(v) \cup NetgroupRows(v), {"netgroups"})
             \/ In(NewSudoRole(v) \cup SudoRoleRows(v), {"sudo-roles"})
             \/ In(NewPolicy(v) \cup PolicyRows(v), {"password-policies"})
    BY <2>4, ListOffersCatch
  <2> HIDE DEF In
  <2> QED
    BY <1>2, <2>1, <2>2, <2>3, <2>4
<1> QED
  BY <1>3, <1>4

(***************************************************************************)
(* Every pair of an operation and a query that shows what it writes.       *)
(***************************************************************************)
LEMMA PairsSound == ASSUME NEW v, Viewer(v), NEW p \in Pairs(v) PROVE Sound(p)
<1>1. PICK place \in Places(v), r \in Reads(v) :
        /\ r.key[1] \in place.keys
        /\ Changes(place.op.call) \cap Shows(r.call) # {}
        /\ ~Lags(place.op, r.key) /\ ~Leaves(place.op, r.key)
        /\ p = [op |-> place.op, read |-> r, verdict |-> Verdict(v, place.op)]
  BY DEF Pairs
<1>2. Met(place.op, r, place.keys)
  BY <1>1, ReadsAre DEF Met
<1>3. place.op \in Offers(v) /\ Catches(place.op, r)
  BY <1>2, PlacesCatch
<1>4. Reaches(place.op.refreshes, r.key)
  BY <1>2, <1>3, Caught DEF Catches, Met, Queried
<1> QED
  BY <1>1, <1>3, <1>4, OffersWelcome DEF Sound

LEMMA ServerInfoShowsNothing == Shows(serverInfo.call) = {}
<1>1. /\ serverInfo.call = "serverInfo.get"
      /\ "serverInfo.get" \notin sudoRolesReads \cup {"groups.getSudoRoles", "netgroups.getSudoRoles"}
      /\ "serverInfo.get" \notin policiesReads
  BY ReadIs DEF serverInfo, sudoRolesReads, policiesReads
<1> QED
  BY <1>1, Zenon DEF Shows

(***************************************************************************)
(* And everything else that is offered.                                    *)
(***************************************************************************)
LEMMA PicksSound == ASSUME NEW p \in Picks PROVE Sound(p)
<1>1. PICK v \in Viewers : p \in Pairs(v) \cup Unseen(v) \cup Links(v)
  BY DEF Picks
<1>2. Viewer(v)
  BY ViewersAssumption DEF Viewer
<1>3. CASE p \in Pairs(v)
  BY <1>2, <1>3, PairsSound
<1>4. CASE p \in Unseen(v)
  <2>1. PICK o \in Offers(v) : p = [op |-> o, read |-> serverInfo, verdict |-> Verdict(v, o)]
    BY <1>4 DEF Unseen
  <2> QED
    BY <1>2, <2>1, OffersWelcome, ServerInfoShowsNothing DEF Sound, Writes
<1>5. CASE p \in Links(v)
  <2>1. PICK path \in PaletteLinks(v) :
          p = [op |-> Op("open", {}, path[1]), read |-> serverInfo,
               verdict |-> IF beforeLoad(v, path) THEN "accepted" ELSE "forbidden"]
    BY <1>5 DEF Links
  <2> QED
    BY <1>2, <2>1, LinksAllowed, ServerInfoShowsNothing DEF Sound, Writes, Welcome
<1> QED
  BY <1>1, <1>3, <1>4, <1>5

-----------------------------------------------------------------------------
(***************************************************************************)
(* The cache underneath.  An answer counted as new is as new as the write  *)
(* because nothing read before the write is still on its way: marking the  *)
(* query out of date aborts such a request, but for a first load.          *)
(***************************************************************************)
Entries == [data : {"none", "before", "after"}, fresh : BOOLEAN]
Fetches == [at : {"no", "asked", "read"}, saw : {"none", "before", "after"}, tries : Nat]
Calls == [at : {"idle", "sent", "applied", "refused", "ok", "failed"}, left : Nat \ {0},
          own : Nat, raced : BOOLEAN]
Done == [at : {"ok"}, left : Nat \ {0}, own : Nat, raced : BOOLEAN]

OwnTypeOK ==
  /\ srv \in {"before", "after"} /\ watched \in BOOLEAN
  /\ entry \in Entries /\ fetch \in Fetches /\ call \in Calls

\* The pair is one of the catalogue's, and the directory was written only if it shows.
Picked == Sound(pick) /\ (srv = "after" => Hit)

\* Only a query on screen is being fetched.
AbortedUnseen == fetch.at # "no" => watched

\* A call is about one's own row, and refused, only where the verdict says so.
OwnRowOnly == call.own # 0 \/ call.at = "refused" => pick.verdict = "own"

NothingOlder ==
  call.at = "ok" /\ srv = "after" /\ ~call.raced =>
    /\ entry.fresh => entry.data = "after"
    /\ fetch.at = "read" => fetch.saw = "after"

OwnInv == OwnTypeOK /\ Picked /\ AbortedUnseen /\ NothingOlder /\ OwnRowOnly

LEMMA RequestsAre ==
  ASSUME NEW p, NEW c \in Requests(p)
  PROVE  c \in Calls /\ c.at = "idle" /\ (c.own # 0 => p.verdict = "own")
<1>1. /\ c \in [at : {"idle"}, left : 1 .. 2, own : 0 .. 2, raced : {FALSE}]
      /\ IF p.verdict = "own" THEN c.own \in 1 .. c.left ELSE c.own = 0
  BY DEF Requests
<1>2. 1 .. 2 \subseteq Nat \ {0} /\ 0 .. 2 \subseteq Nat
  OBVIOUS
<1>3. c \in Calls
  BY <1>1, <1>2 DEF Calls
<1> QED
  BY <1>1, <1>3

LEMMA OwnInitHolds == OwnInit => OwnInv
<1> SUFFICES ASSUME OwnInit PROVE OwnInv
  OBVIOUS
<1>1. OwnTypeOK
  <2>1. Idle \in Fetches /\ Asked \in Fetches
    BY DEF Idle, Asked, Fetches
  <2>2. entry \in Entries
    <3>1. /\ [data |-> "none", fresh |-> FALSE] \in Entries
          /\ [data |-> "before", fresh |-> TRUE] \in Entries
          /\ [data |-> "before", fresh |-> FALSE] \in Entries
      BY DEF Entries
    <3> QED
      BY <3>1 DEF OwnInit
  <2>3. fetch \in Fetches
    BY <2>1 DEF OwnInit
  <2>4. call \in Calls
    BY RequestsAre DEF OwnInit
  <2> QED
    BY <2>2, <2>3, <2>4 DEF OwnInit, OwnTypeOK
<1>2. Picked
  BY PicksSound DEF OwnInit, Picked
<1>3. AbortedUnseen /\ NothingOlder /\ OwnRowOnly
  BY RequestsAre DEF OwnInit, AbortedUnseen, NothingOlder, OwnRowOnly, Idle
<1> QED
  BY <1>1, <1>2, <1>3 DEF OwnInv

(***************************************************************************)
(* The steps of the cache.                                                 *)
(***************************************************************************)
CacheStep ==
  Mount \/ Unmount \/ Age \/ Refocus \/ ServeQuery \/ Answer \/ Fail

LEMMA Requested ==
  /\ Idle \in Fetches /\ Asked \in Fetches /\ [Asked EXCEPT !.tries = 1] \in Fetches
  /\ Idle.at = "no" /\ Asked.at = "asked" /\ [Asked EXCEPT !.tries = 1].at = "asked"
  BY DEF Idle, Asked, Fetches

LEMMA CacheStepKeeps == ASSUME OwnInv, CacheStep PROVE OwnInv'
<1> USE Requested DEF OwnInv
<1>1. UNCHANGED <<pick, srv, call>>
  BY DEF CacheStep, Mount, Unmount, Age, Refocus, ServeQuery, Answer, Fail
<1>2. Picked' /\ OwnRowOnly'
  BY <1>1 DEF Picked, Hit, OwnRowOnly
<1>3. CASE Mount
  BY <1>2, <1>3 DEF Mount, OwnTypeOK, AbortedUnseen, NothingOlder
<1>4. CASE Unmount
  BY <1>2, <1>4 DEF Unmount, OwnTypeOK, AbortedUnseen, NothingOlder
<1>5. CASE Age
  <2>1. entry' \in Entries /\ ~entry'.fresh
    BY <1>5 DEF Age, OwnTypeOK, Entries
  <2> QED
    BY <1>2, <1>5, <2>1 DEF Age, OwnTypeOK, AbortedUnseen, NothingOlder
<1>6. CASE Refocus
  BY <1>2, <1>6 DEF Refocus, OwnTypeOK, AbortedUnseen, NothingOlder
<1>7. CASE ServeQuery
  <2>1. fetch' \in Fetches /\ fetch'.at = "read" /\ fetch'.saw = srv
    BY <1>7 DEF ServeQuery, OwnTypeOK, Fetches
  <2> QED
    BY <1>2, <1>7, <2>1 DEF ServeQuery, OwnTypeOK, AbortedUnseen, NothingOlder
<1>8. CASE Answer
  <2>1. entry' \in Entries /\ entry'.data = fetch.saw
    BY <1>8 DEF Answer, OwnTypeOK, Fetches, Entries
  <2> QED
    BY <1>2, <1>8, <2>1 DEF Answer, OwnTypeOK, AbortedUnseen, NothingOlder
<1>9. CASE Fail
  BY <1>2, <1>9 DEF Fail, OwnTypeOK, AbortedUnseen, NothingOlder
<1> QED
  BY <1>3, <1>4, <1>5, <1>6, <1>7, <1>8, <1>9 DEF CacheStep

(***************************************************************************)
(* The steps of the operation.                                             *)
(***************************************************************************)
(***************************************************************************)
(* Marking out of date what was hit: a first load is recorded as a race,   *)
(* any other request starts over, after the write.                         *)
(***************************************************************************)
LEMMA InvalidateKeeps ==
  ASSUME OwnInv, NEW next \in Done, next.own = call.own,
         Invalidate(next), UNCHANGED <<pick, srv, watched>>
  PROVE  OwnInv'
<1> USE DEF OwnInv
<1>1. /\ call' = [next EXCEPT !.raced = Hit /\ FirstLoad]
      /\ call'.at = "ok" /\ call'.own = call.own
      /\ Hit \in BOOLEAN /\ FirstLoad \in BOOLEAN
  BY DEF Invalidate, Hit, Reaches, FirstLoad, Done
<1>2. OwnTypeOK'
  <2>1. call' \in Calls
    BY <1>1 DEF Calls, Done
  <2>2. entry' \in Entries
    BY DEF Invalidate, OwnTypeOK, Entries
  <2>3. fetch' \in Fetches
    BY Requested DEF Invalidate, OwnTypeOK
  <2> QED
    BY <2>1, <2>2, <2>3 DEF OwnTypeOK
<1>3. Picked'
  BY DEF Picked, Hit
<1>4. AbortedUnseen'
  BY DEF Invalidate, AbortedUnseen
<1>5. NothingOlder'
  <2> SUFFICES ASSUME srv = "after", ~call'.raced
               PROVE  ~entry'.fresh /\ fetch'.at # "read"
    BY DEF NothingOlder
  <2>1. Hit
    BY DEF Picked
  <2>2. ~FirstLoad
    BY <1>1, <2>1
  <2> QED
    BY <2>1, <2>2, Requested DEF Invalidate, AbortedUnseen, OwnTypeOK, Entries
<1>6. OwnRowOnly'
  BY <1>1 DEF OwnRowOnly
<1> QED
  BY <1>2, <1>3, <1>4, <1>5, <1>6

(***************************************************************************)
(* The next call of a chain is a call.                                     *)
(***************************************************************************)
LEMMA NextOf ==
  ASSUME NEW c \in Calls, c.left > 1
  PROVE  /\ [c EXCEPT !.at = "sent", !.left = c.left - 1] \in Calls
         /\ [c EXCEPT !.at = "sent", !.left = c.left - 1].at = "sent"
         /\ [c EXCEPT !.at = "sent", !.left = c.left - 1].own = c.own
<1>1. c.left \in Nat
  BY DEF Calls
<1>2. c.left - 1 \in Nat \ {0}
  BY <1>1
<1>3. ASSUME NEW n \in Nat \ {0}
      PROVE  /\ [c EXCEPT !.at = "sent", !.left = n] \in Calls
             /\ [c EXCEPT !.at = "sent", !.left = n].at = "sent"
             /\ [c EXCEPT !.at = "sent", !.left = n].own = c.own
  BY DEF Calls
<1> QED
  BY <1>2, <1>3

LEMMA CallStepKeeps ==
  ASSUME OwnInv, Send \/ Serve \/ NextCall \/ Succeed \/ FailCall PROVE OwnInv'
<1> USE DEF OwnInv
<1>1. CASE Send
  <2>1. call' \in Calls /\ call'.at = "sent" /\ call'.own = call.own
    BY <1>1 DEF Send, OwnTypeOK, Calls
  <2> QED
    BY <1>1, <2>1
       DEF Send, OwnTypeOK, Picked, Hit, AbortedUnseen, NothingOlder, OwnRowOnly
<1>2. CASE Serve
  <2>1. Writes(pick) => Hit
    BY DEF Picked, Sound, Hit
  <2>2. Picked'
    BY <1>2, <2>1 DEF Serve, Picked, Hit, Writes
  <2>3. /\ call' \in Calls /\ call'.own = call.own /\ call'.at \in {"refused", "applied"}
        /\ call'.at = "refused" => RefusesThis
    BY <1>2 DEF Serve, OwnTypeOK, Calls
  <2>4. OwnTypeOK'
    BY <1>2, <2>3 DEF Serve, OwnTypeOK
  <2>5. AbortedUnseen' /\ NothingOlder'
    BY <1>2, <2>3 DEF Serve, AbortedUnseen, NothingOlder
  <2>6. OwnRowOnly'
    <3>1. RefusesThis => pick.verdict = "own"
      <4>1. pick.verdict # "forbidden"
        BY DEF Picked, Sound, Welcome
      <4>2. call.left # 0
        BY DEF OwnTypeOK, Calls
      <4> QED
        BY <4>1, <4>2 DEF RefusesThis, OwnRowOnly
    <3> QED
      BY <1>2, <2>3, <3>1 DEF Serve, OwnRowOnly
  <2> QED
    BY <2>2, <2>4, <2>5, <2>6
<1>3. CASE NextCall
  <2>1. call' \in Calls /\ call'.at = "sent" /\ call'.own = call.own
    BY <1>3, NextOf DEF NextCall, OwnTypeOK
  <2> QED
    BY <1>3, <2>1
       DEF NextCall, OwnTypeOK, Picked, Hit, AbortedUnseen, NothingOlder, OwnRowOnly
<1>4. CASE Succeed
  <2>1. [call EXCEPT !.at = "ok"] \in Done /\ [call EXCEPT !.at = "ok"].own = call.own
    BY DEF OwnTypeOK, Calls, Done
  <2>2. Invalidate([call EXCEPT !.at = "ok"]) /\ UNCHANGED <<pick, srv, watched>>
    BY <1>4 DEF Succeed
  <2> QED
    BY <2>1, <2>2, InvalidateKeeps
<1>5. CASE FailCall
  <2>1. CASE pick.op.repeats = "all" /\ ~(call.left > 1)
    <3>1. [call EXCEPT !.at = "ok"] \in Done /\ [call EXCEPT !.at = "ok"].own = call.own
      BY DEF OwnTypeOK, Calls, Done
    <3>2. Invalidate([call EXCEPT !.at = "ok"]) /\ UNCHANGED <<pick, srv, watched>>
      BY <1>5, <2>1 DEF FailCall
    <3> QED
      BY <3>1, <3>2, InvalidateKeeps
  <2>2. CASE ~(pick.op.repeats = "all" /\ ~(call.left > 1))
    <3>1. /\ UNCHANGED <<pick, srv, watched, entry, fetch>>
          /\ \/ call.left > 1 /\ call' = [call EXCEPT !.at = "sent", !.left = call.left - 1]
             \/ call' = [call EXCEPT !.at = "failed"]
      BY <1>5, <2>2 DEF FailCall
    <3>2. call' \in Calls /\ call'.at \in {"sent", "failed"} /\ call'.own = call.own
      <4>1. CASE call.left > 1 /\ call' = [call EXCEPT !.at = "sent", !.left = call.left - 1]
        BY <4>1, NextOf DEF OwnTypeOK
      <4>2. CASE call' = [call EXCEPT !.at = "failed"]
        BY <4>2 DEF OwnTypeOK, Calls
      <4> QED
        BY <3>1, <4>1, <4>2
    <3> QED
      BY <3>1, <3>2 DEF OwnTypeOK, Picked, Hit, AbortedUnseen, NothingOlder, OwnRowOnly
  <2> QED
    BY <2>1, <2>2
<1> QED
  BY <1>1, <1>2, <1>3, <1>4, <1>5

(***************************************************************************)
(* In every state: an operation the server welcomes and which catches its  *)
(* query; and no answer older than the write counted as new once the       *)
(* operation succeeded, or on its way to be.                               *)
(***************************************************************************)
THEOREM OwnInvariant == OwnSpec => []OwnInv
<1>1. OwnInv /\ [OwnStep]_ownVars => OwnInv'
  <2> SUFFICES ASSUME OwnInv, [OwnStep]_ownVars PROVE OwnInv'
    OBVIOUS
  <2>1. CASE UNCHANGED ownVars
    BY <2>1 DEF ownVars, OwnInv, OwnTypeOK, Picked, Hit, AbortedUnseen,
       NothingOlder, OwnRowOnly
  <2>2. CASE OwnStep
    BY <2>2, CacheStepKeeps, CallStepKeeps DEF OwnStep, CacheStep
  <2> QED
    BY <2>1, <2>2
<1> QED
  BY <1>1, OwnInitHolds, PTL DEF OwnSpec

(***************************************************************************)
(* After an operation succeeded, an answer counted as fresh is never older *)
(* than its write: what mutations pass to invalidateQueries covers every   *)
(* query of the page that shows what they write, whoever looks.            *)
(***************************************************************************)
THEOREM OwnWritesAreSeen == OwnSpec => []OwnWriteIsSeen
<1>1. OwnInv => OwnWriteIsSeen
  BY DEF OwnInv, NothingOlder, OwnWriteIsSeen
<1> QED
  BY <1>1, OwnInvariant, PTL

(***************************************************************************)
(* Whatever a page offers the server accepts, and a link leads to a page   *)
(* that lets its visitor in: the pages' conditions are those of the routes *)
(* (requirePermission, beforeLoad) and of the guards on one's own account. *)
(* What is refused is a bulk action's call on one's own row, which the bar *)
(* over a selection offers like any other.                                 *)
(***************************************************************************)
THEOREM OffersAreAccepted == OwnSpec => []OfferedIsAccepted
<1>1. OwnInv => OfferedIsAccepted
  BY DEF OwnInv, Picked, Sound, Welcome, OwnRowOnly, OfferedIsAccepted
<1> QED
  BY <1>1, OwnInvariant, PTL
=============================================================================
