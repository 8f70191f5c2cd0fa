--------------------------- MODULE Reminders_proofs ---------------------------
(***************************************************************************)
(* For any accounts, administrators, dates, callers and failures: nobody   *)
(* is reminded twice while the table knows of the first time, a row        *)
(* accounts for everyone it keeps from being written to, and what the      *)
(* probe leaves in the cache was true after the last reset.                *)
(*                                                                         *)
(* The probe and the tasks share nothing but the capabilities a run asks   *)
(* for, so the invariant is two: one of the probe, proved action by action *)
(* of CapabilityProbe, and one of the table and the runs.                  *)
(***************************************************************************)
EXTENDS Reminders, TLAPS

-----------------------------------------------------------------------------
(* The probe *)

\* Which names a probe has searched for, where it is.
Searched(pc) ==
  CASE pc = "netgroups" -> {"pwdEndTime"} [] pc = "publish" -> Names [] OTHER -> {}

\* What is known of a name was so at some instant since the last reset.
Holds(caps, n) ==
  \/ \E schema \in since : n \in schema <=> n \in caps.names
  \/ n \in caps.failed /\ n \notin caps.names

\* A probe that no reset overtook, on its way.
FoundSoFar(c) ==
  ask[c].pc \in Probing =>
    \A n \in Names : IF n \in Searched(ask[c].pc)
                     THEN ask[c].caps.overtaken \/ Holds(ask[c].caps, n)
                     ELSE n \notin ask[c].caps.names

Cached == cache.probed /\ ~cache.caps.overtaken => \A n \in Names : Holds(cache.caps, n)

ProbeInv ==
  /\ ProbeTypeOK
  /\ names \in since
  /\ \A c \in Callers : FoundSoFar(c)
  /\ Cached

LEMMA CachedIsFresh == Cached => AnswerIsFresh
  BY DEF Cached, AnswerIsFresh, Holds

LEMMA ProbeStarts == ProbeInit => ProbeInv
<1> SUFFICES ASSUME ProbeInit PROVE ProbeInv
  OBVIOUS
<1>1. ProbeTypeOK
  <2>1. PICK start \in Starts :
          /\ menu = start.menu /\ changes = start.changes
          /\ overlay = start.overlay /\ names = start.names
    BY DEF ProbeInit
  <2>2. /\ menu \subseteq AllOps \cup AllFaults \cup Settings
        /\ overlay \in Overlays /\ names \subseteq Names /\ changes \in 0..MaxChanges
    BY <2>1, ProbeAssumption
  <2>3. Nothing \in Caps
    BY DEF Nothing, Caps, Enforcement
  <2> QED
    BY <2>2, <2>3 DEF ProbeInit, ProbeTypeOK, Ask, Test, Enforcement
<1>2. \A c \in Callers : ask[c].pc = "idle"
  BY DEF ProbeInit
<1> QED
  BY <1>1, <1>2 DEF ProbeInv, ProbeInit, FoundSoFar, Cached, Probing

(***************************************************************************)
(* One caller's step: the others' probes are as they were, or released.    *)
(***************************************************************************)
LEMMA CallerSteps ==
  ASSUME ProbeInv, NEW c \in Callers, UNCHANGED since, UNCHANGED names,
         \A d \in Callers \ {c} : ask'[d] = ask[d] \/ ask'[d].pc = "look",
         FoundSoFar(c)', ProbeTypeOK', Cached'
  PROVE  ProbeInv'
<1>1. \A d \in Callers : FoundSoFar(d)'
  <2> TAKE d \in Callers
  <2>1. CASE d = c
    BY <2>1
  <2>2. CASE d # c
    <3>1. CASE ask'[d] = ask[d]
      BY <2>2, <3>1 DEF ProbeInv, FoundSoFar, Holds
    <3>2. CASE ask'[d].pc = "look"
      BY <3>2 DEF FoundSoFar, Probing
    <3> QED
      BY <2>2, <3>1, <3>2
  <2> QED
    BY <2>1, <2>2
<1> QED
  BY <1>1 DEF ProbeInv

LEMMA AskTyped ==
  ASSUME ProbeTypeOK, NEW c \in Callers, NEW pc, NEW caps \in Caps,
         pc \in {"idle", "wait", "look", "enforcement", "expiry", "netgroups", "publish"},
         AskGoes(c, pc, caps)
  PROVE  /\ ask' \in [Callers -> Ask]
         /\ ask'[c] = [pc |-> pc, caps |-> caps]
         /\ \A d \in Callers \ {c} : ask'[d] = ask[d]
<1>1. [pc |-> pc, caps |-> caps] \in Ask
  BY DEF Ask
<1> QED
  BY <1>1 DEF AskGoes, ProbeTypeOK

LEMMA LookKeeps ==
  ASSUME ProbeInv, NEW c \in Callers, Look(c) PROVE ProbeInv'
<1> USE DEF ProbeInv
<1>1. Nothing \in Caps /\ Nothing.names = {} /\ cache.caps \in Caps
  BY DEF Nothing, Caps, Enforcement, ProbeTypeOK
<1>2. UNCHANGED <<directory, cache, verdict, selftest, since>>
  BY DEF Look
<1>3. PICK pc \in {"idle", "wait", "enforcement"}, caps \in Caps :
        /\ AskGoes(c, pc, caps)
        /\ pc = "enforcement" => caps = Nothing
  BY <1>1 DEF Look
<1>4. inflight' \in Callers \cup {None}
  BY DEF Look, ProbeTypeOK
<1>5. /\ ask' \in [Callers -> Ask] /\ ask'[c] = [pc |-> pc, caps |-> caps]
      /\ \A d \in Callers \ {c} : ask'[d] = ask[d]
  BY <1>3, AskTyped
<1>6. ProbeTypeOK'
  BY <1>2, <1>4, <1>5 DEF ProbeTypeOK, directory, selftest
<1>7. FoundSoFar(c)'
  BY <1>1, <1>3, <1>5 DEF FoundSoFar, Probing, Searched
<1>8. Cached'
  BY <1>2 DEF Cached, Holds
<1> QED
  BY <1>2, <1>5, <1>6, <1>7, <1>8, CallerSteps DEF directory

LEMMA EnforcementKeeps ==
  ASSUME ProbeInv, NEW c \in Callers, probePolicyEnforcement(c) PROVE ProbeInv'
<1> USE DEF ProbeInv
<1>1. ask[c].caps \in Caps
  BY DEF ProbeTypeOK, Ask
<1>2. Configured \in Enforcement
  BY DEF Configured, Enforcement, ProbeTypeOK, Overlays
<1>3. PICK caps \in Caps :
        Found(c, "enforcement", "expiry", caps) /\ caps.names = ask[c].caps.names
  <2>1. CASE Found(c, "enforcement", "expiry", [ask[c].caps EXCEPT !.enforcement = Configured])
    <3>1. /\ [ask[c].caps EXCEPT !.enforcement = Configured] \in Caps
          /\ [ask[c].caps EXCEPT !.enforcement = Configured].names = ask[c].caps.names
      BY <1>1, <1>2 DEF Caps
    <3> QED
      BY <2>1, <3>1
  <2> QED
    BY <1>1, <2>1 DEF probePolicyEnforcement
<1>4. /\ ask[c].pc = "enforcement" /\ AskGoes(c, "expiry", caps)
      /\ UNCHANGED <<directory, cache, inflight, verdict, selftest, since>>
  BY <1>3 DEF Found
<1>5. /\ ask' \in [Callers -> Ask] /\ ask'[c] = [pc |-> "expiry", caps |-> caps]
      /\ \A d \in Callers \ {c} : ask'[d] = ask[d]
  BY <1>4, AskTyped
<1>6. ProbeTypeOK'
  BY <1>4, <1>5 DEF ProbeTypeOK, directory, selftest
<1>7. FoundSoFar(c)'
  <2>1. \A n \in Names : n \notin ask[c].caps.names
    BY <1>4 DEF FoundSoFar, Probing, Searched
  <2> QED
    BY <1>3, <1>5, <2>1 DEF FoundSoFar, Probing, Searched
<1>8. Cached'
  BY <1>4 DEF Cached, Holds
<1> QED
  BY <1>4, <1>5, <1>6, <1>7, <1>8, CallerSteps DEF directory

(***************************************************************************)
(* One search of the schema: the name is known now, the others as before.  *)
(***************************************************************************)
LEMMA SearchFinds ==
  ASSUME ProbeInv, NEW c \in Callers, NEW name \in Names, NEW from, NEW to,
         from \in Probing, to \in Probing,
         Searched(to) = Searched(from) \cup {name}, name \notin Searched(from),
         schemaDeclares(c, name, from, to)
  PROVE  ProbeInv'
<1> USE DEF ProbeInv
<1>1. ask[c].caps \in Caps
  BY DEF ProbeTypeOK, Ask
<1>2. PICK caps \in Caps :
        /\ Found(c, from, to, caps) /\ caps.overtaken = ask[c].caps.overtaken
        /\ \A n \in Names \ {name} :
             /\ n \in caps.names <=> n \in ask[c].caps.names
             /\ n \in caps.failed <=> n \in ask[c].caps.failed
        /\ \/ name \in caps.names <=> name \in ask[c].caps.names \cup names
           \/ name \in caps.failed /\ (name \in caps.names <=> name \in ask[c].caps.names)
  <2>1. CASE Found(c, from, to, [ask[c].caps EXCEPT !.names = @ \cup (names \cap {name})])
    <3> DEFINE caps == [ask[c].caps EXCEPT !.names = @ \cup (names \cap {name})]
    <3>1. caps \in Caps /\ caps.overtaken = ask[c].caps.overtaken
          /\ caps.names = ask[c].caps.names \cup (names \cap {name})
          /\ caps.failed = ask[c].caps.failed
      BY <1>1 DEF Caps
    <3> HIDE DEF caps
    <3> QED
      BY <2>1, <3>1 DEF caps
  <2>2. CASE Found(c, from, to, [ask[c].caps EXCEPT !.failed = @ \cup {name}])
    <3> DEFINE caps == [ask[c].caps EXCEPT !.failed = @ \cup {name}]
    <3>1. caps \in Caps /\ caps.overtaken = ask[c].caps.overtaken
          /\ caps.names = ask[c].caps.names
          /\ caps.failed = ask[c].caps.failed \cup {name}
      BY <1>1 DEF Caps
    <3> HIDE DEF caps
    <3> QED
      BY <2>2, <3>1 DEF caps
  <2> QED
    BY <2>1, <2>2 DEF schemaDeclares
<1>3. /\ ask[c].pc = from /\ AskGoes(c, to, caps)
      /\ UNCHANGED <<directory, cache, inflight, verdict, selftest, since>>
  BY <1>2 DEF Found
<1>4. to \in {"idle", "wait", "look", "enforcement", "expiry", "netgroups", "publish"}
  BY DEF Probing
<1>5. /\ ask' \in [Callers -> Ask] /\ ask'[c] = [pc |-> to, caps |-> caps]
      /\ \A d \in Callers \ {c} : ask'[d] = ask[d]
  BY <1>3, <1>4, AskTyped
<1>6. ProbeTypeOK'
  BY <1>3, <1>5 DEF ProbeTypeOK, directory, selftest
<1>7. FoundSoFar(c)'
  <2> SUFFICES ASSUME NEW n \in Names
               PROVE  IF n \in Searched(to)
                      THEN caps.overtaken \/ Holds(caps, n)'
                      ELSE n \notin caps.names
    BY <1>3, <1>5 DEF FoundSoFar, Holds
  <2>1. CASE n = name
    <3>1. name \notin ask[c].caps.names
      BY <1>3 DEF FoundSoFar
    <3>2. \/ n \in caps.names <=> n \in names
          \/ n \in caps.failed /\ n \notin caps.names
      BY <1>2, <2>1, <3>1
    <3> QED
      BY <1>3, <2>1, <3>2 DEF Holds
  <2>2. CASE n # name
    <3>1. n \in Searched(to) <=> n \in Searched(from)
      BY <2>2
    <3>2. IF n \in Searched(from)
          THEN ask[c].caps.overtaken \/ Holds(ask[c].caps, n)
          ELSE n \notin ask[c].caps.names
      BY <1>3 DEF FoundSoFar
    <3>3. /\ n \in caps.names <=> n \in ask[c].caps.names
          /\ n \in caps.failed <=> n \in ask[c].caps.failed
      BY <1>2, <2>2
    <3>4. Holds(ask[c].caps, n) => Holds(caps, n)'
      BY <1>3, <3>3 DEF Holds
    <3> QED
      BY <1>2, <3>1, <3>2, <3>3, <3>4
  <2> QED
    BY <2>1, <2>2
<1>8. Cached'
  BY <1>3 DEF Cached, Holds
<1> QED
  BY <1>3, <1>5, <1>6, <1>7, <1>8, CallerSteps DEF directory

LEMMA PublishKeeps ==
  ASSUME ProbeInv, NEW c \in Callers, Publish(c) PROVE ProbeInv'
<1> USE DEF ProbeInv
<1> DEFINE caps == IF ask[c].caps.enforcement = "unknown" /\ verdict # None
                   THEN [ask[c].caps EXCEPT !.enforcement = verdict] ELSE ask[c].caps
<1>1. /\ caps \in Caps /\ caps.names = ask[c].caps.names
      /\ caps.failed = ask[c].caps.failed /\ caps.overtaken = ask[c].caps.overtaken
  BY DEF ProbeTypeOK, Ask, Caps
<1>2. /\ ask[c].pc = "publish" /\ cache' = [probed |-> TRUE, caps |-> caps]
      /\ inflight' = None /\ Release(c, caps)
      /\ UNCHANGED <<directory, verdict, selftest, since>>
  BY DEF Publish
<1> HIDE DEF caps
<1>3. \A d \in Callers :
        ask'[d] = IF d = c THEN [pc |-> "idle", caps |-> caps]
                  ELSE IF ask[d].pc = "wait" THEN [ask[d] EXCEPT !.pc = "look"] ELSE ask[d]
  BY <1>2 DEF Release
<1>4. \A d \in Callers : ask'[d] \in Ask
  <2> TAKE d \in Callers
  <2>1. ask[d] \in Ask /\ [pc |-> "idle", caps |-> caps] \in Ask
    BY <1>1 DEF ProbeTypeOK, Ask
  <2>2. [ask[d] EXCEPT !.pc = "look"] \in Ask
    BY <2>1 DEF Ask
  <2> QED
    BY <1>3, <2>1, <2>2
<1>5. ask' \in [Callers -> Ask]
  BY <1>2, <1>4 DEF Release
<1>6. ProbeTypeOK'
  BY <1>1, <1>2, <1>5 DEF ProbeTypeOK, directory, selftest
<1>7. FoundSoFar(c)'
  <2>1. ask'[c] = [pc |-> "idle", caps |-> caps]
    BY <1>3, Zenon
  <2> QED
    BY <2>1 DEF FoundSoFar, Probing
<1>8. \A d \in Callers \ {c} : ask'[d] = ask[d] \/ ask'[d].pc = "look"
  <2> TAKE d \in Callers \ {c}
  <2>1. ask[d] \in Ask
    BY DEF ProbeTypeOK
  <2> QED
    BY <1>3, <2>1 DEF Ask
<1>9. Cached'
  <2>1. ask[c].caps.overtaken \/ \A n \in Names : Holds(ask[c].caps, n)
    BY <1>2 DEF FoundSoFar, Probing, Searched
  <2> QED
    BY <1>1, <1>2, <2>1 DEF Cached, Holds
<1> QED
  BY <1>2, <1>6, <1>7, <1>8, <1>9, CallerSteps DEF directory

LEMMA CapabilitiesKeep ==
  ASSUME ProbeInv, NEW c \in Callers, Capabilities(c) PROVE ProbeInv'
<1>1. CASE hasAttributeType(c)
  BY <1>1, SearchFinds DEF hasAttributeType, Names, Probing, Searched
<1>2. CASE hasObjectClass(c)
  BY <1>2, SearchFinds DEF hasObjectClass, Names, Probing, Searched
<1> QED
  BY <1>1, <1>2, LookKeeps, EnforcementKeeps, PublishKeeps DEF Capabilities

-----------------------------------------------------------------------------
(* Resets and the self-test *)

LEMMA ForgetKeeps ==
  ASSUME ProbeInv, Forget, UNCHANGED directory,
         verdict' \in Enforcement \cup {None},
         test' \in [Tests -> Test], entry' \in Tests \cup {None}
  PROVE  ProbeInv'
<1> USE DEF ProbeInv
<1>1. /\ cache' = [cache EXCEPT !.probed = FALSE] /\ since' = {names}
      /\ UNCHANGED <<menu, overlay, names, changes, inflight>>
  BY DEF Forget, directory
<1>2. \A c \in Callers :
        ask'[c] = IF ask[c].pc \in Probing THEN [ask[c] EXCEPT !.caps.overtaken = TRUE]
                  ELSE ask[c]
  BY DEF Forget
<1>3. \A c \in Callers : /\ ask'[c] \in Ask /\ ask'[c].pc = ask[c].pc
                         /\ ask'[c].caps.names = ask[c].caps.names
                         /\ ask[c].pc \in Probing => ask'[c].caps.overtaken
  <2> TAKE c \in Callers
  <2>1. ask[c] \in Ask /\ ask[c].caps \in Caps
    BY DEF ProbeTypeOK, Ask
  <2>2. LET caps == [ask[c].caps EXCEPT !.overtaken = TRUE]
        IN caps \in Caps /\ caps.names = ask[c].caps.names /\ caps.overtaken
    BY <2>1 DEF Caps
  <2>3. CASE ask[c].pc \in Probing
    <3>1. ask'[c] = [ask[c] EXCEPT !.caps = [ask[c].caps EXCEPT !.overtaken = TRUE]]
      BY <1>2, <2>1, <2>3 DEF Ask
    <3>2. \A caps \in Caps : LET new == [ask[c] EXCEPT !.caps = caps]
                             IN new \in Ask /\ new.pc = ask[c].pc /\ new.caps = caps
      BY <2>1 DEF Ask
    <3> QED
      BY <2>2, <3>1, <3>2
  <2>4. CASE ask[c].pc \notin Probing
    BY <1>2, <2>1, <2>4
  <2> QED
    BY <2>3, <2>4
<1>4. ask' \in [Callers -> Ask]
  BY <1>3 DEF Forget
<1>5. cache' \in [probed : BOOLEAN, caps : Caps] /\ ~cache'.probed
  BY <1>1 DEF ProbeTypeOK
<1>6. ProbeTypeOK'
  BY <1>1, <1>4, <1>5 DEF ProbeTypeOK
<1>7. \A c \in Callers : FoundSoFar(c)'
  BY <1>3 DEF FoundSoFar
<1> QED
  BY <1>1, <1>5, <1>6, <1>7 DEF Cached

LEMMA RefreshKeeps ==
  ASSUME ProbeInv, RefreshCapabilities PROVE ProbeInv'
<1>1. Forget /\ UNCHANGED <<directory, verdict, test, entry>>
  BY DEF RefreshCapabilities, selftest
<1> QED
  BY <1>1, ForgetKeeps DEF ProbeInv, ProbeTypeOK

LEMMA ReconfigureKeeps ==
  ASSUME ProbeInv, Reconfigure PROVE ProbeInv'
<1> USE DEF ProbeInv
<1>1. /\ changes < MaxChanges /\ changes' = changes + 1
      /\ since' = since \cup {names'} /\ overlay' \in Overlays /\ names' \subseteq Names
      /\ UNCHANGED <<menu, cache, inflight, verdict, ask, test, entry>>
  BY DEF Reconfigure, ProbeTypeOK, selftest
<1>2. changes' \in 0..MaxChanges
  BY <1>1, ProbeAssumption DEF ProbeTypeOK
<1>3. ProbeTypeOK'
  BY <1>1, <1>2 DEF ProbeTypeOK
<1>4. since \subseteq since'
  BY <1>1
<1>5. \A c \in Callers : FoundSoFar(c)'
  <2> TAKE c \in Callers
  <2>1. FoundSoFar(c)
    OBVIOUS
  <2> SUFFICES ASSUME ask[c].pc \in Probing, NEW n \in Names, n \in Searched(ask[c].pc),
                      ~ask[c].caps.overtaken
               PROVE  Holds(ask[c].caps, n)'
    BY <1>1, <2>1 DEF FoundSoFar
  <2>2. Holds(ask[c].caps, n)
    BY <2>1 DEF FoundSoFar
  <2>3. CASE n \in ask[c].caps.failed /\ n \notin ask[c].caps.names
    BY <1>1, <2>3 DEF Holds
  <2>4. CASE \E schema \in since : n \in schema <=> n \in ask[c].caps.names
    <3>1. PICK schema \in since : n \in schema <=> n \in ask[c].caps.names
      BY <2>4
    <3>2. schema \in since'
      BY <1>4
    <3> QED
      BY <1>1, <3>1, <3>2 DEF Holds
  <2> QED
    BY <2>2, <2>3, <2>4 DEF Holds
<1>6. Cached'
  BY <1>1, <1>4 DEF Cached, Holds
<1> QED
  BY <1>1, <1>3, <1>5, <1>6

(***************************************************************************)
(* What the rest of the invariant does not speak of may change.            *)
(***************************************************************************)
LEMMA ProbeUnmoved ==
  ASSUME ProbeInv, ProbeTypeOK', UNCHANGED <<names, cache, ask, since>>
  PROVE  ProbeInv'
  BY DEF ProbeInv, FoundSoFar, Cached, Holds

LEMMA SelfTestKeeps ==
  ASSUME ProbeInv, NEW t \in Tests, TestPolicyEnforcement(t) PROVE ProbeInv'
<1> USE DEF ProbeInv
<1>1. \A pc, result :
        /\ pc \in {"idle", "add", "password", "control", "lock", "bind", "delete", "record"}
        /\ result \in Enforcement /\ TestGoes(t, pc, result)
        => test' \in [Tests -> Test]
  BY DEF TestGoes, Test, ProbeTypeOK
<1>2. test[t].result \in Enforcement /\ "unknown" \in Enforcement
  BY DEF ProbeTypeOK, Test, Enforcement
<1>3. CASE RecordEnforcementVerdict(t)
  <2>1. test' \in [Tests -> Test]
    BY <1>1, <1>2, <1>3 DEF RecordEnforcementVerdict, TestStops
  <2>2. verdict' \in Enforcement \cup {None} /\ Forget /\ UNCHANGED <<directory, entry>>
    BY <1>2, <1>3 DEF RecordEnforcementVerdict
  <2> QED
    BY <2>1, <2>2, ForgetKeeps DEF ProbeTypeOK
<1>4. CASE BeginTest(t) \/ AddEntry(t) \/ DeleteEntry(t)
  <2>1. test' \in [Tests -> Test]
    BY <1>1, <1>2, <1>4 DEF BeginTest, AddEntry, DeleteEntry, TestStops
  <2>2. entry' \in Tests \cup {None} /\ UNCHANGED idleProbe
    BY <1>4 DEF BeginTest, AddEntry, DeleteEntry, ProbeTypeOK
  <2>3. ProbeTypeOK'
    BY <2>1, <2>2 DEF ProbeTypeOK, idleProbe, directory
  <2> QED
    BY <2>2, <2>3, ProbeUnmoved DEF idleProbe, directory
<1>5. CASE SetPassword(t) \/ BindControl(t) \/ WriteLock(t) \/ BindLocked(t)
  <2>1. PICK pc \in {"control", "lock", "bind", "delete"}, result \in Enforcement :
          TestGoes(t, pc, result) /\ UNCHANGED <<entry, idleProbe>>
    BY <1>5 DEF SetPassword, BindControl, WriteLock, BindLocked, Experiment, Enforcement
  <2>2. test' \in [Tests -> Test]
    BY <1>1, <2>1
  <2>3. ProbeTypeOK'
    BY <2>1, <2>2 DEF ProbeTypeOK, idleProbe, directory
  <2> QED
    BY <2>1, <2>3, ProbeUnmoved DEF idleProbe, directory
<1> QED
  BY <1>3, <1>4, <1>5 DEF TestPolicyEnforcement

LEMMA LeftoverKeeps ==
  ASSUME ProbeInv, RemoveLeftover PROVE ProbeInv'
<1>1. ProbeTypeOK'
  BY DEF RemoveLeftover, idleProbe, directory, ProbeInv, ProbeTypeOK
<1> QED
  BY <1>1, ProbeUnmoved DEF RemoveLeftover, idleProbe, directory

LEMMA RestartKeeps ==
  ASSUME ProbeInv, Restart PROVE ProbeInv'
<1>1. Nothing \in Caps
  BY DEF Nothing, Caps, Enforcement
<1>2. ProbeTypeOK'
  BY <1>1 DEF Restart, ProbeInv, ProbeTypeOK, directory, Ask, Test, Enforcement
<1>3. \A c \in Callers : ask'[c].pc = "idle"
  BY DEF Restart
<1> QED
  BY <1>2, <1>3 DEF Restart, directory, ProbeInv, FoundSoFar, Probing, Cached

LEMMA ProbeNextKeeps ==
  ASSUME ProbeInv, ProbeNext PROVE ProbeInv'
<1>1. CASE \E c \in Callers : Serve(c)
  BY <1>1, CapabilitiesKeep DEF Serve
<1> QED
  BY <1>1, RefreshKeeps, ReconfigureKeeps, SelfTestKeeps, LeftoverKeeps DEF ProbeNext

-----------------------------------------------------------------------------
(* The table and the runs *)

TasksTypeOK ==
  /\ expiry \in [Users -> [Sources -> Expiry \cup {None}]]
  /\ rows \subseteq Keys
  /\ run \in [Tasks -> Run]
  /\ told \subseteq Keys \X People /\ again \subseteq told
  /\ lapses \subseteq Keys /\ refused \subseteq Keys \X People

\* A run works on a reminder of its own task, while it sends and records.
Mailing(k) == run[k].pc \in {"send", "record"}
KeyIsOwn == \A k \in Tasks : /\ run[k].key # None <=> Mailing(k)
                             /\ Mailing(k) => run[k].key[1] = k

\* A reminder somebody got has a row, has lost it, or is about to get it.
ToldIsKept ==
  \A r \in told : \/ r[1] \in rows \cup lapses
                  \/ run[r[1][1]].pc = "record" /\ run[r[1][1]].key = r[1]

\* Who is about to be written to had the reminder before only if its row was lost.
LeftIsNew ==
  \A k \in Tasks, a \in People :
    Mailing(k) /\ a \in run[k].left /\ <<run[k].key, a>> \in told => run[k].key \in lapses

\* Nobody concerned by the reminder being sent is forgotten.
Reached(key, a) == <<key, a>> \in told \cup refused
NobodyIsForgotten ==
  \A k \in Tasks : Mailing(k) =>
    \A a \in Concerned(run[k].key) : Reached(run[k].key, a) \/ a \in run[k].left

RecordIsTold ==
  \A k \in Tasks : run[k].pc = "record" => \E a \in People : <<run[k].key, a>> \in told

TasksInv ==
  /\ TasksTypeOK /\ KeyIsOwn /\ ToldIsKept /\ LeftIsNew
  /\ NobodyIsForgotten /\ RecordIsTold
  /\ RemindedOnce /\ RowAccountsForAll

IInv == ProbeInv /\ TasksInv

LEMMA KeyFields == \A key \in Keys : key[1] \in Tasks /\ key[2] \in Users /\ key # None
  BY RemindersAssumption DEF Keys

LEMMA ConcernedArePeople == \A key \in Keys : Concerned(key) \subseteq People
  BY KeyFields DEF Concerned, People

LEMMA IdleIsTyped == Idle \in Run /\ Idle.key = None /\ Idle.pc = "idle"
  BY DEF Idle, Run, Unset, Sources

LEMMA TasksStart == Init => TasksInv
<1> SUFFICES ASSUME Init PROVE TasksInv
  OBVIOUS
<1>1. \A k \in Tasks : run[k] = Idle
  BY DEF Init
<1>2. \A k \in Tasks : run[k].pc = "idle" /\ run[k].key = None
  BY <1>1, IdleIsTyped
<1>3. TasksTypeOK
  BY IdleIsTyped DEF Init, TasksTypeOK, Unset, Sources
<1>4. KeyIsOwn /\ LeftIsNew /\ NobodyIsForgotten /\ RecordIsTold
  BY <1>2 DEF KeyIsOwn, Mailing, LeftIsNew, NobodyIsForgotten, RecordIsTold
<1> QED
  BY <1>3, <1>4 DEF Init, TasksInv, ToldIsKept, RemindedOnce, RowAccountsForAll

(***************************************************************************)
(* The run of one task takes the place new: of the others nothing changes. *)
(***************************************************************************)
LEMMA RunTakes ==
  ASSUME TasksTypeOK, NEW k \in Tasks, NEW new \in Run, RunGoes(k, new)
  PROVE  /\ run' \in [Tasks -> Run] /\ run'[k] = new
         /\ \A j \in Tasks \ {k} : run'[j] = run[j]
  BY DEF RunGoes, TasksTypeOK

(***************************************************************************)
(* A step of a run with nobody left to write to, to where it writes to     *)
(* nobody.                                                                 *)
(***************************************************************************)
LEMMA QuietStep ==
  ASSUME TasksInv, NEW k \in Tasks, NEW new \in Run, RunGoes(k, new),
         UNCHANGED <<expiry, rows, history>>,
         new.key = None, new.pc \notin {"send", "record"},
         ~Mailing(k) \/ (run[k].pc = "send" /\ run[k].left = {})
  PROVE  TasksInv'
<1> USE DEF TasksInv
<1>1. /\ run' \in [Tasks -> Run] /\ run'[k] = new
      /\ \A j \in Tasks \ {k} : run'[j] = run[j]
  BY RunTakes
<1>2. UNCHANGED <<expiry, rows, told, again, lapses, refused>>
  BY DEF history
<1>3. TasksTypeOK'
  BY <1>1, <1>2 DEF TasksTypeOK
<1>4. KeyIsOwn'
  BY <1>1 DEF KeyIsOwn, Mailing
<1>5. ToldIsKept'
  <2> SUFFICES ASSUME NEW r \in told
               PROVE  \/ r[1] \in rows \cup lapses
                      \/ run'[r[1][1]].pc = "record" /\ run'[r[1][1]].key = r[1]
    BY <1>2 DEF ToldIsKept
  <2>1. r[1][1] \in Tasks
    BY KeyFields DEF TasksTypeOK
  <2> QED
    BY <1>1, <2>1 DEF ToldIsKept, Mailing
<1>6. LeftIsNew' /\ NobodyIsForgotten' /\ RecordIsTold'
  <2>1. LeftIsNew'
    BY <1>1, <1>2 DEF LeftIsNew, Mailing
  <2>2. NobodyIsForgotten'
    BY <1>1, <1>2 DEF NobodyIsForgotten, Mailing, Reached
  <2>3. RecordIsTold'
    BY <1>1, <1>2 DEF RecordIsTold
  <2> QED
    BY <2>1, <2>2, <2>3
<1>7. RowAccountsForAll'
  <2> SUFFICES ASSUME NEW key \in rows
               PROVE  /\ \E a \in People : <<key, a>> \in told
                      /\ \A a \in Concerned(key) :
                           \/ <<key, a>> \in told \cup refused
                           \/ run'[key[1]].key = key /\ a \in run'[key[1]].left
    BY <1>2 DEF RowAccountsForAll
  <2>1. key \in Keys /\ key[1] \in Tasks /\ key # None
    BY KeyFields DEF TasksTypeOK
  <2>2. CASE key[1] = k
    BY <2>1, <2>2 DEF RowAccountsForAll, KeyIsOwn
  <2>3. CASE key[1] # k
    BY <1>1, <2>1, <2>3 DEF RowAccountsForAll
  <2> QED
    BY <2>2, <2>3
<1>8. RemindedOnce'
  BY <1>2 DEF RemindedOnce
<1> QED
  BY <1>3, <1>4, <1>5, <1>6, <1>7, <1>8

(***************************************************************************)
(* The reminder an account is due is one the table can have a row for.     *)
(***************************************************************************)
LEMMA DueIsKey ==
  ASSUME TasksInv, NEW k \in Tasks, NEW u \in Users, NEW key \in DueFor(k, u)
  PROVE  key \in Keys /\ key[1] = k /\ key[2] = u
<1> DEFINE e == ExpirationOf(k, u)
<1>1. run[k].listed[u] \in [Sources -> Expiry \cup {None}]
  BY DEF TasksInv, TasksTypeOK, Run
<1>2. e \in Expiry \cup {None}
  BY <1>1 DEF ExpirationOf, Sources
<1>3. e # None /\ Due(e.left) /\ key = <<k, u, e.left, e.date>>
  BY DEF DueFor
<1>4. e.left \in DOMAIN IntervalOf /\ e.date \in Dates
  BY <1>2, <1>3 DEF Due, Expiry
<1> HIDE DEF e
<1> QED
  BY <1>3, <1>4 DEF Keys

LEMMA NotifyKeeps ==
  ASSUME TasksInv, NEW k \in Tasks, NEW u \in Users, NotifyUser(k, u)
  PROVE  TasksInv'
<1> USE DEF TasksInv
<1>1. PICK key \in DueFor(k, u) :
        /\ RunGoes(k, [To(k, "send") EXCEPT !.key = key, !.left = Recipients(k, u)])
        /\ refused' = refused \cup ({key} \X (Concerned(key) \ Recipients(k, u)))
  BY DEF NotifyUser
<1>2. /\ run[k].pc = "next" /\ DueFor(k, u) \cap rows # DueFor(k, u)
      /\ UNCHANGED <<expiry, rows, told, again, lapses>>
  BY DEF NotifyUser, WasNotificationSent
<1>3. key \in Keys /\ key[1] = k /\ key[2] = u /\ key # None /\ key \notin rows
  BY <1>1, <1>2, DueIsKey, KeyFields DEF DueFor
<1> DEFINE new == [To(k, "send") EXCEPT !.key = key, !.left = Recipients(k, u)]
<1>4. new \in Run /\ new.pc = "send" /\ new.key = key /\ new.left = Recipients(k, u)
  <2>1. run[k] \in Run
    BY DEF TasksTypeOK
  <2>2. Recipients(k, u) \subseteq People
    BY <2>1 DEF Recipients, Run, People
  <2> QED
    BY <1>3, <2>1, <2>2 DEF To, Run
<1> HIDE DEF new
<1>5. /\ run' \in [Tasks -> Run] /\ run'[k] = new
      /\ \A j \in Tasks \ {k} : run'[j] = run[j]
  BY <1>1, <1>4, RunTakes DEF new
<1>6. Concerned(key) \subseteq People /\ refused \subseteq refused'
  BY <1>1, <1>3, ConcernedArePeople
<1>7. TasksTypeOK'
  <2>1. refused' \subseteq Keys \X People
    BY <1>1, <1>3, <1>6 DEF TasksTypeOK
  <2> QED
    BY <1>2, <1>5, <2>1 DEF TasksTypeOK
<1>8. KeyIsOwn'
  BY <1>3, <1>4, <1>5 DEF KeyIsOwn, Mailing
<1>9. ToldIsKept'
  <2> SUFFICES ASSUME NEW r \in told
               PROVE  \/ r[1] \in rows \cup lapses
                      \/ run'[r[1][1]].pc = "record" /\ run'[r[1][1]].key = r[1]
    BY <1>2 DEF ToldIsKept
  <2>1. r[1][1] \in Tasks
    BY KeyFields DEF TasksTypeOK
  <2> QED
    BY <1>2, <1>5, <2>1 DEF ToldIsKept
<1>10. LeftIsNew'
  <2> SUFFICES ASSUME NEW j \in Tasks, NEW a \in People,
                      Mailing(j)', a \in run'[j].left, <<run'[j].key, a>> \in told
               PROVE  run'[j].key \in lapses
    BY <1>2 DEF LeftIsNew
  <2>1. CASE j = k
    <3>1. <<key, a>> \in told /\ run'[j].key = key
      BY <1>4, <1>5, <2>1
    <3>2. \/ key \in rows \cup lapses
          \/ run[k].pc = "record"
      BY <1>3, <3>1 DEF ToldIsKept
    <3> QED
      BY <1>2, <1>3, <3>1, <3>2
  <2>2. CASE j # k
    BY <1>5, <2>2 DEF LeftIsNew, Mailing
  <2> QED
    BY <2>1, <2>2
<1>11. NobodyIsForgotten'
  <2> SUFFICES ASSUME NEW j \in Tasks, Mailing(j)', NEW a \in Concerned(run'[j].key)
               PROVE  <<run'[j].key, a>> \in told' \cup refused' \/ a \in run'[j].left
    BY DEF NobodyIsForgotten, Reached, Concerned
  <2>1. CASE j = k
    BY <1>1, <1>4, <1>5, <2>1 DEF Reached
  <2>2. CASE j # k
    BY <1>2, <1>5, <1>6, <2>2 DEF NobodyIsForgotten, Mailing, Reached
  <2> QED
    BY <2>1, <2>2
<1>12. RecordIsTold'
  BY <1>2, <1>4, <1>5 DEF RecordIsTold
<1>13. RowAccountsForAll'
  <2> SUFFICES ASSUME NEW old \in rows
               PROVE  /\ \E a \in People : <<old, a>> \in told
                      /\ \A a \in Concerned(old) :
                           \/ <<old, a>> \in told \cup refused'
                           \/ run'[old[1]].key = old /\ a \in run'[old[1]].left
    BY <1>2 DEF RowAccountsForAll
  <2>1. old \in Keys /\ old[1] \in Tasks /\ old # None
    BY KeyFields DEF TasksTypeOK
  <2>2. CASE old[1] = k
    BY <1>2, <1>6, <2>1, <2>2 DEF RowAccountsForAll, KeyIsOwn, Mailing
  <2>3. CASE old[1] # k
    BY <1>5, <1>6, <2>1, <2>3 DEF RowAccountsForAll
  <2> QED
    BY <2>2, <2>3
<1>14. RemindedOnce'
  BY <1>2 DEF RemindedOnce
<1> QED
  BY <1>7, <1>8, <1>9, <1>10, <1>11, <1>12, <1>13, <1>14

(***************************************************************************)
(* One recipient is written to, or is refused, or both as far as the run   *)
(* can tell; the rest of the run and every other run stay.                 *)
(***************************************************************************)
LEMMA SendKeeps ==
  ASSUME TasksInv, NEW k \in Tasks, NEW a \in People, SendNotification(k, a)
  PROVE  TasksInv'
<1> USE DEF TasksInv
<1> DEFINE key == run[k].key
<1>1. run[k] \in Run /\ run[k].pc = "send" /\ a \in run[k].left
      /\ UNCHANGED <<expiry, rows>>
  BY DEF SendNotification, TasksTypeOK
<1>2. key \in Keys /\ key # None /\ key[1] = k /\ key \in Keys
  BY <1>1 DEF KeyIsOwn, Mailing, Run
<1>3. PICK pc \in {"send", "record"} :
        RunGoes(k, [run[k] EXCEPT !.pc = pc, !.left = @ \ {a}])
        /\ \/ /\ Delivered(k, a) /\ pc = "record" /\ UNCHANGED <<lapses, refused>>
           \/ /\ refused' = refused \cup {<<key, a>>} /\ pc = "send"
              /\ UNCHANGED <<told, again, lapses>>
           \/ /\ Delivered(k, a) /\ pc = "send"
              /\ lapses' = lapses \cup {key} /\ UNCHANGED refused
  <2>1. [To(k, "record") EXCEPT !.left = @ \ {a}]
          = [run[k] EXCEPT !.pc = "record", !.left = @ \ {a}]
    BY <1>1 DEF To, Run
  <2>2. [run[k] EXCEPT !.left = @ \ {a}] = [run[k] EXCEPT !.pc = "send", !.left = @ \ {a}]
    BY <1>1 DEF Run
  <2> QED
    BY <2>1, <2>2 DEF SendNotification
<1> DEFINE new == [run[k] EXCEPT !.pc = pc, !.left = @ \ {a}]
<1>4. new \in Run /\ new.pc = pc /\ new.key = key /\ new.left = run[k].left \ {a}
  BY <1>1 DEF Run
<1> HIDE DEF new
<1>5. /\ run' \in [Tasks -> Run] /\ run'[k] = new
      /\ \A j \in Tasks \ {k} : run'[j] = run[j]
  BY <1>3, <1>4, RunTakes DEF new
<1>6. /\ told \subseteq told' /\ told' \subseteq told \cup {<<key, a>>}
      /\ lapses \subseteq lapses' /\ refused \subseteq refused'
      /\ <<key, a>> \in told' \cup refused'
      /\ pc = "record" => <<key, a>> \in told'
      /\ <<key, a>> \in told' => <<key, a>> \in told \/ pc = "record" \/ key \in lapses'
      /\ again' \subseteq again \cup (told \cap {<<key, a>>})
  BY <1>3 DEF Delivered
<1>7. TasksTypeOK'
  <2>1. told' \subseteq Keys \X People /\ again' \subseteq told'
    BY <1>2, <1>6 DEF TasksTypeOK
  <2>2. refused' \subseteq Keys \X People /\ lapses' \subseteq Keys
    BY <1>2, <1>3 DEF TasksTypeOK
  <2> QED
    BY <1>1, <1>5, <2>1, <2>2 DEF TasksTypeOK
<1> HIDE DEF key
<1>8. KeyIsOwn'
  <2>1. new.pc \in {"send", "record"} /\ new.key[1] = k /\ new.key # None
    BY <1>2, <1>4
  <2> QED
    BY <1>5, <2>1 DEF KeyIsOwn, Mailing
<1>9. ToldIsKept'
  <2> SUFFICES ASSUME NEW r \in told'
               PROVE  \/ r[1] \in rows \cup lapses'
                      \/ run'[r[1][1]].pc = "record" /\ run'[r[1][1]].key = r[1]
    BY <1>1 DEF ToldIsKept
  <2>1. CASE r = <<key, a>> /\ r \notin told
    BY <1>2, <1>4, <1>5, <1>6, <2>1
  <2>2. CASE r \in told
    <3>1. r[1][1] \in Tasks
      BY <2>2, KeyFields DEF TasksTypeOK
    <3>2. r[1] \in rows \cup lapses \/ (run[r[1][1]].pc = "record" /\ run[r[1][1]].key = r[1])
      BY <2>2 DEF ToldIsKept
    <3> QED
      BY <1>1, <1>5, <1>6, <3>1, <3>2
  <2> QED
    BY <1>6, <2>1, <2>2
<1>10. LeftIsNew'
  <2> SUFFICES ASSUME NEW j \in Tasks, NEW b \in People,
                      Mailing(j)', b \in run'[j].left, <<run'[j].key, b>> \in told'
               PROVE  run'[j].key \in lapses'
    BY DEF LeftIsNew
  <2>1. CASE j = k
    <3>1. run'[j].key = key /\ b # a /\ b \in run[k].left
      BY <1>4, <1>5, <2>1
    <3>2. <<key, b>> \in told
      BY <1>6, <3>1
    <3> QED
      BY <1>1, <1>6, <3>1, <3>2 DEF LeftIsNew, Mailing, key
  <2>2. CASE j # k
    <3>1. run'[j] = run[j] /\ Mailing(j)
      BY <1>5, <2>2 DEF Mailing
    <3>2. run[j].key # key
      BY <1>2, <2>2, <3>1 DEF KeyIsOwn
    <3>3. <<run[j].key, b>> \in told
      BY <1>6, <3>1, <3>2
    <3> QED
      BY <1>6, <3>1, <3>3 DEF LeftIsNew
  <2> QED
    BY <2>1, <2>2
<1>11. NobodyIsForgotten'
  <2> SUFFICES ASSUME NEW j \in Tasks, Mailing(j)', NEW b \in Concerned(run'[j].key)
               PROVE  <<run'[j].key, b>> \in told' \cup refused' \/ b \in run'[j].left
    BY DEF NobodyIsForgotten, Reached, Concerned
  <2>1. CASE j = k
    <3>1. run'[j].key = key /\ (Reached(key, b) \/ b \in run[k].left)
      BY <1>1, <1>4, <1>5, <2>1 DEF NobodyIsForgotten, Mailing, key
    <3> QED
      BY <1>4, <1>5, <1>6, <2>1, <3>1 DEF Reached
  <2>2. CASE j # k
    BY <1>5, <1>6, <2>2 DEF NobodyIsForgotten, Mailing, Reached
  <2> QED
    BY <2>1, <2>2
<1>12. RecordIsTold'
  <2>1. \A j \in Tasks \ {k} : run'[j] = run[j]
    BY <1>5
  <2> QED
    BY <1>4, <1>5, <1>6, <2>1 DEF RecordIsTold
<1>13. RowAccountsForAll'
  <2> SUFFICES ASSUME NEW old \in rows
               PROVE  /\ \E b \in People : <<old, b>> \in told'
                      /\ \A b \in Concerned(old) :
                           \/ <<old, b>> \in told' \cup refused'
                           \/ run'[old[1]].key = old /\ b \in run'[old[1]].left
    BY <1>1 DEF RowAccountsForAll
  <2>1. old \in Keys /\ old[1] \in Tasks
    BY KeyFields DEF TasksTypeOK
  <2>2. /\ \E b \in People : <<old, b>> \in told
        /\ \A b \in Concerned(old) :
             \/ <<old, b>> \in told \cup refused
             \/ run[old[1]].key = old /\ b \in run[old[1]].left
    BY DEF RowAccountsForAll
  <2>3. CASE old[1] = k
    BY <1>4, <1>5, <1>6, <2>2, <2>3 DEF key
  <2>4. CASE old[1] # k
    BY <1>5, <1>6, <2>1, <2>2, <2>4
  <2> QED
    BY <2>3, <2>4
<1>14. RemindedOnce'
  <2> SUFFICES ASSUME NEW r \in again' PROVE r[1] \in lapses'
    BY DEF RemindedOnce
  <2>1. CASE r \in again
    BY <1>6, <2>1 DEF RemindedOnce
  <2>2. CASE r = <<key, a>> /\ <<key, a>> \in told
    BY <1>1, <1>6, <2>2 DEF LeftIsNew, Mailing, key
  <2> QED
    BY <1>6, <2>1, <2>2
<1> QED
  BY <1>7, <1>8, <1>9, <1>10, <1>11, <1>12, <1>13, <1>14

LEMMA RecordKeeps ==
  ASSUME TasksInv, NEW k \in Tasks, RecordNotification(k)
  PROVE  TasksInv'
<1> USE DEF TasksInv
<1> DEFINE key == run[k].key  new == To(k, "send")
<1>1. /\ run[k] \in Run /\ run[k].pc = "record" /\ RunGoes(k, new)
      /\ UNCHANGED <<expiry, told, again, refused>>
  BY DEF RecordNotification, TasksTypeOK
<1>2. key \in Keys /\ key[1] = k /\ key # None
  BY <1>1 DEF KeyIsOwn, Mailing, Run
<1>3. /\ rows \subseteq rows' /\ rows' \subseteq rows \cup {key}
      /\ lapses \subseteq lapses' /\ lapses' \subseteq lapses \cup {key}
      /\ key \in rows' \cup lapses'
  BY DEF RecordNotification
<1>4. new \in Run /\ new.pc = "send" /\ new.key = key /\ new.left = run[k].left
  BY <1>1 DEF To, Run
<1> HIDE DEF new
<1>5. /\ run' \in [Tasks -> Run] /\ run'[k] = new
      /\ \A j \in Tasks \ {k} : run'[j] = run[j]
  BY <1>1, <1>4, RunTakes
<1>6. \A j \in Tasks : /\ run'[j].key = run[j].key /\ run'[j].left = run[j].left
                       /\ Mailing(j)' <=> Mailing(j)
  BY <1>1, <1>4, <1>5 DEF Mailing
<1>7. TasksTypeOK'
  BY <1>1, <1>2, <1>3, <1>5 DEF TasksTypeOK
<1>8. KeyIsOwn'
  BY <1>6 DEF KeyIsOwn
<1> HIDE DEF key
<1>9. ToldIsKept'
  <2> SUFFICES ASSUME NEW r \in told
               PROVE  \/ r[1] \in rows' \cup lapses'
                      \/ run'[r[1][1]].pc = "record" /\ run'[r[1][1]].key = r[1]
    BY <1>1 DEF ToldIsKept
  <2>1. r[1][1] \in Tasks
    BY KeyFields DEF TasksTypeOK
  <2>2. r[1] \in rows \cup lapses \/ (run[r[1][1]].pc = "record" /\ run[r[1][1]].key = r[1])
    BY DEF ToldIsKept
  <2>3. CASE r[1][1] = k
    BY <1>3, <2>2, <2>3 DEF key
  <2>4. CASE r[1][1] # k
    BY <1>3, <1>5, <2>1, <2>2, <2>4
  <2> QED
    BY <2>3, <2>4
<1>10. LeftIsNew'
  <2> SUFFICES ASSUME NEW j \in Tasks, NEW a \in People,
                      Mailing(j), a \in run[j].left, <<run[j].key, a>> \in told
               PROVE  run[j].key \in lapses'
    BY <1>1, <1>6 DEF LeftIsNew
  <2> QED
    BY <1>3 DEF LeftIsNew
<1>11. NobodyIsForgotten'
  BY <1>1, <1>6 DEF NobodyIsForgotten, Reached
<1>12. RecordIsTold'
  BY <1>1, <1>4, <1>5 DEF RecordIsTold
<1>13. RowAccountsForAll'
  <2> SUFFICES ASSUME NEW row \in rows'
               PROVE  /\ \E a \in People : <<row, a>> \in told
                      /\ \A a \in Concerned(row) :
                           \/ <<row, a>> \in told \cup refused
                           \/ run'[row[1]].key = row /\ a \in run'[row[1]].left
    BY <1>1 DEF RowAccountsForAll
  <2>1. CASE row = key
    <3>1. \E a \in People : <<key, a>> \in told
      BY <1>1 DEF RecordIsTold, key
    <3>2. \A a \in Concerned(key) : <<key, a>> \in told \cup refused \/ a \in run[k].left
      BY <1>1 DEF NobodyIsForgotten, Mailing, Reached, key
    <3> QED
      BY <1>2, <1>6, <2>1, <3>1, <3>2 DEF key
  <2>2. CASE row \in rows
    <3>1. row[1] \in Tasks
      BY <2>2, KeyFields DEF TasksTypeOK
    <3> QED
      BY <1>6, <2>2, <3>1 DEF RowAccountsForAll
  <2> QED
    BY <1>3, <2>1, <2>2
<1>14. RemindedOnce'
  BY <1>1, <1>3 DEF RemindedOnce
<1> QED
  BY <1>7, <1>8, <1>9, <1>10, <1>11, <1>12, <1>13, <1>14

(***************************************************************************)
(* A crash cuts every run off: what it was about to record is lost, and    *)
(* whom it was about to write to is not written to.                        *)
(***************************************************************************)
LEMMA CrashKeeps ==
  ASSUME TasksInv, Crash PROVE TasksInv'
<1> USE DEF TasksInv
<1> DEFINE lost == {run[k].key : k \in {j \in Tasks : run[j].pc = "record"}}
           unsent == UNION {{run[k].key} \X run[k].left :
                              k \in {j \in Tasks : run[j].key # None}}
<1>1. /\ run' = [k \in Tasks |-> Idle] /\ lapses' = lapses \cup lost
      /\ refused' = refused \cup unsent
      /\ UNCHANGED <<expiry, rows, told, again>>
  BY DEF Crash
<1>2. \A k \in Tasks : run[k] \in Run
  BY DEF TasksTypeOK
<1>3. lost \subseteq Keys
  BY <1>2 DEF KeyIsOwn, Mailing, Run
<1>4. unsent \subseteq Keys \X People
  <2> SUFFICES ASSUME NEW k \in Tasks, run[k].key # None
               PROVE  {run[k].key} \X run[k].left \subseteq Keys \X People
    OBVIOUS
  <2>1. run[k].key \in Keys /\ run[k].left \subseteq People
    BY <1>2 DEF Run
  <2> QED
    BY <2>1
<1>5. \A k \in Tasks : run'[k].pc = "idle" /\ run'[k].key = None
  BY <1>1, IdleIsTyped
<1>6. \A k \in Tasks : run[k].pc = "record" => run[k].key \in lapses'
  BY <1>1
<1>7. \A k \in Tasks : \A a : run[k].key # None /\ a \in run[k].left
                          => <<run[k].key, a>> \in refused'
  <2> SUFFICES ASSUME NEW k \in Tasks, NEW a, run[k].key # None, a \in run[k].left
               PROVE  <<run[k].key, a>> \in unsent
    BY <1>1
  <2>1. <<run[k].key, a>> \in {run[k].key} \X run[k].left
    OBVIOUS
  <2> QED
    BY <2>1
<1>8. TasksTypeOK'
  <2>1. run' \in [Tasks -> Run]
    BY <1>1, IdleIsTyped
  <2> QED
    BY <1>1, <1>3, <1>4, <2>1 DEF TasksTypeOK
<1>9. lapses \subseteq lapses' /\ refused \subseteq refused'
  BY <1>1
<1> HIDE DEF lost, unsent
<1>10. KeyIsOwn' /\ LeftIsNew' /\ NobodyIsForgotten' /\ RecordIsTold'
  BY <1>5 DEF KeyIsOwn, Mailing, LeftIsNew, NobodyIsForgotten, RecordIsTold
<1>11. ToldIsKept'
  <2> SUFFICES ASSUME NEW r \in told PROVE r[1] \in rows \cup lapses'
    BY <1>1 DEF ToldIsKept
  <2>1. r[1][1] \in Tasks
    BY KeyFields DEF TasksTypeOK
  <2> QED
    BY <1>6, <1>9, <2>1 DEF ToldIsKept
<1>12. RowAccountsForAll'
  <2> SUFFICES ASSUME NEW row \in rows
               PROVE  /\ \E a \in People : <<row, a>> \in told
                      /\ \A a \in Concerned(row) : <<row, a>> \in told \cup refused'
    BY <1>1 DEF RowAccountsForAll
  <2>1. row[1] \in Tasks /\ row # None
    BY KeyFields DEF TasksTypeOK
  <2> QED
    BY <1>7, <1>9, <2>1 DEF RowAccountsForAll
<1>13. RemindedOnce'
  BY <1>1, <1>9 DEF RemindedOnce
<1> QED
  BY <1>8, <1>10, <1>11, <1>12, <1>13

(***************************************************************************)
(* Edits of expiries, and all that happens outside the runs.               *)
(***************************************************************************)
LEMMA EditKeeps ==
  ASSUME TasksInv, UNCHANGED <<rows, run, history>>,
         expiry' \in [Users -> [Sources -> Expiry \cup {None}]]
  PROVE  TasksInv'
<1>1. UNCHANGED <<rows, run, told, again, lapses, refused>>
  BY DEF history
<1> QED
  BY <1>1 DEF TasksInv, TasksTypeOK, KeyIsOwn, Mailing, ToldIsKept, LeftIsNew,
              NobodyIsForgotten, Reached, RecordIsTold, RemindedOnce, RowAccountsForAll

LEMMA ExpiryKeeps ==
  ASSUME IInv, NEW u \in Users, NEW s \in Sources, MoveExpiry(u, s) \/ TimePasses(u, s)
  PROVE  IInv'
<1>1. PICK e \in Expiry \cup {None} : SetExpiry(u, s, e)
  <2>1. CASE MoveExpiry(u, s)
    BY <2>1, RemindersAssumption DEF MoveExpiry, Expiry
  <2>2. CASE TimePasses(u, s)
    <3>1. expiry[u][s] \in Expiry /\ expiry[u][s].left < Past
      BY <2>2 DEF TimePasses, IInv, TasksInv, TasksTypeOK
    <3>2. [expiry[u][s] EXCEPT !.left = @ + 1] \in Expiry
      BY <3>1 DEF Expiry, Past
    <3> QED
      BY <2>2, <3>2 DEF TimePasses
  <2> QED
    BY <2>1, <2>2
<1>2. /\ changes < MaxChanges /\ changes' = changes + 1
      /\ expiry' = [expiry EXCEPT ![u][s] = e]
      /\ UNCHANGED <<menu, overlay, names, cache, inflight, verdict, ask, test, entry, since>>
      /\ UNCHANGED <<rows, run, history>>
  BY <1>1 DEF SetExpiry, selftest
<1>3. expiry' \in [Users -> [Sources -> Expiry \cup {None}]]
  BY <1>2 DEF IInv, TasksInv, TasksTypeOK
<1>4. TasksInv'
  BY <1>2, <1>3, EditKeeps DEF IInv
<1>5. changes' \in 0..MaxChanges
  BY <1>2, ProbeAssumption DEF IInv, ProbeInv, ProbeTypeOK
<1>6. ProbeTypeOK'
  BY <1>2, <1>5 DEF IInv, ProbeInv, ProbeTypeOK
<1> QED
  BY <1>2, <1>4, <1>6, ProbeUnmoved DEF IInv

-----------------------------------------------------------------------------
(* One step of a run *)

LEMMA ProbeStutters ==
  ASSUME ProbeInv, UNCHANGED probeVars PROVE ProbeInv'
  BY DEF probeVars, ProbeInv, ProbeTypeOK, FoundSoFar, Cached, Holds

\* A step of the run alone, to where it mails nothing.
LEMMA OnlyKeeps ==
  ASSUME IInv, NEW k \in Tasks, NEW new \in Run, Only(k, new),
         new.key = None, new.pc \notin {"send", "record"},
         ~Mailing(k) \/ (run[k].pc = "send" /\ run[k].left = {})
  PROVE  IInv'
  BY QuietStep, ProbeStutters DEF Only, IInv

LEMMA QuietPlaces ==
  ASSUME IInv, NEW k \in Tasks
  PROVE  /\ \A pc \in {"answer", "list", "prepare", "next"} :
              ~Mailing(k) => To(k, pc) \in Run /\ To(k, pc).key = None /\ To(k, pc).pc = pc
         /\ \A u \in Users : LET new == Drop(k, u) IN
              new \in Run /\ new.key = None /\ new.pc = "next"
<1>1. run[k] \in Run /\ (~Mailing(k) => run[k].key = None)
  BY DEF IInv, TasksInv, TasksTypeOK, KeyIsOwn
<1>2. \A pc \in {"answer", "list", "prepare", "next"} :
        ~Mailing(k) => To(k, pc) \in Run /\ To(k, pc).key = None /\ To(k, pc).pc = pc
  BY <1>1 DEF To, Run
<1>3. ASSUME NEW u \in Users
      PROVE  Drop(k, u) \in Run /\ Drop(k, u).key = None /\ Drop(k, u).pc = "next"
  BY <1>1 DEF Drop, To, Run
<1> QED
  BY <1>2, <1>3

LEMMA BeginningKeeps ==
  ASSUME IInv, NEW k \in Tasks,
         \/ StartTask(k) \/ CompleteTask(k) \/ ListUsers(k)
         \/ k = AccountTask /\ (TakeCapabilities \/ getAdminEmails)
         \/ k = PasswordTask /\ ListPasswordPolicies
  PROVE  IInv'
<1>1. run[k] \in Run
  BY DEF IInv, TasksInv, TasksTypeOK
<1>2. PICK new \in Run : /\ Only(k, new) /\ new.key = None
                         /\ new.pc \notin {"send", "record"} /\ ~Mailing(k)
  <2>1. CASE StartTask(k)
    <3>1. \A pc \in {"capabilities", "list"} :
            LET new == [Idle EXCEPT !.pc = pc]
            IN new \in Run /\ new.key = None /\ new.pc = pc
      BY IdleIsTyped DEF Run
    <3> QED
      BY <2>1, <3>1 DEF StartTask, Mailing
  <2>2. CASE CompleteTask(k)
    BY <2>2, IdleIsTyped DEF CompleteTask, Mailing
  <2>3. CASE ListUsers(k)
    <3>1. run[k].pc = "list" /\ ~Mailing(k)
      BY <2>3 DEF ListUsers, Mailing
    <3>2. To(k, "prepare") \in Run /\ To(k, "prepare").key = None /\ To(k, "prepare").pc = "prepare"
      BY <3>1, QuietPlaces
    <3>3. LET new == [To(k, "prepare") EXCEPT !.listed = expiry, !.todo = Users]
          IN new \in Run /\ new.key = None /\ new.pc = "prepare"
      BY <3>2 DEF IInv, TasksInv, TasksTypeOK, Run
    <3> QED
      BY <2>3, <3>1, <3>3, IdleIsTyped DEF ListUsers
  <2>4. CASE k = AccountTask /\ TakeCapabilities
    <3>1. run[k].pc = "answer" /\ ~Mailing(k)
      BY <2>4 DEF TakeCapabilities, Mailing
    <3>2. To(k, "list") \in Run /\ To(k, "list").key = None /\ To(k, "list").pc = "list"
      BY <3>1, QuietPlaces
    <3> QED
      BY <2>4, <3>1, <3>2, IdleIsTyped DEF TakeCapabilities
  <2>5. CASE k = AccountTask /\ getAdminEmails
    <3>1. run[k].pc = "prepare" /\ ~Mailing(k)
      BY <2>5 DEF getAdminEmails, Mailing
    <3>2. To(k, "next") \in Run /\ To(k, "next").key = None /\ To(k, "next").pc = "next"
      BY <3>1, QuietPlaces
    <3>3. \A to \in SUBSET Admins :
            LET new == [To(k, "next") EXCEPT !.to = to]
            IN new \in Run /\ new.key = None /\ new.pc = "next"
      BY <3>2 DEF Run
    <3>4. \E to \in SUBSET Admins :
            Only(k, IF to = {} THEN Idle ELSE [To(k, "next") EXCEPT !.to = to])
      BY <2>5 DEF getAdminEmails
    <3> QED
      BY <3>1, <3>3, <3>4, IdleIsTyped
  <2>6. CASE k = PasswordTask /\ ListPasswordPolicies
    <3>1. run[k].pc = "prepare" /\ ~Mailing(k)
      BY <2>6 DEF ListPasswordPolicies, Mailing
    <3>2. To(k, "next") \in Run /\ To(k, "next").key = None /\ To(k, "next").pc = "next"
      BY <3>1, QuietPlaces
    <3>3. \A ok \in BOOLEAN :
            LET new == [To(k, "next") EXCEPT !.policies = ok]
            IN new \in Run /\ new.key = None /\ new.pc = "next"
      BY <3>2 DEF Run
    <3>4. \E ok \in BOOLEAN : Only(k, [To(k, "next") EXCEPT !.policies = ok])
      BY <2>6 DEF ListPasswordPolicies
    <3> QED
      BY <3>1, <3>3, <3>4
  <2> QED
    BY <2>1, <2>2, <2>3, <2>4, <2>5, <2>6
<1> QED
  BY <1>2, OnlyKeeps

LEMMA DroppingKeeps ==
  ASSUME IInv, NEW k \in Tasks, FinishUser(k) \/ \E u \in Users : SkipUser(k, u)
  PROVE  IInv'
<1>1. CASE FinishUser(k)
  <2>1. run[k] \in Run /\ run[k].pc = "send" /\ run[k].left = {}
        /\ Only(k, Drop(k, run[k].key[2]))
    BY <1>1 DEF FinishUser, IInv, TasksInv, TasksTypeOK
  <2>2. run[k].key[2] \in Users
    BY <2>1, KeyFields DEF IInv, TasksInv, KeyIsOwn, Mailing, Run
  <2> QED
    BY <2>1, <2>2, QuietPlaces, OnlyKeeps
<1>2. CASE \E u \in Users : SkipUser(k, u)
  <2>1. PICK u \in Users : SkipUser(k, u)
    BY <1>2
  <2>2. ~Mailing(k) /\ Only(k, Drop(k, u))
    BY <2>1 DEF SkipUser, Mailing
  <2> QED
    BY <2>2, QuietPlaces, OnlyKeeps
<1> QED
  BY <1>1, <1>2

LEMMA AskingKeeps ==
  ASSUME IInv, AskCapabilities \/ AwaitCapabilities PROVE IInv'
<1>1. AccountTask \in Callers /\ AccountTask \in Tasks
  BY RemindersAssumption DEF Tasks
<1>2. CASE AskCapabilities
  <2>1. ProbeInv'
    BY <1>1, <1>2, CapabilitiesKeep DEF AskCapabilities, Capabilities, IInv
  <2>2. ~Mailing(AccountTask) /\ RunGoes(AccountTask, To(AccountTask, "answer"))
        /\ UNCHANGED <<expiry, rows, history>>
    BY <1>2 DEF AskCapabilities, Mailing
  <2>3. LET new == To(AccountTask, "answer")
        IN new \in Run /\ new.key = None /\ new.pc = "answer"
    BY <1>1, <2>2, QuietPlaces
  <2>4. TasksInv'
    BY <1>1, <2>2, <2>3, QuietStep DEF IInv
  <2> QED
    BY <2>1, <2>4 DEF IInv
<1>3. CASE AwaitCapabilities
  <2>1. ProbeInv'
    BY <1>1, <1>3, CapabilitiesKeep DEF AwaitCapabilities, IInv
  <2>2. UNCHANGED <<expiry, rows, run, history>>
    BY <1>3 DEF AwaitCapabilities, reminderVars, history
  <2> QED
    BY <2>1, <2>2, EditKeeps DEF IInv, TasksInv, TasksTypeOK
<1> QED
  BY <1>2, <1>3

LEMMA MailingKeeps ==
  ASSUME IInv, NEW k \in Tasks,
         \/ \E u \in Users : NotifyUser(k, u)
         \/ \E a \in People : SendNotification(k, a)
         \/ RecordNotification(k)
  PROVE  IInv'
<1>1. TasksInv'
  BY NotifyKeeps, SendKeeps, RecordKeeps DEF IInv
<1>2. UNCHANGED probeVars
  BY DEF NotifyUser, SendNotification, RecordNotification
<1> QED
  BY <1>1, <1>2, ProbeStutters DEF IInv

-----------------------------------------------------------------------------
(* The invariant *)

LEMMA InitHolds == Init => IInv
  BY ProbeStarts, TasksStart DEF Init, IInv

LEMMA StepKeeps ==
  ASSUME IInv, [Next]_vars PROVE IInv'
<1>1. CASE UNCHANGED vars
  <2>1. UNCHANGED <<probeVars, expiry, rows, run, history>>
    BY <1>1 DEF vars, reminderVars, history
  <2> QED
    BY <2>1, ProbeStutters, EditKeeps DEF IInv, TasksInv, TasksTypeOK
<1>2. CASE ProbeNext /\ UNCHANGED reminderVars
  <2>1. UNCHANGED <<expiry, rows, run, history>>
    BY <1>2 DEF reminderVars, history
  <2> QED
    BY <1>2, <2>1, ProbeNextKeeps, EditKeeps DEF IInv, TasksInv, TasksTypeOK
<1>3. CASE \E u \in Users, s \in Sources : MoveExpiry(u, s) \/ TimePasses(u, s)
  BY <1>3, ExpiryKeeps
<1>4. CASE \E k \in Tasks : StartTask(k) \/ RunStep(k)
  BY <1>4, BeginningKeeps, DroppingKeeps, AskingKeeps, MailingKeeps DEF RunStep
<1>5. CASE Crash
  BY <1>5, CrashKeeps, RestartKeeps DEF Crash, IInv
<1> QED
  BY <1>1, <1>2, <1>3, <1>4, <1>5 DEF Next

\* Every behaviour of the probe and the tasks, with every failure, keeps IInv.
THEOREM Invariance == Spec => []IInv
<1>1. Init => IInv
  BY InitHolds
<1>2. IInv /\ [Next]_vars => IInv'
  BY StepKeeps
<1> QED
  BY <1>1, <1>2, PTL DEF Spec

\* RemindedOnce: nobody is reminded of the same thing twice while the table knows
\* of the first time (account_expiration.go, wasNotificationSent).
THEOREM RemindedOnceAlways == Spec => []RemindedOnce
<1>1. IInv => RemindedOnce
  BY DEF IInv, TasksInv
<1> QED
  BY <1>1, Invariance, PTL

\* RowAccountsForAll: the row that keeps later runs from writing stands for everyone
\* concerned (recordNotification, after the first administrator was written to).
THEOREM RowAccountsForAllAlways == Spec => []RowAccountsForAll
<1>1. IInv => RowAccountsForAll
  BY DEF IInv, TasksInv
<1> QED
  BY <1>1, Invariance, PTL

\* AnswerIsFresh: what is cached was true at some instant since the last reset
\* (capabilities.go, RefreshCapabilities), however probes, resets and self-tests fall.
THEOREM AnswerIsFreshAlways == Spec => []AnswerIsFresh
<1>1. IInv => AnswerIsFresh
  BY CachedIsFresh DEF IInv, ProbeInv
<1> QED
  BY <1>1, Invariance, PTL
=============================================================================
