--------------------------- MODULE CapabilityProbe ---------------------------
(***************************************************************************)
(* What the directory supports, as one server process knows it.            *)
(*                                                                         *)
(* ldap/capabilities.go asks the directory on first use and keeps the      *)
(* answer.  The searches run without the mutex; who arrives meanwhile      *)
(* waits on the channel of the probe in flight, and looks again when it    *)
(* is closed.  A reset only clears the flag, so a probe in flight at the   *)
(* reset publishes what it found before.  A search that fails counts as    *)
(* "no", and that is kept as well.                                         *)
(*                                                                         *)
(* ldap/policy_selftest.go finds out by experiment whether a lock refuses  *)
(* a bind, on an entry of its own whose DN is fixed, and leaves a verdict  *)
(* for the probes to come.                                                 *)
(*                                                                         *)
(* History only, read by no guard: since, and the fields failed            *)
(* and overtaken.                                                          *)
(***************************************************************************)
EXTENDS Naturals, FiniteSets

CONSTANTS
  Callers,     \* goroutines that ask for the capabilities
  Tests,       \* requests that run the self-test
  None,        \* "no value"
  Starts,      \* where behaviours start: what may happen, and the directory
  MaxChanges   \* how often directory and clock move (a bound)

AllOps == {"ask", "refresh", "reconfigure", "selftest", "time",
           "entry", "policy", "shadow", "users_expiration", "passwords_expiration"}
\* "config": cn=config can be read with the bind identity.
Settings == {"config"}
AllFaults == {"search", "call", "lost", "listing", "recipients", "mail", "database", "crash"}

Names == {"pwdEndTime", "nisNetgroup"}
Overlays == {"absent", "loaded", "default"}

ASSUME ProbeAssumption ==
  /\ MaxChanges \in Nat
  /\ Starts \subseteq [menu : SUBSET (AllOps \cup AllFaults \cup Settings),
                      overlay : Overlays, names : SUBSET Names,
                      changes : 0..MaxChanges]
  /\ None \notin Callers /\ None \notin Tests
  /\ None \notin {"enforced", "not-enforced", "unknown"}

VARIABLES
  menu,       \* what may happen in this behaviour
  overlay,    \* ppolicy in the directory: absent, loaded, or with a default policy
  names,      \* which of the names asked for its schema declares
  changes,    \* how often directory and clock have moved
  cache,      \* capProbed, caps
  inflight,   \* capProbing: whose probe is running
  verdict,    \* what the last self-test observed
  ask,        \* ask[c]: the call of Capabilities c is in
  test,       \* test[t]: the self-test t runs
  entry,      \* the self-test's entry: the test that created it, or None
  since       \* history: the schemas there have been since the last reset

probeVars == <<menu, overlay, names, changes, cache, inflight, verdict, ask, test,
               entry, since>>
directory == <<menu, overlay, names, changes>>
selftest == <<test, entry>>

Enforcement == {"enforced", "not-enforced", "unknown"}

\* What a probe found; failed are the names whose search was refused, overtaken
\* says that a reset came while it ran.
Caps == [enforcement : Enforcement, names : SUBSET Names,
         failed : SUBSET Names, overtaken : BOOLEAN]
Nothing == [enforcement |-> "unknown", names |-> {}, failed |-> {}, overtaken |-> FALSE]

Ask == [pc : {"idle", "wait", "look", "enforcement", "expiry", "netgroups", "publish"},
        caps : Caps]        \* found so far; once idle, the answer
Test == [pc : {"idle", "add", "password", "control", "lock", "bind", "delete", "record"},
         result : Enforcement]

ProbeTypeOK ==
  /\ menu \subseteq AllOps \cup AllFaults \cup Settings
  /\ overlay \in Overlays /\ names \subseteq Names
  /\ changes \in 0..MaxChanges
  /\ cache \in [probed : BOOLEAN, caps : Caps]
  /\ inflight \in Callers \cup {None}
  /\ verdict \in Enforcement \cup {None}
  /\ ask \in [Callers -> Ask]
  /\ test \in [Tests -> Test]
  /\ entry \in Tests \cup {None}
  /\ since \subseteq SUBSET Names

ProbeInit ==
  /\ \E start \in Starts :
       /\ menu = start.menu /\ changes = start.changes
       /\ overlay = start.overlay /\ names = start.names
  /\ cache = [probed |-> FALSE, caps |-> Nothing]
  /\ inflight = None /\ verdict = None
  /\ ask = [c \in Callers |-> [pc |-> "idle", caps |-> Nothing]]
  /\ test = [t \in Tests |-> [pc |-> "idle", result |-> "unknown"]]
  /\ entry = None
  /\ since = {names}

-----------------------------------------------------------------------------
(* Capabilities *)

Probing == {"enforcement", "expiry", "netgroups", "publish"}

AskGoes(c, pc, caps) == ask' = [ask EXCEPT ![c] = [pc |-> pc, caps |-> caps]]

\* Under the mutex: the cached answer, a probe to wait for, or one's own probe.
Look(c) ==
  /\ ask[c].pc \in {"idle", "look"}
  /\ \/ /\ cache.probed
        /\ AskGoes(c, "idle", cache.caps)
        /\ UNCHANGED inflight
     \/ /\ ~cache.probed /\ inflight # None
        /\ AskGoes(c, "wait", Nothing)
        /\ UNCHANGED inflight
     \/ /\ ~cache.probed /\ inflight = None
        /\ AskGoes(c, "enforcement", Nothing)
        /\ inflight' = c
  /\ UNCHANGED <<directory, cache, verdict, selftest, since>>

Found(c, from, to, caps) ==
  /\ ask[c].pc = from
  /\ AskGoes(c, to, caps)
  /\ UNCHANGED <<directory, cache, inflight, verdict, selftest, since>>

\* A search cn=config refuses is like one with no overlay to find.
Configured ==
  CASE "config" \notin menu \/ overlay = "absent" -> "unknown"
    [] "config" \in menu /\ overlay = "loaded" -> "not-enforced"
    [] "config" \in menu /\ overlay = "default" -> "enforced"

probePolicyEnforcement(c) ==
  \/ Found(c, "enforcement", "expiry", [ask[c].caps EXCEPT !.enforcement = Configured])
  \/ "search" \in menu /\ Found(c, "enforcement", "expiry", ask[c].caps)

schemaDeclares(c, name, from, to) ==
  \/ Found(c, from, to, [ask[c].caps EXCEPT !.names = @ \cup (names \cap {name})])
  \/ "search" \in menu /\ Found(c, from, to, [ask[c].caps EXCEPT !.failed = @ \cup {name}])

hasAttributeType(c) == schemaDeclares(c, "pwdEndTime", "expiry", "netgroups")
hasObjectClass(c) == schemaDeclares(c, "nisNetgroup", "netgroups", "publish")

\* The caller and, the channel being closed, everyone who waits.
Release(c, caps) ==
  ask' = [d \in Callers |->
            IF d = c THEN [pc |-> "idle", caps |-> caps]
            ELSE IF ask[d].pc = "wait" THEN [ask[d] EXCEPT !.pc = "look"] ELSE ask[d]]

\* Mutant: as if the channel were not closed.
PublishQuietly(c) ==
  /\ ask[c].pc = "publish"
  /\ cache' = [probed |-> TRUE, caps |-> ask[c].caps]
  /\ inflight' = None
  /\ AskGoes(c, "idle", ask[c].caps)
  /\ UNCHANGED <<directory, verdict, selftest, since>>

\* A verdict stands in for "unknown", never for what the configuration says.
Publish(c) ==
  LET caps == IF ask[c].caps.enforcement = "unknown" /\ verdict # None
              THEN [ask[c].caps EXCEPT !.enforcement = verdict] ELSE ask[c].caps
  IN /\ ask[c].pc = "publish"
     /\ cache' = [probed |-> TRUE, caps |-> caps]
     /\ inflight' = None
     /\ Release(c, caps)
     /\ UNCHANGED <<directory, verdict, selftest, since>>

Capabilities(c) ==
  \/ Look(c) \/ probePolicyEnforcement(c) \/ hasAttributeType(c) \/ hasObjectClass(c)
  \/ Publish(c)

-----------------------------------------------------------------------------
(* Resets *)

\* Mutant: as if only an answer that leaves something open were forgotten.
ForgetUnknown ==
  /\ cache' = [cache EXCEPT !.probed = @ /\ cache.caps.enforcement # "unknown"]
  /\ ask' = [c \in Callers |->
               IF ask[c].pc \in Probing THEN [ask[c] EXCEPT !.caps.overtaken = TRUE]
               ELSE ask[c]]
  /\ since' = {names}
  /\ UNCHANGED inflight

\* capProbed is cleared, whatever probe is in flight.
Forget ==
  /\ cache' = [cache EXCEPT !.probed = FALSE]
  /\ ask' = [c \in Callers |->
               IF ask[c].pc \in Probing THEN [ask[c] EXCEPT !.caps.overtaken = TRUE]
               ELSE ask[c]]
  /\ since' = {names}
  /\ UNCHANGED inflight

RefreshCapabilities ==
  /\ "refresh" \in menu
  /\ Forget
  /\ UNCHANGED <<directory, verdict, selftest>>

\* An administrator of the directory loads a module, sets or drops a policy.
Reconfigure ==
  /\ "reconfigure" \in menu
  /\ changes < MaxChanges /\ changes' = changes + 1
  /\ \/ overlay' \in Overlays \ {overlay} /\ UNCHANGED names
     \/ \E n \in Names : names' = (names \cup {n}) \ (names \cap {n}) /\ UNCHANGED overlay
  /\ since' = since \cup {names'}
  /\ UNCHANGED <<menu, cache, inflight, verdict, ask, selftest>>

-----------------------------------------------------------------------------
(* The self-test *)

TestGoes(t, pc, result) == test' = [test EXCEPT ![t] = [pc |-> pc, result |-> result]]
TestStops(t) == TestGoes(t, "idle", "unknown")

idleProbe == <<directory, cache, inflight, verdict, ask, since>>

\* An entry that is found is somebody else's; a look that fails finds none.
BeginTest(t) ==
  /\ "selftest" \in menu /\ test[t].pc = "idle"
  /\ entry = None \/ "call" \in menu
  /\ TestGoes(t, "add", "unknown")
  /\ UNCHANGED <<entry, idleProbe>>

\* The directory refuses an entry that exists.  Nothing removes the entry when
\* the answer is lost: the test believes it has created none.
AddEntry(t) ==
  /\ test[t].pc = "add"
  /\ \/ /\ entry = None /\ entry' = t
        /\ TestGoes(t, "password", "unknown")
     \/ /\ entry = None /\ "lost" \in menu /\ entry' = t
        /\ TestStops(t)
     \/ /\ entry # None \/ "call" \in menu
        /\ TestStops(t) /\ UNCHANGED entry
  /\ UNCHANGED idleProbe

Experiment(t, from, to, result) ==
  /\ test[t].pc = from
  /\ TestGoes(t, to, result)
  /\ UNCHANGED <<entry, idleProbe>>

SetPassword(t) ==
  \/ Experiment(t, "password", "control", "unknown")
  \/ "call" \in menu /\ Experiment(t, "password", "delete", "unknown")

\* Unlocked, the entry must be able to bind, or the test proves nothing.
BindControl(t) ==
  \/ Experiment(t, "control", "lock", "unknown")
  \/ "call" \in menu /\ Experiment(t, "control", "delete", "unknown")

\* Any failure to write the attribute is taken for a missing overlay.
WriteLock(t) ==
  \/ overlay # "absent" /\ Experiment(t, "lock", "bind", "unknown")
  \/ /\ overlay = "absent" \/ "call" \in menu
     /\ Experiment(t, "lock", "delete", "not-enforced")

\* Any failure to bind is taken for a refusal.
BindLocked(t) ==
  \/ /\ overlay = "default" \/ "call" \in menu
     /\ Experiment(t, "bind", "delete", "enforced")
  \/ overlay # "default" /\ Experiment(t, "bind", "delete", "not-enforced")

\* CleanedUp: the one failure that is reported (an answer that is lost too, with
\* no entry left).
DeleteEntry(t) ==
  /\ test[t].pc = "delete"
  /\ \/ entry' = None
     \/ "call" \in menu /\ UNCHANGED entry
  /\ TestGoes(t, "record", test[t].result)
  /\ UNCHANGED idleProbe

\* A test without a conclusion replaces an earlier verdict by "unknown".
RecordEnforcementVerdict(t) ==
  /\ test[t].pc = "record"
  /\ verdict' = test[t].result
  /\ TestStops(t)
  /\ Forget
  /\ UNCHANGED <<directory, entry>>

TestPolicyEnforcement(t) ==
  \/ BeginTest(t) \/ AddEntry(t) \/ SetPassword(t) \/ BindControl(t)
  \/ WriteLock(t) \/ BindLocked(t) \/ DeleteEntry(t) \/ RecordEnforcementVerdict(t)

\* The operator follows the message of the refusal: no other run is in progress.
RemoveLeftover ==
  /\ entry # None /\ \A t \in Tests : test[t].pc = "idle"
  /\ entry' = None
  /\ UNCHANGED <<test, idleProbe>>

-----------------------------------------------------------------------------

\* The process starts again: everything it kept in memory is gone.
Restart ==
  /\ "crash" \in menu
  /\ cache' = [probed |-> FALSE, caps |-> Nothing]
  /\ inflight' = None /\ verdict' = None
  /\ ask' = [c \in Callers |-> [pc |-> "idle", caps |-> Nothing]]
  /\ test' = [t \in Tests |-> [pc |-> "idle", result |-> "unknown"]]
  /\ since' = {names}
  /\ UNCHANGED <<directory, entry>>

-----------------------------------------------------------------------------
(* Properties *)

\* RefreshCapabilities: the next call "asks the directory again".  What is kept is
\* what the schema declared at some instant since the last reset, name by name,
\* unless a search failed or the probe was in flight at the reset.
AnswerIsFresh ==
  cache.probed /\ ~cache.caps.overtaken =>
    \A n \in Names :
      \/ \E schema \in since : n \in schema <=> n \in cache.caps.names
      \/ n \in cache.caps.failed /\ n \notin cache.caps.names

\* Capabilities: the mutex held across the searches once "wedged every later caller
\* for the lifetime of the process".  Nobody waits for ever on another's probe.
NobodyIsWedged == \A c \in Callers : ask[c].pc = "wait" ~> ask[c].pc # "wait"
=============================================================================
