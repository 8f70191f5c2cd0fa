-------------------------- MODULE LockoutScan_proofs --------------------------
(***************************************************************************)
(* What the scan guarantees for any accounts, instants, processes and      *)
(* failures (IInv and its consequences), and, for one process whose lists  *)
(* are whole, that it implements LockoutAlerts.                            *)
(***************************************************************************)
EXTENDS LockoutScan, TLAPS

\* What was ever held, recorded or listed is in the past for good.
PastCovers ==
  /\ Held \subseteq past
  /\ \A e \in Lockouts : Row(e) => e \in past
  /\ \A s \in Scanners : scan[s].listed \subseteq past

\* The mark comes after the mail.
MarkedWasMailed == \A s \in Scanners : At(s, "mark") => scan[s].todo \subseteq told

\* e was recorded: it was or will be audited, or it was or will be mailed.
Known(e) ==
  \/ e \in audited \cup told
  \/ \E s \in Scanners : At(s, "audit") /\ scan[s].at = e
  \/ \E s \in Scanners : scan[s].pc \in {"send", "mark"} /\ e \in scan[s].todo

\* What was recorded is in the table, or was forgotten, or can never be
\* recorded again: this is what makes the insert a test.
KnownIsKept == \A e \in Lockouts : Known(e) => Row(e) \/ e \in forgotten \/ Gone(e)

\* Two processes audit one lockout only when its row was pruned in between.
AuditsApart ==
  \A s, t \in Scanners :
    s # t /\ At(s, "audit") /\ At(t, "audit") /\ scan[s].at = scan[t].at => scan[s].at \in forgotten

\* Two processes send one lockout only when the second read it as pending too.
SendsApart ==
  \A s, t \in Scanners :
    s # t /\ scan[s].pc \in {"send", "mark"} /\ scan[t].pc \in {"send", "mark"} =>
      scan[s].todo \cap scan[t].todo \subseteq resent

\* A row still pending after the mail is about to be marked, or is excused.
ToldIsMarked ==
  \A e \in Lockouts :
    e \in told /\ events[e] = "pending" =>
      \/ e \in forgotten \cup resent
      \/ \E s \in Scanners : At(s, "mark") /\ e \in scan[s].todo

IInv ==
  /\ TypeOK
  /\ PastCovers
  /\ SeenIsAudited
  /\ MarkedWasMailed
  /\ NotifiedWasMailed
  /\ KnownIsKept
  /\ AuditsApart
  /\ AuditedOnce
  /\ SendsApart
  /\ ToldIsMarked
  /\ MailedOnce

-----------------------------------------------------------------------------
LEMMA InitIInv == Init => IInv
  <1> SUFFICES ASSUME Init PROVE IInv
    OBVIOUS
  <1>1. Held = {}
    BY ConstantsAssumption DEF Init, Held, Lockouts
  <1>2. TypeOK
    BY DEF Init, TypeOK, Idle, Scan
  <1>3. PastCovers
    BY <1>1 DEF Init, PastCovers, Row, Idle
  <1>4. SeenIsAudited /\ MarkedWasMailed /\ NotifiedWasMailed
    BY DEF Init, SeenIsAudited, MarkedWasMailed, NotifiedWasMailed, Row, At, Idle
  <1>5. KnownIsKept /\ AuditsApart /\ AuditedOnce /\ SendsApart /\ ToldIsMarked /\ MailedOnce
    BY DEF Init, KnownIsKept, Known, AuditsApart, AuditedOnce, SendsApart, ToldIsMarked,
           MailedOnce, At, Idle
  <1> QED
    BY <1>2, <1>3, <1>4, <1>5 DEF IInv

\* The directory changes no row and no scan; what is gone stays gone.
LEMMA DirectoryFacts ==
  ASSUME TypeOK, Directory
  PROVE  /\ UNCHANGED <<events, scan, audited, unaudited, told, forgotten, resent>>
         /\ lock' \in [Accounts -> Instants \cup {None}]
         /\ past \subseteq past' /\ past' \subseteq Lockouts
         /\ Held' \subseteq Held \cup (past' \ past)
         /\ \A e \in Lockouts : Gone(e) => Gone(e)'
  <1>1. UNCHANGED <<events, scan, audited, unaudited, told, forgotten, resent>>
    BY DEF Directory, LockOut, Lift, history
  <1>2. PICK u \in Accounts : Lift(u) \/ \E i \in Instants : LockOut(u, i)
    BY DEF Directory
  <1>3. /\ lock' \in [Accounts -> Instants \cup {None}]
        /\ past \subseteq past' /\ past' \subseteq Lockouts
        /\ Held' \subseteq Held \cup (past' \ past)
    <2>1. CASE Lift(u)
      BY <2>1, ConstantsAssumption DEF TypeOK, Lift, Held, Lockouts
    <2>2. CASE \E i \in Instants : LockOut(u, i)
      <3>1. PICK i \in Instants : LockOut(u, i)
        BY <2>2
      <3>2. ASSUME NEW e \in Held', e \notin Held PROVE e = <<u, i>>
        BY <3>1, <3>2 DEF TypeOK, LockOut, Held, Lockouts
      <3>3. <<u, i>> \in past' \ past /\ past' \subseteq Lockouts
        BY <3>1 DEF TypeOK, LockOut, Lockouts
      <3> QED
        BY <3>1, <3>2, <3>3 DEF TypeOK, LockOut
    <2> QED
      BY <1>2, <2>1, <2>2
  <1>4. \A e \in Lockouts : Gone(e) => Gone(e)'
    BY <1>1, <1>3 DEF Gone, Reading
  <1> QED
    BY <1>1, <1>3, <1>4

LEMMA DirectoryKeepsIInv ==
  ASSUME IInv, Directory
  PROVE  IInv'
  <1> USE DEF IInv
  <1>1. /\ UNCHANGED <<events, scan, audited, unaudited, told, forgotten, resent>>
        /\ lock' \in [Accounts -> Instants \cup {None}]
        /\ past \subseteq past' /\ past' \subseteq Lockouts
        /\ Held' \subseteq Held \cup (past' \ past)
        /\ \A e \in Lockouts : Gone(e) => Gone(e)'
    BY DirectoryFacts
  <1>2. TypeOK'
    BY <1>1 DEF TypeOK
  <1>3. PastCovers'
    BY <1>1 DEF PastCovers, Row
  <1>4. KnownIsKept'
    BY <1>1 DEF KnownIsKept, Known, At, Row
  <1> QED
    BY <1>1, <1>2, <1>3, <1>4
       DEF SeenIsAudited, MarkedWasMailed, NotifiedWasMailed, AuditsApart, AuditedOnce,
           SendsApart, ToldIsMarked, MailedOnce, Row, At

\* A step of scan s: the directory and the other scans stay, and what is gone
\* stays gone unless s takes it on.
LEMMA ScanStepFacts ==
  ASSUME IInv, NEW s \in Scanners, NEW next \in Scan, scan' = [scan EXCEPT ![s] = next],
         lock' = lock, past' = past, next.listed \subseteq past,
         next.pc \in {"prune", "record", "audit"} =>
           next.todo \cap past \subseteq
             Held \cup (IF scan[s].pc \in {"prune", "record", "audit"} THEN scan[s].todo ELSE {}),
         events' \in [Lockouts -> {"absent", "pending", "notified"}],
         \A e \in Lockouts : events'[e] # "absent" => e \in past
  PROVE  /\ scan'[s] = next /\ \A t \in Scanners \ {s} : scan'[t] = scan[t]
         /\ PastCovers'
         /\ \A e \in Lockouts : Gone(e) => Gone(e)'
  <1> USE DEF IInv
  <1>1. scan'[s] = next /\ \A t \in Scanners \ {s} : scan'[t] = scan[t]
    BY DEF TypeOK
  <1>2. Held' = Held
    BY DEF Held
  <1>3. PastCovers'
    BY <1>1, <1>2 DEF PastCovers, Row
  <1>4. ASSUME NEW e \in Lockouts, Gone(e) PROVE Gone(e)'
    BY <1>1, <1>2, <1>4 DEF Gone, Reading
  <1> QED
    BY <1>1, <1>3, <1>4

With(s, pc, todo) == [scan[s] EXCEPT !.pc = pc, !.todo = todo]

LEMMA WithFacts ==
  ASSUME TypeOK, NEW s \in Scanners, NEW pc \in {"list", "prune", "record", "send", "mark"},
         NEW todo \in SUBSET Lockouts
  PROVE  /\ With(s, pc, todo) \in Scan
         /\ With(s, pc, todo).pc = pc /\ With(s, pc, todo).todo = todo
         /\ With(s, pc, todo).listed = scan[s].listed /\ With(s, pc, todo).at = scan[s].at
         /\ Go(s, pc, todo) => scan' = [scan EXCEPT ![s] = With(s, pc, todo)]
  <1>1. scan[s] \in Scan
    BY DEF TypeOK
  <1>2. Go(s, pc, todo) => scan' = [scan EXCEPT ![s] = With(s, pc, todo)]
    BY DEF Go, With
  <1> QED
    BY <1>1, <1>2 DEF With, Scan

LEMMA IdleFacts == Idle \in Scan /\ Idle.listed = {} /\ Idle.todo = {} /\ Idle.pc = "idle" /\ Idle.at = None
  BY DEF Idle, Scan

LEMMA StartKeepsIInv ==
  ASSUME IInv, NEW s \in Scanners, StartScan(s)
  PROVE  IInv'
  <1> USE DEF IInv
  <1>2. scan[s].at = None
    BY DEF StartScan, At, TypeOK
  <1>3. UNCHANGED <<lock, past, events, audited, unaudited, told, forgotten, resent>>
    BY DEF StartScan, history
  <1> DEFINE next == With(s, "list", {})
  <1> HIDE DEF next
  <1>4. next \in Scan /\ scan' = [scan EXCEPT ![s] = next]
    BY WithFacts DEF StartScan, next
  <1>5. next.pc = "list" /\ next.todo = {} /\ next.at = None /\ next.listed = scan[s].listed
    BY <1>2, WithFacts DEF next
  <1>6. /\ scan'[s] = next /\ \A t \in Scanners \ {s} : scan'[t] = scan[t]
        /\ PastCovers'
        /\ \A e \in Lockouts : Gone(e) => Gone(e)'
    BY <1>3, <1>4, <1>5, ScanStepFacts DEF TypeOK, PastCovers, Row
  <1>7. TypeOK'
    BY <1>3, <1>4, <1>5, <1>6 DEF TypeOK
  <1>8. SeenIsAudited' /\ MarkedWasMailed' /\ NotifiedWasMailed' /\ AuditsApart' /\ AuditedOnce'
    BY <1>3, <1>5, <1>6 DEF SeenIsAudited, MarkedWasMailed, NotifiedWasMailed, AuditsApart,
                            AuditedOnce, Row, At, StartScan
  <1>9. KnownIsKept'
    BY <1>3, <1>5, <1>6 DEF KnownIsKept, Known, Row, At
  <1>10. SendsApart' /\ ToldIsMarked' /\ MailedOnce'
    BY <1>3, <1>5, <1>6 DEF SendsApart, ToldIsMarked, MailedOnce, At, StartScan
  <1> QED
    BY <1>6, <1>7, <1>8, <1>9, <1>10

\* However a scan ends, what it leaves unaudited or unmarked has to be excused.
LEMMA StopKeepsIInv ==
  ASSUME IInv, NEW s \in Scanners, Stop(s),
         UNCHANGED <<lock, past, events, audited, told, forgotten>>,
         unaudited' \in SUBSET Lockouts, unaudited \subseteq unaudited',
         resent' \in SUBSET Lockouts, resent \subseteq resent',
         At(s, "audit") => scan[s].at \in unaudited',
         At(s, "mark") => scan[s].todo \subseteq resent'
  PROVE  IInv'
  <1> USE IdleFacts DEF IInv
  <1>1. scan' = [scan EXCEPT ![s] = Idle]
    BY DEF Stop
  <1>2. /\ scan'[s] = Idle /\ \A t \in Scanners \ {s} : scan'[t] = scan[t]
        /\ PastCovers'
        /\ \A e \in Lockouts : Gone(e) => Gone(e)'
    BY <1>1, ScanStepFacts DEF TypeOK, PastCovers, Row
  <1>3. TypeOK'
    BY <1>1, <1>2 DEF TypeOK
  <1>4. SeenIsAudited'
    <2>1. ASSUME NEW e \in Lockouts, Row(e)'
          PROVE  \/ e \in (audited \cup unaudited)'
                 \/ \E t \in Scanners : At(t, "audit")' /\ scan'[t].at = e
      <3>1. \/ e \in audited \cup unaudited
            \/ \E t \in Scanners : At(t, "audit") /\ scan[t].at = e
        BY <2>1 DEF SeenIsAudited, Row
      <3> QED
        BY <3>1, <1>2 DEF At
    <2> QED
      BY <2>1 DEF SeenIsAudited
  <1>5. MarkedWasMailed' /\ NotifiedWasMailed' /\ AuditsApart' /\ AuditedOnce'
    BY <1>2 DEF MarkedWasMailed, NotifiedWasMailed, AuditsApart, AuditedOnce, At
  <1>6. KnownIsKept'
    BY <1>2 DEF KnownIsKept, Known, Row, At
  <1>7. SendsApart' /\ MailedOnce'
    BY <1>2 DEF SendsApart, MailedOnce, At
  <1>8. ToldIsMarked'
    BY <1>2 DEF ToldIsMarked, At
  <1> QED
    BY <1>2, <1>3, <1>4, <1>5, <1>6, <1>7, <1>8

LEMMA ListKeepsIInv ==
  ASSUME IInv, NEW s \in Scanners, SelfLockedAccounts(s)
  PROVE  IInv'
  <1> USE DEF IInv
  <1>1. UNCHANGED <<lock, past, events, audited, unaudited, told, forgotten, resent>>
    BY DEF SelfLockedAccounts, history
  <1>2. CASE Stop(s)
    BY <1>1, <1>2, StopKeepsIInv DEF SelfLockedAccounts, At, TypeOK
  <1>3. ASSUME NEW some \in SUBSET Held, ToPrune(s, some)
        PROVE  IInv'
    <2> DEFINE next == [pc |-> "prune", listed |-> some, todo |-> some, at |-> None]
    <2>1. /\ next \in Scan /\ next.pc = "prune" /\ next.listed = some
          /\ next.todo = some /\ next.at = None
      BY DEF Scan, Held
    <2>2. scan' = [scan EXCEPT ![s] = next]
      BY <1>3 DEF ToPrune
    <2> HIDE DEF next
    <2>3. /\ scan'[s] = next /\ \A t \in Scanners \ {s} : scan'[t] = scan[t]
          /\ PastCovers'
          /\ \A e \in Lockouts : Gone(e) => Gone(e)'
      BY <1>1, <2>1, <2>2, ScanStepFacts DEF TypeOK, PastCovers, Row
    <2>4. TypeOK'
      BY <1>1, <2>1, <2>2, <2>3 DEF TypeOK
    <2>5. At(s, "list")
      BY DEF SelfLockedAccounts
    <2>6. SeenIsAudited' /\ MarkedWasMailed' /\ NotifiedWasMailed' /\ AuditsApart' /\ AuditedOnce'
      BY <1>1, <2>1, <2>3, <2>5 DEF SeenIsAudited, MarkedWasMailed, NotifiedWasMailed,
                                    AuditsApart, AuditedOnce, Row, At
    <2>7. KnownIsKept'
      BY <1>1, <2>1, <2>3 DEF KnownIsKept, Known, Row, At
    <2>8. SendsApart' /\ ToldIsMarked' /\ MailedOnce'
      BY <1>1, <2>1, <2>3, <2>5 DEF SendsApart, ToldIsMarked, MailedOnce, At
    <2> QED
      BY <2>3, <2>4, <2>6, <2>7, <2>8
  <1> QED
    BY <1>2, <1>3 DEF SelfLockedAccounts

\* A row that goes is one nobody will record again, or becomes forgotten.
LEMMA PruneKeepsIInv ==
  ASSUME IInv, NEW s \in Scanners, PruneLockoutEvents(s)
  PROVE  IInv'
  <1> USE DEF IInv
  <1>1. At(s, "prune") /\ scan[s].at = None /\ scan[s].todo \subseteq Lockouts
    BY DEF PruneLockoutEvents, At, TypeOK, Scan
  <1>2. UNCHANGED <<lock, past, audited, unaudited, told, resent>>
    BY DEF PruneLockoutEvents
  <1> DEFINE next == With(s, "record", scan[s].todo)
  <1> HIDE DEF next
  <1>3. /\ next \in Scan /\ next.pc = "record" /\ next.todo = scan[s].todo
        /\ next.at = None /\ next.listed = scan[s].listed
        /\ scan' = [scan EXCEPT ![s] = next]
    BY <1>1, WithFacts DEF next, PruneLockoutEvents
  <1>4. /\ events' \in [Lockouts -> {"absent", "pending", "notified"}]
        /\ \A e \in Lockouts : events'[e] # "absent" => events'[e] = events[e]
        /\ forgotten \subseteq forgotten' /\ forgotten' \subseteq Lockouts
        /\ \A e \in Lockouts : Row(e) /\ events'[e] = "absent" =>
             e \in forgotten' \/ (e \notin Held /\ ~\E t \in Scanners : Reading(t, e))
    <2>1. CASE UNCHANGED <<events, forgotten>>
      BY <2>1 DEF TypeOK, Row
    <2>2. CASE /\ events' = [e \in Lockouts |->
                              IF e \in scan[s].listed THEN events[e] ELSE "absent"]
               /\ forgotten' = forgotten \cup {e \in Lockouts : Forgets(s, e)}
      <3>1. /\ events' \in [Lockouts -> {"absent", "pending", "notified"}]
            /\ \A e \in Lockouts : events'[e] # "absent" => events'[e] = events[e]
        BY <2>2 DEF TypeOK
      <3>2. ASSUME NEW e \in Lockouts, Row(e), events'[e] = "absent"
            PROVE  e \in forgotten' \/ (e \notin Held /\ ~\E t \in Scanners : Reading(t, e))
        <4>1. e \notin scan[s].listed
          BY <2>2, <3>2 DEF Row
        <4>2. e \in Held \/ (\E t \in Scanners : Reading(t, e)) => Forgets(s, e)
          BY <3>2, <4>1 DEF Forgets
        <4> QED
          BY <2>2, <3>2, <4>2
      <3> QED
        BY <2>2, <3>1, <3>2 DEF TypeOK
    <2> QED
      BY <2>1, <2>2 DEF PruneLockoutEvents
  <1>5. /\ scan'[s] = next /\ \A t \in Scanners \ {s} : scan'[t] = scan[t]
        /\ PastCovers'
        /\ \A e \in Lockouts : Gone(e) => Gone(e)'
    BY <1>1, <1>2, <1>3, <1>4, ScanStepFacts DEF TypeOK, PastCovers, Row, At
  <1>6. TypeOK'
    BY <1>1, <1>2, <1>3, <1>4, <1>5 DEF TypeOK
  <1>7. SeenIsAudited'
    BY <1>1, <1>2, <1>3, <1>4, <1>5 DEF SeenIsAudited, Row, At
  <1>8. MarkedWasMailed' /\ NotifiedWasMailed' /\ AuditsApart' /\ AuditedOnce'
    BY <1>2, <1>3, <1>4, <1>5 DEF MarkedWasMailed, NotifiedWasMailed, AuditsApart, AuditedOnce, At
  <1>9. KnownIsKept'
    <2>1. ASSUME NEW e \in Lockouts, Known(e)'
          PROVE  Row(e)' \/ e \in forgotten' \/ Gone(e)'
      <3>1. Known(e)
        BY <1>2, <1>3, <1>5, <2>1 DEF Known, At
      <3>2. CASE Row(e) /\ events'[e] = "absent"
        BY <1>4, <1>5, <3>2 DEF Gone, PastCovers
      <3> QED
        BY <1>4, <1>5, <3>1, <3>2 DEF KnownIsKept, Row
    <2> QED
      BY <2>1 DEF KnownIsKept
  <1>10. SendsApart' /\ ToldIsMarked' /\ MailedOnce'
    BY <1>1, <1>2, <1>3, <1>4, <1>5 DEF SendsApart, ToldIsMarked, MailedOnce, At
  <1> QED
    BY <1>5, <1>6, <1>7, <1>8, <1>9, <1>10

\* A scan that created the row is the first to audit it.
LEMMA RecordKeepsIInv ==
  ASSUME IInv, NEW s \in Scanners, NEW e \in Lockouts, RecordLockoutSeen(s, e)
  PROVE  IInv'
  <1> USE DEF IInv
  <1>1. At(s, "record") /\ e \in scan[s].todo /\ scan[s].at = None
        /\ scan[s].todo \subseteq Lockouts /\ Reading(s, e) /\ ~Gone(e) /\ e \in past
    BY DEF RecordLockoutSeen, At, TypeOK, Scan, Reading, Gone, PastCovers
  <1>2. UNCHANGED <<lock, past, audited, told, forgotten, resent>>
    BY DEF RecordLockoutSeen
  <1>3. CASE Stop(s) /\ UNCHANGED <<events, unaudited>>
    BY <1>1, <1>2, <1>3, StopKeepsIInv DEF At, TypeOK
  <1>4. CASE Row(e) /\ Go(s, "record", scan[s].todo \ {e}) /\ UNCHANGED <<events, unaudited>>
    <2> DEFINE next == With(s, "record", scan[s].todo \ {e})
    <2> HIDE DEF next
    <2>1. /\ next \in Scan /\ next.pc = "record" /\ next.todo = scan[s].todo \ {e}
          /\ next.at = None /\ next.listed = scan[s].listed
          /\ scan' = [scan EXCEPT ![s] = next]
      BY <1>1, <1>4, WithFacts DEF next
    <2>2. /\ scan'[s] = next /\ \A t \in Scanners \ {s} : scan'[t] = scan[t]
          /\ PastCovers'
          /\ \A f \in Lockouts : Gone(f) => Gone(f)'
      BY <1>1, <1>2, <1>4, <2>1, ScanStepFacts DEF TypeOK, PastCovers, Row, At
    <2>3. TypeOK'
      BY <1>2, <1>4, <2>1, <2>2 DEF TypeOK
    <2>4. SeenIsAudited' /\ MarkedWasMailed' /\ NotifiedWasMailed' /\ AuditsApart' /\ AuditedOnce'
      BY <1>1, <1>2, <1>4, <2>1, <2>2 DEF SeenIsAudited, MarkedWasMailed, NotifiedWasMailed,
                                          AuditsApart, AuditedOnce, Row, At
    <2>5. KnownIsKept'
      BY <1>2, <1>4, <2>1, <2>2 DEF KnownIsKept, Known, Row, At
    <2>6. SendsApart' /\ ToldIsMarked' /\ MailedOnce'
      BY <1>1, <1>2, <1>4, <2>1, <2>2 DEF SendsApart, ToldIsMarked, MailedOnce, At
    <2> QED
      BY <2>2, <2>3, <2>4, <2>5, <2>6
  <1>5. ASSUME ~Row(e), events' = [events EXCEPT ![e] = "pending"],
               NEW next \in Scan, scan' = [scan EXCEPT ![s] = next],
               next.todo \subseteq next.listed, next.todo \subseteq scan[s].todo,
               next.listed \subseteq scan[s].listed,
               \/ next.pc = "audit" /\ next.at = e /\ unaudited' = unaudited
               \/ next.pc = "idle" /\ next.at = None /\ unaudited' = unaudited \cup {e}
        PROVE  IInv'
    <2>1. /\ events' \in [Lockouts -> {"absent", "pending", "notified"}]
          /\ events'[e] = "pending" /\ \A f \in Lockouts \ {e} : events'[f] = events[f]
      BY <1>5 DEF TypeOK
    <2>2. /\ scan'[s] = next /\ \A t \in Scanners \ {s} : scan'[t] = scan[t]
          /\ PastCovers'
          /\ \A f \in Lockouts : Gone(f) => Gone(f)'
      <3>1. \A f \in Lockouts : events'[f] # "absent" => f \in past
        BY <1>1, <2>1 DEF PastCovers, Row
      <3>2. next.listed \subseteq past
        BY <1>5 DEF PastCovers
      <3> QED
        BY <1>1, <1>2, <1>5, <2>1, <3>1, <3>2, ScanStepFacts DEF At
    <2>3. TypeOK'
      BY <1>1, <1>2, <1>5, <2>1, <2>2, ConstantsAssumption DEF TypeOK
    <2>4. SeenIsAudited'
      BY <1>1, <1>2, <1>5, <2>1, <2>2 DEF SeenIsAudited, Row, At
    <2>5. MarkedWasMailed' /\ NotifiedWasMailed'
      BY <1>2, <1>5, <2>1, <2>2 DEF MarkedWasMailed, NotifiedWasMailed, At
    <2>6. Known(e) => e \in forgotten
      BY <1>1, <1>5 DEF KnownIsKept
    <2>7. AuditsApart' /\ AuditedOnce'
      BY <1>2, <1>5, <2>2, <2>6 DEF AuditsApart, AuditedOnce, Known, At
    <2>8. KnownIsKept'
      <3>1. ASSUME NEW f \in Lockouts, f # e, Known(f)' PROVE Known(f)
        BY <1>2, <1>5, <2>2, <3>1 DEF Known, At
      <3> QED
        BY <1>2, <2>1, <2>2, <3>1 DEF KnownIsKept, Row
    <2>9. SendsApart' /\ ToldIsMarked' /\ MailedOnce'
      BY <1>1, <1>2, <1>5, <2>1, <2>2, <2>6 DEF SendsApart, ToldIsMarked, MailedOnce, Known, At
    <2> QED
      BY <2>2, <2>3, <2>4, <2>5, <2>7, <2>8, <2>9
  <1>6. CASE ~Row(e) /\ events' = [events EXCEPT ![e] = "pending"]
             /\ scan' = [scan EXCEPT ![s] = Auditing(s, e)] /\ UNCHANGED unaudited
    <2>1. scan[s] \in Scan
      BY DEF TypeOK
    <2>2. /\ Auditing(s, e) \in Scan /\ Auditing(s, e).pc = "audit" /\ Auditing(s, e).at = e
          /\ Auditing(s, e).listed = scan[s].listed
          /\ Auditing(s, e).todo = scan[s].todo \ {e}
      BY <2>1 DEF Auditing, Scan
    <2>3. scan[s].todo \subseteq scan[s].listed
      BY DEF TypeOK
    <2> QED
      BY <1>5, <1>6, <2>2, <2>3
  <1>7. CASE ~Row(e) /\ events' = [events EXCEPT ![e] = "pending"]
             /\ unaudited' = unaudited \cup {e} /\ Stop(s)
    BY <1>5, <1>7, IdleFacts DEF Stop
  <1> QED
    BY <1>3, <1>4, <1>6, <1>7 DEF RecordLockoutSeen

LEMMA AuditKeepsIInv ==
  ASSUME IInv, NEW s \in Scanners, AuditLockout(s)
  PROVE  IInv'
  <1> USE DEF IInv
  <1> DEFINE e == scan[s].at
             next == [scan[s] EXCEPT !.pc = "record", !.at = None]
  <1>1. At(s, "audit") /\ e \in Lockouts /\ scan[s] \in Scan
    BY DEF AuditLockout, At, TypeOK, Scan
  <1>2. UNCHANGED <<lock, past, events, told, forgotten, resent>>
    BY DEF AuditLockout
  <1>3. /\ audited \subseteq audited' /\ audited' \subseteq audited \cup {e}
        /\ unaudited \subseteq unaudited' /\ unaudited' \subseteq unaudited \cup {e}
        /\ e \in audited' \cup unaudited'
    BY DEF AuditLockout
  <1>4. /\ next \in Scan /\ next.pc = "record" /\ next.todo = scan[s].todo
        /\ next.at = None /\ next.listed = scan[s].listed
        /\ scan' = [scan EXCEPT ![s] = next]
    BY <1>1 DEF AuditLockout, Scan
  <1> HIDE DEF e, next
  <1>5. /\ scan'[s] = next /\ \A t \in Scanners \ {s} : scan'[t] = scan[t]
        /\ PastCovers'
        /\ \A f \in Lockouts : Gone(f) => Gone(f)'
    BY <1>1, <1>2, <1>4, ScanStepFacts DEF TypeOK, PastCovers, Row, At
  <1>6. TypeOK'
    BY <1>1, <1>2, <1>3, <1>4, <1>5 DEF TypeOK
  <1>7. SeenIsAudited'
    <2>1. ASSUME NEW f \in Lockouts, Row(f)'
          PROVE  \/ f \in (audited \cup unaudited)'
                 \/ \E t \in Scanners : At(t, "audit")' /\ scan'[t].at = f
      <3>1. \/ f \in audited \cup unaudited
            \/ \E t \in Scanners : At(t, "audit") /\ scan[t].at = f
        BY <1>2, <2>1 DEF SeenIsAudited, Row
      <3> QED
        BY <3>1, <1>3, <1>5 DEF At, e
    <2> QED
      BY <2>1 DEF SeenIsAudited
  <1>8. MarkedWasMailed' /\ NotifiedWasMailed' /\ AuditsApart'
    BY <1>2, <1>4, <1>5 DEF MarkedWasMailed, NotifiedWasMailed, AuditsApart, At
  <1>9. AuditedOnce'
    BY <1>1, <1>2, <1>3, <1>4, <1>5 DEF AuditedOnce, AuditsApart, At, e
  <1>10. KnownIsKept'
    <2>1. ASSUME NEW f \in Lockouts, Known(f)' PROVE Known(f)
      BY <1>1, <1>2, <1>3, <1>4, <1>5, <2>1 DEF Known, At, e
    <2> QED
      BY <1>2, <1>5, <2>1 DEF KnownIsKept, Row
  <1>11. SendsApart' /\ ToldIsMarked' /\ MailedOnce'
    BY <1>1, <1>2, <1>4, <1>5 DEF SendsApart, ToldIsMarked, MailedOnce, At
  <1> QED
    BY <1>5, <1>6, <1>7, <1>8, <1>9, <1>10, <1>11

\* What a scan sets out to mail was told to nobody, or is excused.
LEMMA PendingKeepsIInv ==
  ASSUME IInv, NEW s \in Scanners, PendingLockoutNotifications(s)
  PROVE  IInv'
  <1> USE DEF IInv
  <1> DEFINE unnotified == {e \in scan[s].listed : events[e] = "pending"}
  <1>1. /\ At(s, "record") /\ scan[s].at = None
        /\ unnotified \subseteq Lockouts /\ unnotified \subseteq scan[s].listed
    BY DEF PendingLockoutNotifications, At, TypeOK, Scan
  <1>2. UNCHANGED <<lock, past, events, audited, unaudited, told, forgotten>>
    BY DEF PendingLockoutNotifications
  <1>3. CASE Stop(s) /\ UNCHANGED resent
    BY <1>1, <1>2, <1>3, StopKeepsIInv DEF At, TypeOK
  <1>4. CASE /\ Go(s, "send", unnotified)
             /\ resent' = resent \cup {e \in unnotified : Sending(s, e)}
    <2>0. \A e \in unnotified : events[e] = "pending"
      OBVIOUS
    <2> DEFINE next == With(s, "send", unnotified)
    <2> HIDE DEF next, unnotified
    <2>1. /\ next \in Scan /\ next.pc = "send" /\ next.todo = unnotified
          /\ next.at = None /\ next.listed = scan[s].listed
          /\ scan' = [scan EXCEPT ![s] = next]
      BY <1>1, <1>4, WithFacts DEF next
    <2>2. /\ scan'[s] = next /\ \A t \in Scanners \ {s} : scan'[t] = scan[t]
          /\ PastCovers'
          /\ \A e \in Lockouts : Gone(e) => Gone(e)'
      BY <1>1, <1>2, <2>1, ScanStepFacts DEF TypeOK, PastCovers, Row
    <2>3. resent \subseteq resent' /\ resent' \subseteq Lockouts
      BY <1>1, <1>4 DEF TypeOK
    <2>4. TypeOK'
      BY <1>1, <1>2, <2>1, <2>2, <2>3 DEF TypeOK
    <2>5. SeenIsAudited' /\ MarkedWasMailed' /\ NotifiedWasMailed' /\ AuditsApart' /\ AuditedOnce'
      BY <1>1, <1>2, <2>1, <2>2 DEF SeenIsAudited, MarkedWasMailed, NotifiedWasMailed,
                                    AuditsApart, AuditedOnce, Row, At
    <2>6. KnownIsKept'
      <3>1. ASSUME NEW e \in Lockouts, Known(e)' PROVE Known(e) \/ e \in unnotified
        BY <1>2, <2>1, <2>2, <3>1 DEF Known, At
      <3>2. \A e \in Lockouts : Row(e)' <=> Row(e)
        BY <1>2 DEF Row
      <3> QED
        BY <1>2, <2>0, <2>2, <3>1, <3>2 DEF KnownIsKept, Row
    <2>7. \A e \in unnotified : Sending(s, e) => e \in resent'
      BY <1>4
    <2>8. SendsApart'
      BY <1>1, <2>1, <2>2, <2>3, <2>7 DEF SendsApart, Sending
    <2>9. ToldIsMarked'
      BY <1>1, <1>2, <2>1, <2>2, <2>3 DEF ToldIsMarked, At
    <2>10. MailedOnce'
      <3>1. ASSUME NEW e \in unnotified, e \in told PROVE e \in forgotten \cup resent'
        <4>1. \/ e \in forgotten \cup resent
              \/ \E t \in Scanners : At(t, "mark") /\ e \in scan[t].todo
          BY <1>1, <2>0, <3>1 DEF ToldIsMarked
        <4>2. ASSUME NEW t \in Scanners, At(t, "mark"), e \in scan[t].todo PROVE Sending(s, e)
          BY <1>1, <4>2 DEF Sending, At
        <4> QED
          BY <2>3, <2>7, <3>1, <4>1, <4>2
      <3> QED
        BY <1>2, <2>1, <2>2, <2>3, <3>1 DEF MailedOnce, At
    <2> QED
      BY <2>2, <2>4, <2>5, <2>6, <2>8, <2>9, <2>10
  <1> QED
    BY <1>3, <1>4 DEF PendingLockoutNotifications

LEMMA SendKeepsIInv ==
  ASSUME IInv, NEW s \in Scanners, SendLockoutDigest(s)
  PROVE  IInv'
  <1> USE DEF IInv
  <1> DEFINE digest == scan[s].todo
  <1>1. /\ At(s, "send") /\ scan[s].at = None
        /\ digest \subseteq Lockouts /\ digest \subseteq scan[s].listed
    BY DEF SendLockoutDigest, At, TypeOK, Scan
  <1>2. UNCHANGED <<lock, past, events, audited, unaudited, forgotten>>
    BY DEF SendLockoutDigest
  <1> HIDE DEF digest
  <1>3. CASE Stop(s) /\ UNCHANGED told /\ (resent' = resent \/ resent' = resent \cup digest)
    BY <1>1, <1>2, <1>3, StopKeepsIInv DEF At, TypeOK
  <1>4. CASE told' = told \cup digest /\ Go(s, "mark", digest) /\ UNCHANGED resent
    <2> DEFINE next == With(s, "mark", digest)
    <2> HIDE DEF next
    <2>1. /\ next \in Scan /\ next.pc = "mark" /\ next.todo = digest
          /\ next.at = None /\ next.listed = scan[s].listed
          /\ scan' = [scan EXCEPT ![s] = next]
      BY <1>1, <1>4, WithFacts DEF next
    <2>2. /\ scan'[s] = next /\ \A t \in Scanners \ {s} : scan'[t] = scan[t]
          /\ PastCovers'
          /\ \A e \in Lockouts : Gone(e) => Gone(e)'
      BY <1>1, <1>2, <2>1, ScanStepFacts DEF TypeOK, PastCovers, Row
    <2>3. TypeOK'
      BY <1>1, <1>2, <1>4, <2>1, <2>2 DEF TypeOK
    <2>4. SeenIsAudited' /\ MarkedWasMailed' /\ NotifiedWasMailed' /\ AuditsApart' /\ AuditedOnce'
      BY <1>1, <1>2, <1>4, <2>1, <2>2 DEF SeenIsAudited, MarkedWasMailed, NotifiedWasMailed,
                                          AuditsApart, AuditedOnce, Row, At
    <2>5. KnownIsKept'
      <3>1. ASSUME NEW e \in Lockouts, Known(e)' PROVE Known(e)
        BY <1>1, <1>2, <1>4, <2>1, <2>2, <3>1 DEF Known, At, digest
      <3> QED
        BY <1>2, <2>2, <3>1 DEF KnownIsKept, Row
    <2>6. SendsApart'
      BY <1>1, <1>4, <2>1, <2>2 DEF SendsApart, At, digest
    <2>7. ToldIsMarked'
      <3>1. ASSUME NEW e \in Lockouts, e \in told', events[e] = "pending"
            PROVE  \/ e \in forgotten \cup resent
                   \/ \E t \in Scanners : scan'[t].pc = "mark" /\ e \in scan'[t].todo
        <4>1. CASE e \in digest
          BY <2>1, <2>2, <4>1
        <4>2. CASE e \in told
          <5>1. \/ e \in forgotten \cup resent
                \/ \E t \in Scanners : At(t, "mark") /\ e \in scan[t].todo
            BY <3>1, <4>2 DEF ToldIsMarked
          <5> QED
            BY <1>1, <2>2, <5>1 DEF At
        <4> QED
          BY <1>4, <3>1, <4>1, <4>2
      <3> QED
        BY <1>2, <1>4, <3>1 DEF ToldIsMarked, At
    <2>8. MailedOnce'
      <3>1. ASSUME NEW t \in Scanners \ {s}, At(t, "send")
            PROVE  scan[t].todo \cap (told \cup digest) \subseteq forgotten \cup resent
        BY <1>1, <3>1 DEF MailedOnce, SendsApart, At, digest
      <3> QED
        BY <1>2, <1>4, <2>1, <2>2, <3>1 DEF MailedOnce, At
    <2> QED
      BY <2>2, <2>3, <2>4, <2>5, <2>6, <2>7, <2>8
  <1> QED
    BY <1>3, <1>4 DEF SendLockoutDigest, digest

LEMMA MarkKeepsIInv ==
  ASSUME IInv, NEW s \in Scanners, NEW e \in Lockouts, MarkLockoutNotified(s, e)
  PROVE  IInv'
  <1> USE DEF IInv
  <1>1. /\ At(s, "mark") /\ e \in scan[s].todo /\ scan[s].at = None /\ e \in told
        /\ scan[s].todo \subseteq Lockouts /\ scan[s].todo \subseteq scan[s].listed
    BY DEF MarkLockoutNotified, At, TypeOK, Scan, MarkedWasMailed
  <1>2. UNCHANGED <<lock, past, audited, unaudited, told, forgotten>>
    BY DEF MarkLockoutNotified
  <1>3. /\ events' \in [Lockouts -> {"absent", "pending", "notified"}]
        /\ \A f \in Lockouts : f # e => events'[f] = events[f]
        /\ events'[e] = "absent" <=> events[e] = "absent"
        /\ events'[e] = "pending" => e \in resent'
        /\ resent \subseteq resent' /\ resent' \subseteq Lockouts
    BY DEF MarkLockoutNotified, TypeOK, Row
  <1> DEFINE next == With(s, "mark", scan[s].todo \ {e})
  <1> HIDE DEF next
  <1>4. /\ next \in Scan /\ next.pc = "mark" /\ next.todo = scan[s].todo \ {e}
        /\ next.at = None /\ next.listed = scan[s].listed
        /\ scan' = [scan EXCEPT ![s] = next]
    BY <1>1, WithFacts DEF next, MarkLockoutNotified
  <1>5. /\ scan'[s] = next /\ \A t \in Scanners \ {s} : scan'[t] = scan[t]
        /\ PastCovers'
        /\ \A f \in Lockouts : Gone(f) => Gone(f)'
    BY <1>1, <1>2, <1>3, <1>4, ScanStepFacts DEF TypeOK, PastCovers, Row, At
  <1>6. TypeOK'
    BY <1>1, <1>2, <1>3, <1>4, <1>5 DEF TypeOK
  <1>7. SeenIsAudited'
    BY <1>1, <1>2, <1>3, <1>4, <1>5 DEF SeenIsAudited, Row, At
  <1>8. MarkedWasMailed' /\ NotifiedWasMailed' /\ AuditsApart' /\ AuditedOnce'
    BY <1>1, <1>2, <1>3, <1>4, <1>5 DEF MarkedWasMailed, NotifiedWasMailed, AuditsApart,
                                        AuditedOnce, At
  <1>9. KnownIsKept'
    <2>1. ASSUME NEW f \in Lockouts, Known(f)' PROVE Known(f)
      BY <1>1, <1>2, <1>4, <1>5, <2>1 DEF Known, At
    <2> QED
      BY <1>2, <1>3, <1>5, <2>1 DEF KnownIsKept, Row
  <1>10. SendsApart' /\ MailedOnce'
    BY <1>1, <1>2, <1>3, <1>4, <1>5 DEF SendsApart, MailedOnce, At
  <1>11. ToldIsMarked'
    <2>1. ASSUME NEW f \in Lockouts, f \in told, events'[f] = "pending", f \notin forgotten \cup resent'
          PROVE  \E t \in Scanners : scan'[t].pc = "mark" /\ f \in scan'[t].todo
      <3>1. f # e /\ events[f] = "pending" /\ f \notin forgotten \cup resent
        BY <1>3, <2>1
      <3>2. PICK t \in Scanners : At(t, "mark") /\ f \in scan[t].todo
        BY <2>1, <3>1 DEF ToldIsMarked
      <3> QED
        BY <1>4, <1>5, <3>1, <3>2 DEF At
    <2> QED
      BY <1>2, <2>1 DEF ToldIsMarked, At
  <1> QED
    BY <1>5, <1>6, <1>7, <1>8, <1>9, <1>10, <1>11

LEMMA NextKeepsIInv == IInv /\ [Next]_vars => IInv'
  <1> SUFFICES ASSUME IInv, [Next]_vars PROVE IInv'
    OBVIOUS
  <1>1. CASE UNCHANGED vars
    <2>1. \A e \in Lockouts : Gone(e)' <=> Gone(e)
      BY <1>1 DEF vars, Gone, Held, Reading
    <2>2. \A e \in Lockouts : Known(e)' <=> Known(e)
      BY <1>1 DEF vars, Known, At
    <2>3. TypeOK' /\ PastCovers' /\ SeenIsAudited' /\ MarkedWasMailed' /\ NotifiedWasMailed'
      BY <1>1 DEF vars, IInv, TypeOK, PastCovers, SeenIsAudited, MarkedWasMailed,
                  NotifiedWasMailed, Held, Row, At
    <2>4. KnownIsKept'
      BY <1>1, <2>1, <2>2 DEF vars, IInv, KnownIsKept, Row
    <2>5. AuditsApart' /\ AuditedOnce' /\ SendsApart' /\ ToldIsMarked' /\ MailedOnce'
      BY <1>1 DEF vars, IInv, AuditsApart, AuditedOnce, SendsApart, ToldIsMarked, MailedOnce, At
    <2> QED
      BY <2>3, <2>4, <2>5 DEF IInv
  <1>2. CASE Directory
    BY <1>2, DirectoryKeepsIInv
  <1>3. ASSUME NEW s \in Scanners, StartScan(s) \/ Step(s) \/ Crash(s) PROVE IInv'
    <2>1. CASE StartScan(s)
      BY <2>1, StartKeepsIInv
    <2>2. CASE Step(s)
      <3>1. CASE CompleteScan(s)
        BY <3>1, StopKeepsIInv DEF CompleteScan, history, IInv, TypeOK, At
      <3>2. CASE \E e \in Lockouts : RecordLockoutSeen(s, e) \/ MarkLockoutNotified(s, e)
        BY <3>2, RecordKeepsIInv, MarkKeepsIInv
      <3> QED
        BY <2>2, <3>1, <3>2, ListKeepsIInv, PruneKeepsIInv, AuditKeepsIInv, PendingKeepsIInv,
           SendKeepsIInv DEF Step
    <2>3. CASE Crash(s)
      <3>1. /\ Stop(s) /\ UNCHANGED <<lock, past, events, audited, told, forgotten>>
            /\ unaudited \subseteq unaudited' /\ resent \subseteq resent'
            /\ At(s, "audit") => scan[s].at \in unaudited'
            /\ At(s, "mark") => scan[s].todo \subseteq resent'
        BY <2>3 DEF Crash
      <3>2. (At(s, "audit") => scan[s].at \in Lockouts) /\ scan[s].todo \subseteq Lockouts
        BY DEF IInv, TypeOK, Scan, At
      <3>3. unaudited' \in SUBSET Lockouts /\ resent' \in SUBSET Lockouts
        BY <2>3, <3>2 DEF Crash, IInv, TypeOK
      <3> QED
        BY <3>1, <3>3, StopKeepsIInv
    <2> QED
      BY <1>3, <2>1, <2>2, <2>3
  <1> QED
    BY <1>1, <1>2, <1>3 DEF Next

\* The inductive invariant holds in every state of every behaviour of the scans.
THEOREM Invariance == Spec => []IInv
  BY InitIInv, NextKeepsIInv, PTL DEF Spec

\* The table, the scans and the history keep their types, and a scan has at most
\* what it listed left to do.
THEOREM TypeCorrect == Spec => []TypeOK
  <1>1. IInv => TypeOK
    BY DEF IInv
  <1> QED
    BY <1>1, Invariance, PTL

\* Whoever is about to audit a lockout is the first, unless its row was pruned
\* under it (RecordLockoutSeen: "two overlapping runs cannot both audit").
THEOREM AuditedOnceAlways == Spec => []AuditedOnce
  <1>1. IInv => AuditedOnce
    BY DEF IInv
  <1> QED
    BY <1>1, Invariance, PTL

\* A row stands for an audit made, about to be made, or lost to a named failure.
THEOREM SeenIsAuditedAlways == Spec => []SeenIsAudited
  <1>1. IInv => SeenIsAudited
    BY DEF IInv
  <1> QED
    BY <1>1, Invariance, PTL

\* A row says "notified" only of what every recipient was told of
\* (sendLockoutDigest: "marked only once the mail went out").
THEOREM NotifiedWasMailedAlways == Spec => []NotifiedWasMailed
  <1>1. IInv => NotifiedWasMailed
    BY DEF IInv
  <1> QED
    BY <1>1, Invariance, PTL

\* A digest is about what nobody was told of, up to the named exceptions.
THEOREM MailedOnceAlways == Spec => []MailedOnce
  <1>1. IInv => MailedOnce
    BY DEF IInv
  <1> QED
    BY <1>1, Invariance, PTL

-----------------------------------------------------------------------------
(* One process, whole lists: the scan implements LockoutAlerts. *)

\* What a single scan is about to prune is not held.
PruneIsSafe ==
  \A s \in Scanners : \A e \in Lockouts :
    (At(s, "prune") /\ Row(e) /\ e \notin scan[s].listed) => e \notin Held

RInv == IInv /\ PruneIsSafe

\* Alerts, as the mapping reads them.
LEMMA AlertIs ==
  ASSUME TypeOK
  PROVE  /\ DOMAIN alert = Lockouts
         /\ \A e \in Lockouts :
              /\ alert[e] = "open" <=> events[e] = "pending"
              /\ alert[e] = "told" <=> events[e] = "notified"
              /\ alert[e] = "closed" <=> ~Row(e) /\ Gone(e)
              /\ alert[e] = "unseen" <=> ~Row(e) /\ ~Gone(e)
              /\ alert[e] \in {"open", "told", "closed", "unseen"}
  BY DEF TypeOK, alert, Row

\* No step of a scan brings back what is gone.
LEMMA ScanFacts ==
  ASSUME TypeOK, NEW s \in Scanners, StartScan(s) \/ Step(s) \/ Crash(s)
  PROVE  /\ Held' = Held /\ past' = past
         /\ \A t \in Scanners \ {s} : scan'[t] = scan[t]
         /\ \A e \in Lockouts : Gone(e) => Gone(e)'
  <1>1. lock' = lock /\ past' = past
    BY DEF StartScan, Step, Crash, SelfLockedAccounts, PruneLockoutEvents, RecordLockoutSeen,
           AuditLockout, PendingLockoutNotifications, SendLockoutDigest, MarkLockoutNotified,
           CompleteScan
  <1>2. Held' = Held
    BY <1>1 DEF Held
  <1>3. /\ \A t \in Scanners \ {s} : scan'[t] = scan[t]
        /\ \A e \in Lockouts : Reading(s, e)' => Reading(s, e) \/ e \in Held
    <2>1. CASE Stop(s)
      BY <2>1, IdleFacts DEF TypeOK, Stop, Reading
    <2>2. ASSUME NEW some \in SUBSET Held, ToPrune(s, some)
          PROVE  <1>3!1 /\ <1>3!2
      BY <2>2 DEF TypeOK, ToPrune, Reading
    <2>3. CASE SelfLockedAccounts(s)
      BY <2>1, <2>2, <2>3 DEF SelfLockedAccounts
    <2>4. ASSUME NEW pc \in {"list", "prune", "record", "send", "mark"},
                 NEW todo \in SUBSET Lockouts, Go(s, pc, todo),
                 pc = "record" => scan[s].pc \in {"prune", "record"} /\ todo \subseteq scan[s].todo,
                 pc # "prune"
          PROVE  <1>3!1 /\ <1>3!2
      BY <2>4, WithFacts DEF TypeOK, Reading
    <2>5. scan[s] \in Scan
      BY DEF TypeOK
    <2>6. CASE StartScan(s)
      BY <2>4, <2>6 DEF StartScan
    <2>7. CASE PruneLockoutEvents(s)
      BY <2>4, <2>5, <2>7 DEF PruneLockoutEvents, At, Scan
    <2>8. ASSUME NEW e \in Lockouts, RecordLockoutSeen(s, e) PROVE <1>3!1 /\ <1>3!2
      <3>1. CASE Go(s, "record", scan[s].todo \ {e})
        BY <2>4, <2>5, <2>8, <3>1 DEF RecordLockoutSeen, At, Scan
      <3>2. CASE scan' = [scan EXCEPT ![s] = Auditing(s, e)]
        <4>1. Auditing(s, e).todo \subseteq scan[s].todo
          BY <2>5 DEF Auditing, Scan
        <4> QED
          BY <2>8, <3>2, <4>1 DEF TypeOK, Reading, RecordLockoutSeen, At
      <3> QED
        BY <2>1, <2>8, <3>1, <3>2 DEF RecordLockoutSeen
    <2>9. CASE AuditLockout(s)
      <3> DEFINE next == [scan[s] EXCEPT !.pc = "record", !.at = None]
      <3>1. next.todo = scan[s].todo /\ scan' = [scan EXCEPT ![s] = next]
        BY <2>5, <2>9 DEF AuditLockout, Scan
      <3> HIDE DEF next
      <3> QED
        BY <2>9, <3>1 DEF TypeOK, Reading, AuditLockout, At
    <2>10. CASE PendingLockoutNotifications(s)
      <3> DEFINE unnotified == {e \in scan[s].listed : events[e] = "pending"}
      <3>1. unnotified \in SUBSET Lockouts
        BY <2>5 DEF Scan
      <3>2. Stop(s) \/ Go(s, "send", unnotified)
        BY <2>10 DEF PendingLockoutNotifications
      <3> HIDE DEF unnotified
      <3> QED
        BY <2>1, <2>4, <3>1, <3>2
    <2>11. CASE SendLockoutDigest(s)
      BY <2>1, <2>4, <2>5, <2>11 DEF SendLockoutDigest, Scan
    <2>12. ASSUME NEW e \in Lockouts, MarkLockoutNotified(s, e) PROVE <1>3!1 /\ <1>3!2
      BY <2>4, <2>5, <2>12 DEF MarkLockoutNotified, Scan
    <2> QED
      BY <2>1, <2>3, <2>6, <2>7, <2>8, <2>9, <2>10, <2>11, <2>12 DEF Step, Crash, CompleteScan
  <1>4. ASSUME NEW e \in Lockouts, Gone(e) PROVE Gone(e)'
    <2>1. \A t \in Scanners : ~Reading(t, e)
      BY <1>4 DEF Gone
    <2>2. \A t \in Scanners : ~Reading(t, e)'
      BY <1>3, <1>4, <2>1 DEF Gone, Reading
    <2> QED
      BY <1>1, <1>2, <1>4, <2>2 DEF Gone
  <1> QED
    BY <1>1, <1>2, <1>3, <1>4

\* One process, and a directory that does not cut its answers short.
Single == "truncated" \notin Faults /\ \A s, t \in Scanners : s = t

LEMMA PruneStaysSafe ==
  ASSUME Single, RInv, [Next]_vars
  PROVE  PruneIsSafe'
  <1>1. CASE UNCHANGED vars
    BY <1>1 DEF RInv, PruneIsSafe, vars, Held, Row, At
  <1>2. CASE Directory
    <2>1. /\ UNCHANGED <<events, scan>>
          /\ Held' \subseteq Held \cup (past' \ past)
      BY <1>2, DirectoryFacts DEF RInv, IInv
    <2> QED
      BY <2>1 DEF RInv, IInv, PastCovers, PruneIsSafe, Row, At
  <1>3. ASSUME NEW s \in Scanners, StartScan(s) \/ Step(s) \/ Crash(s) PROVE PruneIsSafe'
    <2> USE DEF RInv, IInv
    <2>1. Held' = Held /\ past' = past
      BY <1>3, ScanFacts
    <2>2. CASE scan'[s].pc # "prune"
      BY <2>2 DEF Single, PruneIsSafe, At
    <2>3. CASE ToPrune(s, Held)
      BY <2>1, <2>3 DEF Single, PruneIsSafe, ToPrune, TypeOK, At
    <2>4. CASE Stop(s)
      BY <2>2, <2>4, IdleFacts DEF Stop, TypeOK
    <2>5. ASSUME NEW pc \in {"list", "record", "send", "mark"}, NEW todo \in SUBSET Lockouts,
                 Go(s, pc, todo)
          PROVE  scan'[s].pc # "prune"
      BY <2>5, WithFacts DEF TypeOK
    <2>6. scan[s] \in Scan
      BY DEF TypeOK
    <2>7. CASE StartScan(s) \/ PruneLockoutEvents(s) \/ SendLockoutDigest(s)
      BY <2>2, <2>4, <2>5, <2>6, <2>7 DEF StartScan, PruneLockoutEvents, SendLockoutDigest, Scan
    <2>8. CASE SelfLockedAccounts(s)
      BY <2>3, <2>4, <2>8 DEF Single, SelfLockedAccounts
    <2>9. ASSUME NEW e \in Lockouts, RecordLockoutSeen(s, e) \/ MarkLockoutNotified(s, e)
          PROVE  PruneIsSafe'
      <3>1. CASE scan' = [scan EXCEPT ![s] = Auditing(s, e)]
        BY <2>2, <2>6, <3>1 DEF Auditing, Scan, TypeOK
      <3> QED
        BY <2>2, <2>4, <2>5, <2>6, <2>9, <3>1 DEF RecordLockoutSeen, MarkLockoutNotified, Scan
    <2>10. CASE AuditLockout(s)
      BY <2>2, <2>6, <2>10 DEF AuditLockout, Scan, TypeOK
    <2>11. CASE PendingLockoutNotifications(s)
      <3> DEFINE unnotified == {e \in scan[s].listed : events[e] = "pending"}
      <3>1. unnotified \in SUBSET Lockouts
        BY <2>6 DEF Scan
      <3>2. Stop(s) \/ Go(s, "send", unnotified)
        BY <2>11 DEF PendingLockoutNotifications
      <3> HIDE DEF unnotified
      <3> QED
        BY <2>2, <2>4, <2>5, <3>1, <3>2
    <2> QED
      BY <1>3, <2>4, <2>7, <2>8, <2>9, <2>10, <2>11 DEF Step, CompleteScan, Crash
  <1> QED
    BY <1>1, <1>2, <1>3 DEF Next

\* Alerts after a step, as the mapping reads them.
LEMMA AlertNextIs ==
  ASSUME TypeOK'
  PROVE  /\ DOMAIN alert' = Lockouts
         /\ \A e \in Lockouts :
              /\ alert'[e] = "open" <=> events'[e] = "pending"
              /\ alert'[e] = "told" <=> events'[e] = "notified"
              /\ alert'[e] = "closed" <=> ~Row(e)' /\ Gone(e)'
              /\ alert'[e] = "unseen" <=> ~Row(e)' /\ ~Gone(e)'
              /\ alert'[e] \in {"open", "told", "closed", "unseen"}
  BY DEF TypeOK, alert, Row

LEMMA CloseOrStay ==
  ASSUME Held' = Held, DOMAIN alert = Lockouts, alert' = [e \in Lockouts |-> alert'[e]],
         \A e \in Lockouts : alert'[e] = alert[e] \/ (alert'[e] = "closed" /\ e \notin Held)
  PROVE  Alerts!Next
  <1> DEFINE gone == {e \in Lockouts : alert'[e] = "closed" /\ e \notin Held}
  <1>1. gone \cap Held = {} /\ gone \in SUBSET Lockouts
    OBVIOUS
  <1>2. alert' = [e \in Lockouts |-> IF e \in gone THEN "closed" ELSE alert[e]]
    OBVIOUS
  <1> HIDE DEF gone
  <1>3. Alerts!Close(gone)
    BY <1>1, <1>2 DEF Alerts!Close
  <1> QED
    BY <1>1, <1>3 DEF Alerts!Next

\* Every step of a single scan is a step of LockoutAlerts, or none.
LEMMA StepSimulation ==
  ASSUME Single, RInv, [Next]_vars, TypeOK'
  PROVE  [Alerts!Next]_<<Held, alert>>
  <1> USE DEF RInv, IInv
  <1>0. /\ DOMAIN alert = Lockouts /\ DOMAIN alert' = Lockouts
        /\ alert' = [e \in Lockouts |-> alert'[e]]
    BY DEF alert
  <1>1. CASE UNCHANGED vars
    <2>1. Held' = Held /\ \A e \in Lockouts : Gone(e)' <=> Gone(e)
      BY <1>1 DEF vars, Held, Gone, Reading
    <2>2. \A e \in Lockouts : alert'[e] = alert[e]
      BY <1>1, <2>1, AlertIs, AlertNextIs DEF vars, Row
    <2>3. Alerts!Next
      BY <1>0, <2>1, <2>2, CloseOrStay
    <2> QED
      BY <2>3
  <1>2. CASE Directory
    <2>1. /\ UNCHANGED <<events, scan>>
          /\ Held' \subseteq Held \cup (past' \ past) /\ Held' \subseteq Lockouts
          /\ \A e \in Lockouts : Gone(e) => Gone(e)'
      BY <1>2, DirectoryFacts DEF Held
    <2> DEFINE missed == {e \in Lockouts : alert[e] = "unseen" /\ alert'[e] = "closed"}
    <2>2. Held' \ Held \subseteq Alerts!Unseen
      <3>1. ASSUME NEW e \in Held' \ Held PROVE alert[e] = "unseen"
        BY <2>1, <3>1, AlertIs DEF PastCovers, Gone, Row
      <3> QED
        BY <2>1, <3>1 DEF Alerts!Unseen
    <2>3. missed \in SUBSET (Alerts!Unseen \ Held')
      BY AlertNextIs DEF Alerts!Unseen, Gone
    <2>4. \A e \in Lockouts : alert'[e] = IF e \in missed THEN "closed" ELSE alert[e]
      BY <2>1, AlertIs, AlertNextIs DEF Row
    <2> HIDE DEF missed
    <2>5. alert' = [e \in Lockouts |-> IF e \in missed THEN "closed" ELSE alert[e]]
      BY <1>0, <2>4
    <2>6. Alerts!Directory
      BY <2>1, <2>2, <2>3, <2>5 DEF Alerts!Directory
    <2> QED
      BY <2>6 DEF Alerts!Next
  <1>3. ASSUME NEW s \in Scanners, StartScan(s) \/ Step(s) \/ Crash(s)
        PROVE  Alerts!Next
    <2>1. /\ Held' = Held /\ past' = past
          /\ \A e \in Lockouts : Gone(e) => Gone(e)'
      BY <1>3, ScanFacts
    <2>2. CASE \A e \in Lockouts : events'[e] = events[e]
      <3>1. \A e \in Lockouts : alert'[e] = alert[e] \/ (alert'[e] = "closed" /\ e \notin Held)
        BY <2>1, <2>2, AlertIs, AlertNextIs DEF Row, Gone
      <3> QED
        BY <1>0, <2>1, <3>1, CloseOrStay
    <2>3. CASE PruneLockoutEvents(s)
      <3>1. ASSUME NEW e \in Lockouts, events'[e] # events[e]
            PROVE  Row(e) /\ ~Row(e)' /\ e \notin scan[s].listed
        BY <2>3, <3>1 DEF PruneLockoutEvents, Row
      <3>2. /\ At(s, "prune") /\ scan'[s].todo = scan[s].todo
            /\ scan[s].todo \subseteq scan[s].listed /\ scan[s].todo \in SUBSET Lockouts
        <4>1. scan[s] \in Scan
          BY DEF TypeOK
        <4> QED
          BY <2>3, <4>1, WithFacts DEF PruneLockoutEvents, TypeOK, Scan
      <3>3. ASSUME NEW e \in Lockouts, events'[e] # events[e] PROVE Gone(e)'
        BY <2>1, <3>1, <3>2, <3>3 DEF Single, PruneIsSafe, PastCovers, Gone, Reading
      <3>4. \A e \in Lockouts : alert'[e] = alert[e] \/ (alert'[e] = "closed" /\ e \notin Held)
        BY <2>1, <3>1, <3>3, AlertIs, AlertNextIs DEF Row, Gone
      <3> QED
        BY <1>0, <2>1, <3>4, CloseOrStay
    <2>4. ASSUME NEW e \in Lockouts, RecordLockoutSeen(s, e) PROVE Alerts!Next
      <3>1. CASE ~Row(e) /\ events' = [events EXCEPT ![e] = "pending"]
        <4>1. events'[e] = "pending" /\ \A f \in Lockouts \ {e} : events'[f] = events[f]
          BY <3>1 DEF TypeOK
        <4>2. ~Gone(e)
          BY <2>4 DEF RecordLockoutSeen, At, Gone, Reading
        <4> DEFINE missed == {f \in Lockouts \ {e} : alert[f] = "unseen" /\ alert'[f] = "closed"}
        <4>3. alert[e] = "unseen" /\ alert'[e] = "open"
          BY <3>1, <4>1, <4>2, AlertIs, AlertNextIs
        <4>4. missed \in SUBSET (Alerts!Unseen \ (Held \cup {e}))
          BY <2>1, AlertNextIs DEF Alerts!Unseen, Gone
        <4>5. \A f \in Lockouts : alert'[f] = IF f = e THEN "open"
                                            ELSE IF f \in missed THEN "closed" ELSE alert[f]
          BY <2>1, <4>1, <4>3, AlertIs, AlertNextIs DEF Row
        <4> HIDE DEF missed
        <4>6. alert' = [f \in Lockouts |-> IF f = e THEN "open"
                                         ELSE IF f \in missed THEN "closed" ELSE alert[f]]
          BY <1>0, <4>5
        <4>7. Alerts!Open(e)
          BY <2>1, <4>3, <4>4, <4>6 DEF Alerts!Open
        <4> QED
          BY <4>7 DEF Alerts!Next
      <3> QED
        BY <2>2, <2>4, <3>1 DEF RecordLockoutSeen
    <2>5. ASSUME NEW e \in Lockouts, MarkLockoutNotified(s, e) PROVE Alerts!Next
      <3>1. CASE events[e] = "pending" /\ events' = [events EXCEPT ![e] = "notified"]
        <4>1. events'[e] = "notified" /\ \A f \in Lockouts \ {e} : events'[f] = events[f]
          BY <3>1 DEF TypeOK
        <4>2. scan[s] \in Scan /\ scan[s].pc = "mark" /\ scan'[s].pc = "mark"
          <5>1. scan[s] \in Scan
            BY DEF TypeOK
          <5> QED
            BY <2>5, <5>1, WithFacts DEF MarkLockoutNotified, TypeOK, Scan, At
        <4>3. \A f \in Lockouts : Gone(f)' <=> Gone(f)
          BY <2>1, <4>2 DEF Single, Gone, Reading
        <4>4. \A f \in Lockouts : alert'[f] = IF f = e THEN "told" ELSE alert[f]
          BY <4>1, <4>3, AlertIs, AlertNextIs DEF Row
        <4>5. alert[e] = "open" /\ alert' = [alert EXCEPT ![e] = "told"]
          BY <1>0, <3>1, <4>4, AlertIs
        <4>6. Alerts!Tell(e)
          BY <2>1, <4>5 DEF Alerts!Tell
        <4> QED
          BY <4>6 DEF Alerts!Next
      <3>2. CASE events[e] # "pending" \/ UNCHANGED events
        <4>1. \A f \in Lockouts : events'[f] = events[f]
          BY <2>5, <3>2 DEF MarkLockoutNotified, TypeOK, Row
        <4> QED
          BY <2>2, <4>1
      <3> QED
        BY <2>5, <3>1, <3>2 DEF MarkLockoutNotified, Row
    <2>6. CASE UNCHANGED events
      BY <2>2, <2>6
    <2> QED
      BY <1>3, <2>3, <2>4, <2>5, <2>6
         DEF Step, StartScan, Crash, SelfLockedAccounts, AuditLockout,
             PendingLockoutNotifications, SendLockoutDigest, CompleteScan
  <1> QED
    BY <1>1, <1>2, <1>3 DEF Next

LEMMA InitSimulation == Init => RInv /\ Alerts!Init
  <1> SUFFICES ASSUME Init PROVE RInv /\ Alerts!Init
    OBVIOUS
  <1>1. IInv
    BY InitIInv
  <1>2. PruneIsSafe
    BY DEF Init, PruneIsSafe, At, Idle
  <1>3. Held = {}
    BY ConstantsAssumption DEF Init, Held, Lockouts
  <1>4. alert = [e \in Lockouts |-> "unseen"]
    BY DEF Init, alert, Gone
  <1> QED
    BY <1>1, <1>2, <1>3, <1>4 DEF RInv, Alerts!Init

\* One process whose lists are whole keeps the promise of LockoutAlerts, through
\* every other failure: each lockout is noticed at most once, told of after
\* that, and forgotten only once the directory has let it go.
THEOREM ScanImplementsAlerts ==
  ASSUME Single
  PROVE  Spec => ImplementsAlerts
  <1>1. RInv /\ [Next]_vars => RInv'
    BY NextKeepsIInv, PruneStaysSafe, Single DEF RInv
  <1>2. RInv /\ RInv' /\ [Next]_vars => [Alerts!Next]_<<Held, alert>>
    BY StepSimulation, Single DEF RInv, IInv
  <1> QED
    BY InitSimulation, <1>1, <1>2, PTL DEF Spec, ImplementsAlerts, Alerts!Spec, Alerts!vars
=============================================================================
