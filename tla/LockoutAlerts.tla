---------------------------- MODULE LockoutAlerts ----------------------------
(***************************************************************************)
(* What the lockout scan promises of one lockout, whatever its steps and   *)
(* failures: it is noticed, told of and forgotten in that order, it is     *)
(* never reported anew, and it is not forgotten while the directory holds  *)
(* it.  Only what went away may be dropped without having been told.       *)
(***************************************************************************)
CONSTANT Lockouts

VARIABLES
  held,   \* the lockouts the directory holds
  alert   \* alert[e]: how far the report of e has come

vars == <<held, alert>>

Init == held = {} /\ alert = [e \in Lockouts |-> "unseen"]

Unseen == {e \in Lockouts : alert[e] = "unseen"}

\* The directory locks accounts and lifts locks: a lockout that is gone before
\* it was noticed may never be.
Directory ==
  \E new \in SUBSET Lockouts :
    /\ new \ held \subseteq Unseen
    /\ held' = new
    /\ \E missed \in SUBSET (Unseen \ new) :
         alert' = [e \in Lockouts |-> IF e \in missed THEN "closed" ELSE alert[e]]

\* A lockout is noticed; a scan that gets no further may give up on others.
Open(e) ==
  /\ alert[e] = "unseen"
  /\ \E missed \in SUBSET (Unseen \ (held \cup {e})) :
       alert' = [f \in Lockouts |-> IF f = e THEN "open"
                                   ELSE IF f \in missed THEN "closed" ELSE alert[f]]
  /\ UNCHANGED held

\* A digest told of it.
Tell(e) ==
  /\ alert[e] = "open"
  /\ alert' = [alert EXCEPT ![e] = "told"]
  /\ UNCHANGED held

\* Lockouts the directory no longer holds are forgotten.
Close(gone) ==
  /\ gone \cap held = {}
  /\ alert' = [e \in Lockouts |-> IF e \in gone THEN "closed" ELSE alert[e]]
  /\ UNCHANGED held

Next ==
  \/ Directory
  \/ \E e \in Lockouts : Open(e) \/ Tell(e)
  \/ \E gone \in SUBSET Lockouts : Close(gone)

Spec == Init /\ [][Next]_vars
=============================================================================
