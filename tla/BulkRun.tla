------------------------------ MODULE BulkRun -------------------------------
(***************************************************************************)
(* A bulk action of a list (runBulk in web/src/lib/bulk.ts): a fixed       *)
(* number of runners take the selected entries in turn, call the server    *)
(* for each, and go on whatever the call comes to.  Between two awaits a   *)
(* runner is alone, so taking an entry is one step.                        *)
(***************************************************************************)
EXTENDS Integers, FiniteSets

CONSTANTS Total,      \* the selected entries, numbered from 0
          concurrency \* calls in flight at once

ASSUME TotalAssumption == Total \in Nat \ {0}
ASSUME ConcurrencyAssumption == concurrency \in Nat \ {0}

VARIABLES index,     \* the next entry to take
          runner,    \* per runner: the entry whose call is in flight
          succeeded, \* the entries counted as done
          failed,    \* the entries reported as failed
          calls      \* history: how often the server was called for each entry

bulkVars == <<index, runner, succeeded, failed, calls>>

Items == 0 .. (Total - 1)
Runners == 1 .. (IF concurrency < Total THEN concurrency ELSE Total)

Free == [at |-> "free", item |-> 0]
Over == [at |-> "over", item |-> 0]
Calling(i) == [at |-> "calling", item |-> i]

BulkInit ==
  /\ index = 0
  /\ runner = [r \in Runners |-> Free]
  /\ succeeded = {} /\ failed = {}
  /\ calls = [i \in Items |-> 0]

\* Mutant: the index moves on once the call is answered.
TakeWithoutMoving(r) ==
  /\ runner[r].at = "free" /\ index < Total
  /\ runner' = [runner EXCEPT ![r] = Calling(index)]
  /\ calls' = [calls EXCEPT ![index] = calls[index] + 1]
  /\ index' = IF index \in succeeded \cup failed THEN index + 1 ELSE index
  /\ UNCHANGED <<succeeded, failed>>

Take(r) ==
  /\ runner[r].at = "free" /\ index < Total
  /\ runner' = [runner EXCEPT ![r] = Calling(index)]
  /\ calls' = [calls EXCEPT ![index] = calls[index] + 1]
  /\ index' = index + 1
  /\ UNCHANGED <<succeeded, failed>>

Finish(r) ==
  /\ runner[r].at = "free" /\ index >= Total
  /\ runner' = [runner EXCEPT ![r] = Over]
  /\ UNCHANGED <<index, succeeded, failed, calls>>

\* Every call ends: the client gives up on it after thirty seconds.
Settle(r) ==
  /\ runner[r].at = "calling"
  /\ runner' = [runner EXCEPT ![r] = Free]
  /\ \/ /\ succeeded' = succeeded \cup {runner[r].item}
        /\ failed' = failed
     \/ /\ failed' = failed \cup {runner[r].item}
        /\ succeeded' = succeeded
  /\ UNCHANGED <<index, calls>>

BulkStep == \E r \in Runners : Take(r) \/ Finish(r) \/ Settle(r)

BulkSpec == BulkInit /\ [][BulkStep]_bulkVars

AllOver == \A r \in Runners : runner[r].at = "over"

-----------------------------------------------------------------------------
(* When the run reports, every selected entry was called for exactly once  *)
(* and counted exactly once, as done or as failed.                         *)
BulkSettlesEach ==
  AllOver => /\ \A i \in Items : calls[i] = 1
             /\ succeeded \cup failed = Items
             /\ succeeded \cap failed = {}
=============================================================================
