----------------------------- MODULE RunLedger -----------------------------
(***************************************************************************)
(* What the job-run component promises, without transactions, locks, tasks *)
(* or streams: a ledger of runs, in which a run of a job starts only while *)
(* no other run of it is in progress or recorded as running, and a result, *)
(* once recorded, can only be lowered to "failed" -- never when it says    *)
(* the run was cancelled.                                                  *)
(*                                                                         *)
(* One exception goes with recovery: a run started before it goes on while *)
(* the ledger says it failed.  The next run of its job may start meanwhile, *)
(* and its own end replaces that "failed".                                 *)
(***************************************************************************)
CONSTANTS Job, Run

VARIABLES
  active,   \* runs in progress
  result,   \* what the history shows of each run
  jobOf,    \* the job of each run; fixed
  recovered,\* the runs of the last process are known to be over
  early     \* runs started before that

vars == <<active, result, jobOf, recovered, early>>

Results == {"ok", "failed", "cancelled"}

Init ==
  /\ active = {}
  /\ result = [r \in Run |-> "unused"]
  /\ jobOf \in [Run -> Job]
  /\ recovered = FALSE
  /\ early = {}

\* A run that recovery took for one of the last process.
Mistaken(r) == recovered /\ r \in early /\ result[r] = "failed"

Free(j) ==
  \A r \in Run : jobOf[r] = j => /\ result[r] # "running"
                                 /\ (r \in active => Mistaken(r))

\* The caller whose acknowledgement is lost does not execute the run.
Start(r) ==
  /\ result[r] = "unused"
  /\ Free(jobOf[r])
  /\ result' = [result EXCEPT ![r] = "running"]
  /\ active' \in {active, active \cup {r}}
  /\ early' = IF recovered THEN early ELSE early \cup {r}
  /\ UNCHANGED <<jobOf, recovered>>

\* The run ends; recording its result may have failed.
Finish(r) ==
  /\ r \in active
  /\ active' = active \ {r}
  /\ \E s \in Results \cup {result[r]} :
       result' = [result EXCEPT ![r] = IF @ = "deleted" THEN @ ELSE s]
  /\ UNCHANGED <<jobOf, recovered, early>>

\* A second attempt at recording.
Amend(r) ==
  /\ r \notin active
  /\ \/ result[r] \in {"running", "ok"} /\ result' = [result EXCEPT ![r] = "failed"]
     \/ /\ result[r] = "running" \/ Mistaken(r)
        /\ result' = [result EXCEPT ![r] = "cancelled"]
  /\ UNCHANGED <<active, jobOf, recovered, early>>

\* Every run in progress dies with the process.
Crash ==
  /\ active' = {}
  /\ recovered' = FALSE
  /\ UNCHANGED <<result, jobOf, early>>

\* Every run recorded as running is taken to have died with the last process.
Recover ==
  /\ ~recovered
  /\ recovered' = TRUE
  /\ result' = [r \in Run |-> IF result[r] = "running" THEN "failed" ELSE result[r]]
  /\ UNCHANGED <<active, jobOf, early>>

Forget(j) ==
  /\ result' = [r \in Run |-> IF jobOf[r] = j /\ result[r] # "unused"
                                THEN "deleted" ELSE result[r]]
  /\ UNCHANGED <<active, jobOf, recovered, early>>

Next ==
  \/ \E r \in Run : Start(r) \/ Finish(r) \/ Amend(r)
  \/ \E j \in Job : Forget(j)
  \/ Crash \/ Recover

Spec == Init /\ [][Next]_vars
=============================================================================
