------------------------------ MODULE MCServices ------------------------------
(***************************************************************************)
(* The scheduler of the backend and the run RPCs of the ansible service,   *)
(* each on a small instance: a behaviour is one of either.                 *)
(***************************************************************************)
EXTENDS Scheduler, RunnerService

VARIABLE part

servicesVars == <<part, vars, runnerVars>>

MCInit == part \in {"scheduler", "runner"} /\ Init /\ RunnerInit

MCNext ==
  /\ UNCHANGED part
  /\ \/ part = "scheduler" /\ Next /\ UNCHANGED runnerVars
     \/ part = "runner" /\ RunnerNext /\ UNCHANGED vars

Plans(A) == part = "scheduler" /\ A /\ UNCHANGED <<part, runnerVars>>
Runs(A) == part = "runner" /\ A /\ UNCHANGED <<part, vars>>

(* Scheduler's Fairness and RunnerService's, each of its own part. *)
MCFairness ==
  /\ WF_servicesVars(Plans(Boot))
  /\ \A p \in Pass : /\ WF_servicesVars(Plans(Tick(p)))
                     /\ SF_servicesVars(Plans(Read(p)))
                     /\ WF_servicesVars(Plans(Apply(p)))
  /\ \A h \in Firing :
       /\ WF_servicesVars(Plans(OpenFiring(h) \/ SkipFiring(h)))
       /\ WF_servicesVars(Plans(CompleteFiring(h)))
  /\ \A c \in Calls :
       /\ WF_servicesVars(Runs(Prepare(c))) /\ WF_servicesVars(Runs(PreparedForNobody(c)))
       /\ WF_servicesVars(Runs(Start(c))) /\ WF_servicesVars(Runs(ExitOnStop(c)))
       /\ WF_servicesVars(Runs(Forward(c))) /\ WF_servicesVars(Runs(Removed(c)))
       /\ WF_servicesVars(Runs(Cancel(c))) /\ WF_servicesVars(Runs(Unwind(c)))
       /\ WF_servicesVars(Runs(Finalize(c))) /\ WF_servicesVars(Runs(Stopping(c)))

MCSpec == MCInit /\ [][MCNext]_servicesVars /\ MCFairness
=============================================================================
