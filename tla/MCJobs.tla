-------------------------------- MODULE MCJobs --------------------------------
(***************************************************************************)
(* The runs of jobs, and the pages that start and show a run, each part on *)
(* a small instance.  A behaviour is one of one part.                      *)
(***************************************************************************)
EXTENDS MCJobRuns, JobPages, RunOutput

CONSTANTS c1, c2, e1, e2, v1, s1, s2

----------------------------------------------------------------------------
(* RunVariables: a playbook that declares nothing, a connection, or also   *)
(* an environment and a secret; environments that no two projects share.   *)

Declaring(c, e, s) == [conn |-> c, env |-> e, vars |-> [n \in {v1} |-> s]]
MCDeclares == {Declaring(None, None, None), Declaring(c1, None, None), Declaring(c1, e1, s1)}
MCEnvsOf == (c1 :> <<e1>>) @@ (c2 :> <<e2>>)
MCNameFor == [s \in {s1, s2} |-> v1]

----------------------------------------------------------------------------
VARIABLE part

jobsVars == <<part, vars, pageVars, targetVars, variableVars, outputVars>>

\* The parts that rest start in one state.
Rests ==
  /\ part # "jobs" => trigger = [r \in Run |-> "manual"]
  /\ part = "page" => stage[2] # "none"
  /\ part # "page" => stage[1] = "none" /\ selected = NoRunNo
  /\ part # "output" => way = "linear"
  /\ part # "targets" => page = "script" /\ inventory.members = {}
  /\ part \notin {"rows", "settings"} =>
       /\ ~onJob /\ \A p \in Playbook : declared[p] = Declaring(None, None, None)
       /\ playbook = CHOOSE p \in Playbook : TRUE

MCInit ==
  /\ part \in {"jobs", "page", "first", "output", "targets", "rows", "settings"}
  /\ Init /\ RunPageInit /\ RunTargetsInit /\ RunVariablesInit /\ RunOutputInit
  /\ Rests

Jobs == Next /\ UNCHANGED <<pageVars, targetVars, variableVars, outputVars>>
Page == RunPageNext /\ UNCHANGED <<vars, targetVars, variableVars, outputVars>>
Targets == RunTargetsNext /\ UNCHANGED <<vars, pageVars, variableVars, outputVars>>
Variables == RunVariablesNext /\ UNCHANGED <<vars, pageVars, targetVars, outputVars>>
Output == RunOutputNext /\ UNCHANGED <<vars, pageVars, targetVars, variableVars>>

\* The page of a job follows its runs, or its first one; it hears nothing only while it
\* watches none.  Two rows of variables are edited over settings that stay, or one over
\* settings that change.  Hosts that go on their own have fewer outcomes.
MCNext ==
  /\ UNCHANGED part
  /\ \/ part = "jobs" /\ Jobs
     \/ part = "page" /\ Page /\ (connected' \/ watch'.phase # "running")
     \/ part = "first" /\ Page /\ stage'[2] = "none"
     \/ /\ part = "output" /\ Output
        /\ way' = "free" => \A h \in Target, t \in 1 .. TaskCount : told'[h][t] \notin {"ignored", "skipped"}
     \/ part = "targets" /\ Targets
     \/ part = "rows" /\ Variables /\ UNCHANGED <<declared, connection, envsRead>>
     \/ part = "settings" /\ Variables /\ Len(rows') <= 1

MCSpec == MCInit /\ [][MCNext]_jobsVars
=============================================================================
