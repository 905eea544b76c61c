------------------------------- MODULE MCPages -------------------------------
(***************************************************************************)
(* The pages of the web app, each part on a small instance.  A behaviour   *)
(* is one of one part.                                                     *)
(***************************************************************************)
EXTENDS RunHistory, ResourceCache, RunStream, EditForms, KeyPairForm, RemoteBranches, CronForm, TLC

\* Expressions of a form: none, one that the assistant has no controls for, one of an interval
\* it does not offer, and one out of range.
MCTypedText == {NoText, Workdays, Cron(Every(7), Star, Star, Star), Cron(Num(9), Num(Morning), Star, Num(1))}

VARIABLE part

viewVars == <<historyVars, cacheVars, streamVars>>
dialogVars == <<formVars, keyVars, branchVars, cronVars>>
pagesVars == <<part, viewVars, dialogVars>>

\* The parts that rest start in one state.
Rests ==
  /\ part # "pages" => feedOf = "all"
  /\ part # "cache" =>
       query = "jobs" /\ hook = [m \in Mutation |-> CHOOSE h \in Hooks : query \in h.touches]
  /\ part # "form" => form = FolderForm
  /\ part # "schedule" => text = NoText
  /\ part # "branches" =>
       /\ savedAs = [url |-> NoRemote, name |-> CHOOSE b \in Branch : TRUE]
       /\ remoteHas = [r \in Remote |-> {}]
  /\ part \notin {"pages", "rates"} => \E j \in RunJob : ofJob = [r \in Run |-> j]

MCInit ==
  /\ part \in {"pages", "rates", "cache", "stream", "form", "keys", "branches", "schedule"}
  /\ Rests
  /\ RunHistoryInit /\ CacheInit /\ RunStreamInit
  /\ EditFormsInit /\ KeyPairInit /\ RemoteBranchesInit /\ CronFormInit
  /\ part = "pages" /\ feedOf = "all" => ofJob[1] = ofJob[2]

History == RunHistoryNext /\ UNCHANGED <<cacheVars, streamVars, dialogVars>>
Cache == CacheNext /\ UNCHANGED <<historyVars, streamVars, dialogVars>>
Stream == RunStreamNext /\ UNCHANGED <<historyVars, cacheVars, dialogVars>>
EditARow == EditFormsNext /\ UNCHANGED <<viewVars, keyVars, branchVars, cronVars>>
EditKeys == KeyPairNext /\ UNCHANGED <<viewVars, formVars, branchVars, cronVars>>
ChooseABranch == RemoteBranchesNext /\ UNCHANGED <<viewVars, formVars, keyVars, cronVars>>
SetASchedule == CronFormNext /\ UNCHANGED <<viewVars, formVars, keyVars, branchVars>>

\* Pages load while runs start and go, or runs also finish.
MCNext ==
  /\ UNCHANGED part
  /\ \/ part = "pages" /\ History /\ \A r \in Run : runRow'[r] \notin Finished
     \/ part = "rates" /\ History /\ wanted' = 0
     \/ part = "cache" /\ Cache
     \/ part = "stream" /\ Stream
     \/ part = "form" /\ EditARow
     \/ part = "keys" /\ EditKeys
     \/ part = "branches" /\ ChooseABranch
     \/ part = "schedule" /\ SetASchedule

\* The jobs of runs are alike, and so are mutations.
Alike == Permutations(RunJob) \cup Permutations(Mutation)

\* A form shows the stored row where nothing was typed, one key pair, a branch that its
\* remote has, and the schedule that it edits; it saves what it shows, loses nothing that was
\* typed, and takes no choice back (use-on-open.ts:6-11, playbook-form-page.tsx:116-133).
FormsAreTrue ==
  /\ [](UntouchedIsTheRow /\ PairsAreWhole /\ GeneratedIsWhole /\ BranchIsListed /\ ModeIsRead /\ RangesHold)
  /\ TypedIsKept /\ SavedAsShown /\ ChoiceIsKept /\ OneFieldAtATime /\ LosesOnlyWhatIsEmptied

MCSpec == MCInit /\ [][MCNext]_pagesVars
=============================================================================
