------------------------------ MODULE Scheduler ------------------------------
(***************************************************************************)
(* The in-process job scheduler (apps/backend/src/jobs/scheduler.ts): a    *)
(* set of Bun.cron entries kept in line with the jobs table by passes that *)
(* read the table, and, some time later, apply what they read.  Two passes *)
(* may be in flight at once and be applied in either order, and the jobs   *)
(* change under them.  An entry that fires calls executeJob, whose         *)
(* transaction opens the run; its streaming and settling are JobRuns.      *)
(*                                                                         *)
(* Time is left out: an armed entry may fire at any moment, the interval   *)
(* timer may tick at any moment.                                           *)
(***************************************************************************)
EXTENDS FiniteSets

CONSTANTS
  Jobs,         \* ids of jobs; an id is given once (uuid)
  Patterns,     \* valid cron patterns, trimmed
  NoPattern,    \* no pattern: null, blank, or not valid
  Pass,         \* reconcile passes in flight at once: a bound
  Firing,       \* cron handlers in flight at once: a bound
  Manual,       \* the execution a user started (startJobRun)
  Early,        \* one a user started before recoverOrphanedRuns
  Idle          \* no pass, no handler, no running row

ASSUME SchedulerAssumption ==
  /\ NoPattern \notin Patterns
  /\ Manual \notin Firing \cup {Early}
  /\ Early \notin Firing
  /\ Idle \notin Firing \cup {Manual, Early} \cup Jobs

VARIABLES
  jobs,       \* the jobs table: [state, enabled, cron]
  running,    \* job -> the execution holding its "running" row, or Idle
  booted,     \* bootstrap has finished: reconcileTimer is set
  pass,       \* pass -> [at, rows, behind]
  scheduled,  \* job -> [pattern, busy]: its cron entry, armed when not busy
  firing,     \* handler -> the job its executeJob is about, or Idle
  executing,  \* job -> the executions streaming a run of it
  behind      \* jobs changed since the read of the last pass applied

vars == <<jobs, running, booted, pass, scheduled, firing, executing, behind>>

Execution == Firing \cup {Manual, Early}
Pattern == Patterns \cup {NoPattern}
Row == [state : {"unborn", "live", "deleted"}, enabled : BOOLEAN, cron : Pattern]
Rows == [Jobs -> Pattern]

NoEntry == [pattern |-> NoPattern, busy |-> Idle]
NoPass == [at |-> "free", rows |-> [j \in Jobs |-> NoPattern], behind |-> {}]
AskingPass == [NoPass EXCEPT !.at = "asking"]

(* listScheduledJobs and the filter of the pass: the pattern the entry of a
   row should have. *)
Wanted(row) ==
  IF row.state = "live" /\ row.enabled THEN row.cron ELSE NoPattern

TypeOK ==
  /\ jobs \in [Jobs -> Row]
  /\ running \in [Jobs -> Execution \cup {Idle}]
  /\ booted \in BOOLEAN
  /\ pass \in [Pass -> [at : {"free", "asking", "answered"}, rows : Rows,
                        behind : SUBSET Jobs]]
  /\ scheduled \in [Jobs -> [pattern : Pattern, busy : Firing \cup {Idle}]]
  /\ firing \in [Firing -> Jobs \cup {Idle}]
  /\ executing \in [Jobs -> SUBSET Execution]
  /\ behind \in SUBSET Jobs

-----------------------------------------------------------------------------
(* The process *)

Init ==
  /\ jobs = [j \in Jobs |-> [state |-> "unborn", enabled |-> FALSE,
                             cron |-> NoPattern]]
  /\ running = [j \in Jobs |-> Idle]
  /\ booted = FALSE
  /\ pass = [p \in Pass |-> NoPass]
  /\ scheduled = [j \in Jobs |-> NoEntry]
  /\ firing = [h \in Firing |-> Idle]
  /\ executing = [j \in Jobs |-> {}]
  /\ behind = Jobs

(* bootstrap: recoverOrphanedRuns fails every running row, that of a run some
   user has started meanwhile too, and startJobScheduler starts a first pass and
   the interval. *)
Boot ==
  /\ ~booted
  /\ booted' = TRUE
  /\ running' = [j \in Jobs |-> Idle]
  /\ \E p \in Pass : pass' = [pass EXCEPT ![p] = AskingPass]
  /\ UNCHANGED <<jobs, scheduled, firing, executing, behind>>

(* SIGTERM, where stopJobScheduler is followed at once by process.exit, or a
   crash: only the tables survive. *)
Stop ==
  /\ booted' = FALSE
  /\ pass' = [p \in Pass |-> NoPass]
  /\ scheduled' = [j \in Jobs |-> NoEntry]
  /\ firing' = [h \in Firing |-> Idle]
  /\ executing' = [j \in Jobs |-> {}]
  /\ behind' = Jobs
  /\ UNCHANGED <<jobs, running>>

-----------------------------------------------------------------------------
(* The jobs table: the handlers of packages/api/src/v1/jobs/handler.ts *)

(* A committed change of a row: no pass has seen it yet. *)
Commit(j, row) ==
  /\ jobs' = [jobs EXCEPT ![j] = row]
  /\ behind' = behind \cup {j}
  /\ pass' = [p \in Pass |->
                IF pass[p].at = "answered"
                  THEN [pass[p] EXCEPT !.behind = @ \cup {j}] ELSE pass[p]]
  /\ UNCHANGED <<booted, scheduled, firing, executing>>

Create(j) ==
  /\ jobs[j].state = "unborn"
  /\ \E e \in BOOLEAN, c \in Pattern :
       Commit(j, [state |-> "live", enabled |-> e, cron |-> c])
  /\ UNCHANGED running

(* A full write of the row *)
Update(j) ==
  /\ jobs[j].state = "live"
  /\ \E e \in BOOLEAN, c \in Pattern :
       Commit(j, [state |-> "live", enabled |-> e, cron |-> c])
  /\ UNCHANGED running

ToggleEnabled(j) ==
  /\ jobs[j].state = "live"
  /\ \E e \in BOOLEAN : Commit(j, [jobs[j] EXCEPT !.enabled = e])
  /\ UNCHANGED running

(* The rows of the job's runs go with it. *)
Delete(j) ==
  /\ jobs[j].state = "live"
  /\ Commit(j, [state |-> "deleted", enabled |-> FALSE, cron |-> NoPattern])
  /\ running' = [running EXCEPT ![j] = Idle]

-----------------------------------------------------------------------------
(* reconcile *)

(* The interval fires: it does not wait for the pass before it. *)
Tick(p) ==
  /\ booted
  /\ pass[p].at = "free"
  /\ pass' = [pass EXCEPT ![p] = AskingPass]
  /\ UNCHANGED <<jobs, running, booted, scheduled, firing, executing, behind>>

(* The database runs the query of listScheduledJobs. *)
Read(p) ==
  /\ pass[p].at = "asking"
  /\ pass' = [pass EXCEPT ![p] = [at |-> "answered",
                                  rows |-> [j \in Jobs |-> Wanted(jobs[j])],
                                  behind |-> {}]]
  /\ UNCHANGED <<jobs, running, booted, scheduled, firing, executing, behind>>

(* The query fails: logged, and the pass is over. *)
ReadFails(p) ==
  /\ pass[p].at = "asking"
  /\ pass' = [pass EXCEPT ![p] = NoPass]
  /\ UNCHANGED <<jobs, running, booted, scheduled, firing, executing, behind>>

(* Mutant: a changed pattern is not noticed. *)
MutReconciled(entry, pattern) ==
  IF entry.pattern # NoPattern /\ pattern # NoPattern
    THEN entry ELSE [pattern |-> pattern, busy |-> Idle]

(* Mutant: jobs no longer listed keep their entry. *)
MutReconciledKeeps(entry, pattern) ==
  IF pattern \in {NoPattern, entry.pattern}
    THEN entry ELSE [pattern |-> pattern, busy |-> Idle]

(* An entry is left alone when its pattern is the one read, dropped when none
   was read, and otherwise created anew.  Stopping an entry leaves its handler,
   if it has one in flight, to run on. *)
Reconciled(entry, pattern) ==
  IF entry.pattern = pattern THEN entry
                             ELSE [pattern |-> pattern, busy |-> Idle]

(* What follows the await: synchronous, so nothing comes between. *)
Apply(p) ==
  /\ pass[p].at = "answered"
  /\ scheduled' = [j \in Jobs |-> Reconciled(scheduled[j], pass[p].rows[j])]
  /\ behind' = pass[p].behind
  /\ pass' = [pass EXCEPT ![p] = NoPass]
  /\ UNCHANGED <<jobs, running, booted, firing, executing>>

-----------------------------------------------------------------------------
(* Firing *)

(* The cron callback starts; Bun.cron arms the entry again when it settles. *)
Fire(j, h) ==
  /\ scheduled[j].pattern # NoPattern
  /\ scheduled[j].busy = Idle
  /\ firing[h] = Idle
  /\ firing' = [firing EXCEPT ![h] = j]
  /\ scheduled' = [scheduled EXCEPT ![j].busy = h]
  /\ UNCHANGED <<jobs, running, booted, pass, executing, behind>>

(* Mutant: no check for a running row. *)
MutOpen(j, x) ==
  /\ jobs[j].state = "live"
  /\ running' = [running EXCEPT ![j] = x]
  /\ executing' = [executing EXCEPT ![j] = @ \cup {x}]

(* The transaction of openRun, when it opens a run of j for execution x. *)
Open(j, x) ==
  /\ jobs[j].state = "live"
  /\ running[j] = Idle
  /\ running' = [running EXCEPT ![j] = x]
  /\ executing' = [executing EXCEPT ![j] = @ \cup {x}]

(* Mutant: the row is settled while the execution goes on. *)
MutComplete(j, x) ==
  /\ x \in executing[j]
  /\ executing' = executing
  /\ running' = [running EXCEPT ![j] = Idle]

(* completeRun is over: the row is settled, or, when the database refused the
   settling and its retry, left as running until the next boot. *)
Complete(j, x) ==
  /\ x \in executing[j]
  /\ executing' = [executing EXCEPT ![j] = @ \ {x}]
  /\ \/ running' = [running EXCEPT ![j] = IF @ = x THEN Idle ELSE @]
     \/ UNCHANGED running

(* Mutant: a failing handler does not settle its entry. *)
MutRearm(h) ==
  /\ firing' = [firing EXCEPT ![h] = Idle]
  /\ scheduled' = scheduled

(* The handler has settled: its entry, if it still has one, is armed. *)
Rearm(h) ==
  /\ firing' = [firing EXCEPT ![h] = Idle]
  /\ scheduled' = [j \in Jobs |->
                     IF scheduled[j].busy = h
                       THEN [scheduled[j] EXCEPT !.busy = Idle] ELSE scheduled[j]]

OpenFiring(h) ==
  /\ firing[h] \in Jobs
  /\ h \notin executing[firing[h]]
  /\ Open(firing[h], h)
  /\ UNCHANGED <<jobs, booted, pass, scheduled, firing, behind>>

(* executeJob returns null (job gone, or already running), or openRun throws
   and the callback logs it. *)
SkipFiring(h) ==
  /\ firing[h] \in Jobs
  /\ h \notin executing[firing[h]]
  /\ Rearm(h)
  /\ UNCHANGED <<jobs, running, booted, pass, executing, behind>>

CompleteFiring(h) ==
  /\ firing[h] \in Jobs
  /\ Complete(firing[h], h)
  /\ Rearm(h)
  /\ UNCHANGED <<jobs, booted, pass, behind>>

(* jobs.run: startJobRun, from a request, which is served during the boot too *)
OpenManual(j) ==
  /\ Open(j, IF booted THEN Manual ELSE Early)
  /\ UNCHANGED <<jobs, booted, pass, scheduled, firing, behind>>

CompleteManual(j) ==
  /\ \E x \in {Manual, Early} : Complete(j, x)
  /\ UNCHANGED <<jobs, booted, pass, scheduled, firing, behind>>

-----------------------------------------------------------------------------
Edit(j) == Create(j) \/ Update(j) \/ ToggleEnabled(j) \/ Delete(j)
Reconcile(p) == Tick(p) \/ Read(p) \/ ReadFails(p) \/ Apply(p)
Handler(h) == OpenFiring(h) \/ SkipFiring(h) \/ CompleteFiring(h)

Next ==
  \/ Boot
  \/ Stop
  \/ \E j \in Jobs : \/ Edit(j)
                     \/ OpenManual(j)
                     \/ CompleteManual(j)
                     \/ \E h \in Firing : Fire(j, h)
  \/ \E p \in Pass : Reconcile(p)
  \/ \E h \in Firing : Handler(h)

Spec == Init /\ [][Next]_vars

(* Boots end, the interval keeps ticking and answers are handled.  A query may
   fail, but not every time it is ever asked.  Runs end: their stream has a
   timeout (JobRuns). *)
Fairness ==
  /\ WF_vars(Boot)
  /\ \A p \in Pass : /\ WF_vars(Tick(p))
                     /\ SF_vars(Read(p))
                     /\ WF_vars(Apply(p))
  /\ \A h \in Firing : /\ WF_vars(OpenFiring(h) \/ SkipFiring(h))
                       /\ WF_vars(CompleteFiring(h))

FairSpec == Spec /\ Fairness

-----------------------------------------------------------------------------
(* Properties *)

(* What a pass was told disagrees with the table only for jobs edited since. *)
PassesLagOnlyBehindEdits ==
  \A p \in Pass : pass[p].at = "answered" =>
    \A j \in Jobs \ pass[p].behind : pass[p].rows[j] = Wanted(jobs[j])

(* Before the boot ends nothing is scheduled, and only users have runs begun. *)
NothingBeforeBoot ==
  ~booted => /\ behind = Jobs
             /\ \A p \in Pass : pass[p].at = "free"
             /\ \A j \in Jobs : scheduled[j] = NoEntry /\ executing[j] \subseteq {Early}
             /\ \A h \in Firing : firing[h] = Idle

(* Only jobs that exist, or existed, are executed, and the execution of one that
   still exists holds its running row, until recovery takes it from an early one:
   the row is the lock (executor.ts:298-303). *)
ExecutionsHoldRows ==
  \A j \in Jobs :
    /\ jobs[j].state = "live" =>
         \A x \in executing[j] : running[j] = x \/ (booted /\ x = Early)
    /\ jobs[j].state = "unborn" => executing[j] = {}

(* An entry that disagrees with its job's row is the entry of a job edited after
   the read of the last pass applied.  A pass therefore never undoes anything
   but an edit it could not have seen, and when edits pause one pass mends all,
   however passes overlapped: reconcile skips, replaces or removes no entry
   wrongly. *)
EntriesLagOnlyBehindEdits ==
  booted => \A j \in Jobs \ behind : scheduled[j].pattern = Wanted(jobs[j])

(* A job never runs twice at once: not by its entry and a user, and not by an
   entry and the one that replaced it while its handler was still running, of
   which Bun.cron knows nothing (scheduler.ts:19-20, executor.ts:298-303).  The
   exception is a run that a user started before recovery: it may go on beside
   one other. *)
NeverTwiceAtOnce ==
  \A j \in Jobs : \A x, y \in executing[j] \ {Early} : x = y

(* The inductive invariant *)
SchedulerInv ==
  /\ TypeOK
  /\ PassesLagOnlyBehindEdits
  /\ NothingBeforeBoot
  /\ ExecutionsHoldRows
  /\ EntriesLagOnlyBehindEdits
  /\ NeverTwiceAtOnce

(* An entry that fired is armed again, or gone: whatever becomes of its run, of
   its job and of the entry itself meanwhile, no job is silenced for good
   because its entry waits for a handler that ended. *)
EntriesRearm ==
  \A j \in Jobs : scheduled[j].busy # Idle ~> scheduled[j].busy = Idle

(* When a job's row stops changing and the process stays up, its entry becomes,
   and remains, the one the row asks for: none when it is disabled, deleted or
   without a pattern (reconcile, scheduler.ts:39-66). *)
EntriesFollowJobs ==
  \A j \in Jobs : \A w \in Pattern :
    (<>[](booted /\ Wanted(jobs[j]) = w)) => <>[](scheduled[j].pattern = w)
=============================================================================
