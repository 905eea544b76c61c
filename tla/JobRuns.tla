------------------------------ MODULE JobRuns ------------------------------
(***************************************************************************)
(* The life of a job run in the backend: packages/api/src/v1/jobs opens a  *)
(* `job_runs` row, streams the playbook through the ansible service, keeps *)
(* the run in the live registry meanwhile, and stores how it ended.  The   *)
(* `running` row is also the lock that keeps a job from running twice.     *)
(*                                                                         *)
(* Three parties interleave: the executor tasks (one per run, driven by    *)
(* HTTP handlers and by the scheduler), the cancel handler, and the boot   *)
(* sequence of apps/backend (recoverOrphanedRuns).  The process may crash  *)
(* between any two steps, and every statement sent to Postgres may fail,   *)
(* or succeed without its acknowledgement arriving.                        *)
(***************************************************************************)
EXTENDS Naturals

CONSTANTS
  Job,                \* jobs that exist at the start
  Run,                \* ids of the runs that can be opened
  User,               \* names recorded by a cancellation
  NoOne,              \* a null `cancelledBy`
  Key,                \* values of hashtext(jobId)
  KeyOf,              \* the hash: jobs may collide
  MaxCrashes,         \* bound: crashes and restarts of the process
  MaxDbFaults         \* bound: statements that fail

ASSUME JobRunsAssumption ==
  /\ NoOne \notin User
  /\ KeyOf \in [Job -> Key]
  /\ MaxCrashes \in Nat
  /\ MaxDbFaults \in Nat

VARIABLES
  \* Postgres: survives a crash.
  jobs,       \* ids in the jobs table
  status,     \* job_runs.status of each run, or "unused" / "deleted"
  jobOf,      \* job_runs.job_id
  trigger,    \* job_runs.trigger
  by,         \* the name in job_runs.error ("Cancelada por ...")
  \* The backend process.
  phase,      \* "down", "booting" (serving, bootstrap() pending) or "ready"
  step,       \* where the executor task of each run is
  frame,      \* the terminal frame streamRun has read from the gRPC stream
  outcome,    \* completeRun's `status`
  live,       \* the run's entry of the live registry
  canceller,  \* LiveRun.cancelledBy; set iff the run's signal is aborted
  pending,    \* cancel requests that have read the row, by <<user, run>>
  \* What clients were told, and the faults so far.
  announced,  \* last status of the run published on "run-changed"
  early,      \* runs opened before recoverOrphanedRuns of their process
  lost,       \* runs whose row the database failed to bring up to date
  crashes, faults

dbVars   == <<jobs, status, jobOf, trigger, by>>
taskVars == <<frame, outcome>>
liveVars == <<live, canceller>>
history  == <<announced, early, lost>>
limits   == <<crashes, faults>>
vars == <<dbVars, phase, step, taskVars, liveVars, pending, history, limits>>

Settled   == {"ok", "failed", "cancelled"}
RowStatus == Settled \cup {"unused", "running", "deleted"}

\* Between the commit of the row and the first update of it.
Active   == {"opened", "resolving", "streaming", "saving"}
\* Holding pg_advisory_xact_lock.
HoldsLock == {"checking", "inserting"}
Steps == Active \cup HoldsLock
           \cup {"idle", "locking", "retrying", "saved", "finished"}

TypeOK ==
  /\ jobs \subseteq Job
  /\ status \in [Run -> RowStatus]
  /\ jobOf \in [Run -> Job]
  /\ trigger \in [Run -> {"manual", "schedule"}]
  /\ by \in [Run -> User \cup {NoOne}]
  /\ phase \in {"down", "booting", "ready"}
  /\ step \in [Run -> Steps]
  /\ frame \in [Run -> {"none", "ok", "failed"}]
  /\ outcome \in [Run -> Settled \cup {"none"}]
  /\ live \in [Run -> {"absent", "live", "done"}]
  /\ canceller \in [Run -> User \cup {NoOne}]
  /\ pending \subseteq User \X Run
  /\ announced \in [Run -> Settled \cup {"none", "running"}]
  /\ early \subseteq Run
  /\ lost \subseteq Run
  /\ crashes \in Nat
  /\ faults \in Nat

Init ==
  /\ jobs = Job
  /\ status = [r \in Run |-> "unused"]
  /\ jobOf \in [Run -> Job]
  /\ trigger \in [Run -> {"manual", "schedule"}]
  /\ by = [r \in Run |-> NoOne]
  /\ phase = "down"
  /\ step = [r \in Run |-> "idle"]
  /\ frame = [r \in Run |-> "none"]
  /\ outcome = [r \in Run |-> "none"]
  /\ live = [r \in Run |-> "absent"]
  /\ canceller = [r \in Run |-> NoOne]
  /\ pending = {}
  /\ announced = [r \in Run |-> "none"]
  /\ early = {}
  /\ lost = {}
  /\ crashes = 0
  /\ faults = 0

Goto(r, s) == step' = [step EXCEPT ![r] = s]
DbFault == faults < MaxDbFaults /\ faults' = faults + 1

----------------------------------------------------------------------------
(* Boot, recovery and crashes (apps/backend).                              *)

\* The module's top level ends with the server exported and bootstrap() begun.
Boot ==
  /\ phase = "down"
  /\ phase' = "booting"
  /\ UNCHANGED <<dbVars, step, taskVars, liveVars, pending, history, limits>>

\* mutant: only scheduled runs are recovered
MutOrphanedRows == {r \in Run : status[r] = "running" /\ trigger[r] = "schedule"}
OrphanedRows == {r \in Run : status[r] = "running"}

\* One UPDATE over every running row, then the scheduler starts.
RecoverOrphanedRuns ==
  /\ phase = "booting"
  /\ phase' = "ready"
  /\ status' = [r \in Run |-> IF r \in OrphanedRows THEN "failed" ELSE status[r]]
  /\ UNCHANGED <<jobs, jobOf, trigger, by, step, taskVars, liveVars, pending,
                 history, limits>>

\* The process dies, exits on a signal, or fails to bootstrap.  Open
\* transactions roll back; everything in memory is gone.
Crash ==
  /\ phase # "down"
  /\ crashes < MaxCrashes
  /\ crashes' = crashes + 1
  /\ phase' = "down"
  /\ step' = [r \in Run |-> "idle"]
  /\ live' = [r \in Run |-> "absent"]
  /\ canceller' = [r \in Run |-> NoOne]
  /\ pending' = {}
  /\ UNCHANGED <<dbVars, taskVars, history, faults>>

----------------------------------------------------------------------------
(* openRun: one transaction per call, under an advisory lock on the job.   *)
(* The call that would insert row r is written step[r]; r is free again    *)
(* when the call ends without inserting.                                   *)

Up == phase # "down"

\* A request, which the server answers while bootstrap() is pending too, or a
\* tick of the scheduler, which only runs after recovery.
MayCall(r) == phase = "ready" \/ (phase = "booting" /\ trigger[r] = "manual")

CallOpenRun(r) ==
  /\ MayCall(r)
  /\ status[r] = "unused"
  /\ step[r] = "idle"
  /\ Goto(r, "locking")
  /\ UNCHANGED <<dbVars, phase, taskVars, liveVars, pending, history, limits>>

MutLockFree(r) == TRUE \* mutant: no advisory lock
LockFree(r) ==
  \A o \in Run : KeyOf[jobOf[o]] = KeyOf[jobOf[r]] => step[o] \notin HoldsLock

AcquireLock(r) ==
  /\ step[r] = "locking"
  /\ LockFree(r)
  /\ Goto(r, "checking")
  /\ UNCHANGED <<dbVars, phase, taskVars, liveVars, pending, history, limits>>

\* mutant: only a run of the same trigger counts as a conflict
MutHasRunningRow(r) ==
  \E o \in Run : /\ jobOf[o] = jobOf[r]
                 /\ trigger[o] = trigger[r]
                 /\ status[o] = "running"
HasRunningRow(r) ==
  \E o \in Run : jobOf[o] = jobOf[r] /\ status[o] = "running"

\* The two selects: "not_found" or "conflict" end the call.
CheckJob(r) ==
  /\ step[r] = "checking"
  /\ IF jobOf[r] \in jobs /\ ~HasRunningRow(r)
       THEN Goto(r, "inserting")
       ELSE Goto(r, "idle")
  /\ UNCHANGED <<dbVars, phase, taskVars, liveVars, pending, history, limits>>

\* Insert and commit.  Had the job been deleted meanwhile, its foreign key
\* would make the insert fail (OpenRunFails).
InsertRow(r) ==
  /\ step[r] = "inserting"
  /\ jobOf[r] \in jobs
  /\ status' = [status EXCEPT ![r] = "running"]
  /\ early' = IF phase = "booting" THEN early \cup {r} ELSE early
  /\ UNCHANGED <<jobs, jobOf, trigger, by, phase, taskVars, liveVars, pending,
                 announced>>

OpenRun(r) ==
  /\ InsertRow(r)
  /\ Goto(r, "opened")
  /\ UNCHANGED <<lost, limits>>

\* The commit's acknowledgement is lost: the caller sees an error, the row stays.
OpenRunUnacknowledged(r) ==
  /\ InsertRow(r)
  /\ DbFault
  /\ Goto(r, "idle")
  /\ lost' = lost \cup {r}
  /\ UNCHANGED crashes

\* A statement fails, or the job is gone: the transaction rolls back.
OpenRunFails(r) ==
  /\ \/ step[r] \in {"locking"} \cup HoldsLock /\ DbFault
     \/ step[r] = "inserting" /\ jobOf[r] \notin jobs /\ UNCHANGED faults
  /\ Goto(r, "idle")
  /\ UNCHANGED <<dbVars, phase, taskVars, liveVars, pending, history, crashes>>

----------------------------------------------------------------------------
(* streamRun, inside completeRun.                                          *)

Aborted(r) == canceller[r] # NoOne

\* streamRun returned: completeRun fixes the status and sends the update.
Save(r, s) ==
  /\ Goto(r, "saving")
  /\ outcome' = [outcome EXCEPT ![r] = s]

\* beginLiveRun, the "running" change, and streamRun up to its first await.
\* A job without playbook or inventory fails before any.
BeginRun(r) ==
  /\ step[r] = "opened"
  /\ live' = [live EXCEPT ![r] = "live"]
  /\ announced' = [announced EXCEPT ![r] = "running"]
  /\ \/ Goto(r, "resolving") /\ UNCHANGED outcome
     \/ Save(r, "failed")
  /\ UNCHANGED <<dbVars, phase, frame, canceller, pending, early, lost, limits>>

\* The run cannot be resolved, or no service token is configured.
ResolveFails(r) ==
  /\ step[r] = "resolving"
  /\ Save(r, "failed")
  /\ UNCHANGED <<dbVars, phase, frame, liveVars, pending, history, limits>>

Resolved(r) ==
  /\ step[r] = "resolving"
  /\ IF Aborted(r) THEN Save(r, "cancelled")
                   ELSE Goto(r, "streaming") /\ UNCHANGED outcome
  /\ UNCHANGED <<dbVars, phase, frame, liveVars, pending, history, limits>>

\* A `done` or `error` frame.  The loop goes on until the stream ends; the
\* service sends one such frame and closes.
TerminalFrame(r) ==
  /\ step[r] = "streaming"
  /\ frame[r] = "none"
  /\ \E f \in {"ok", "failed"} : frame' = [frame EXCEPT ![r] = f]
  /\ UNCHANGED <<dbVars, phase, step, outcome, liveVars, pending, history, limits>>

\* mutant: a cancellation counts even after the terminal frame
MutStreamOutcome(r) ==
  IF Aborted(r) THEN "cancelled" ELSE IF frame[r] = "ok" THEN "ok" ELSE "failed"
\* mutant: a stream without terminal frame has no outcome
MutNoOutcome(r) == IF Aborted(r) /\ frame[r] = "none" THEN "cancelled" ELSE frame[r]
StreamOutcome(r) ==
  CASE frame[r] = "ok" -> "ok"
    [] frame[r] = "none" /\ Aborted(r) -> "cancelled"
    [] OTHER -> "failed"

\* The stream ends, or fails because the cancellation closed it.
StreamEnds(r) ==
  /\ step[r] = "streaming"
  /\ Save(r, StreamOutcome(r))
  /\ UNCHANGED <<dbVars, phase, frame, liveVars, pending, history, limits>>

\* The stream fails (connection lost, deadline) and nobody cancelled.
StreamBreaks(r) ==
  /\ step[r] = "streaming"
  /\ ~Aborted(r)
  /\ Save(r, "failed")
  /\ UNCHANGED <<dbVars, phase, frame, liveVars, pending, history, limits>>

----------------------------------------------------------------------------
(* completeRun: storing the outcome.                                       *)

\* An update by id: it changes the row whatever its status, if it still exists.
StoreOutcome(r, s) ==
  IF status[r] = "deleted"
    THEN UNCHANGED <<status, by>>
    ELSE /\ status' = [status EXCEPT ![r] = s]
         /\ by' = [by EXCEPT ![r] = IF s = "cancelled" THEN canceller[r] ELSE NoOne]

SaveOutcome(r) ==
  /\ step[r] = "saving"
  /\ StoreOutcome(r, outcome[r])
  /\ Goto(r, "saved")
  /\ UNCHANGED <<jobs, jobOf, trigger, phase, taskVars, liveVars, pending,
                 history, limits>>

MutRetryOutcome(s) == "failed" \* mutant: the retry forgets the cancellation
RetryOutcome(s) == IF s = "cancelled" THEN s ELSE "failed"

\* The update fails, having been applied or not: a smaller one is tried.
SaveFails(r) ==
  /\ step[r] = "saving"
  /\ DbFault
  /\ StoreOutcome(r, outcome[r]) \/ UNCHANGED <<status, by>>
  /\ outcome' = [outcome EXCEPT ![r] = RetryOutcome(outcome[r])]
  /\ Goto(r, "retrying")
  /\ UNCHANGED <<jobs, jobOf, trigger, phase, frame, liveVars, pending, history,
                 crashes>>

RetrySave(r) ==
  /\ step[r] = "retrying"
  /\ StoreOutcome(r, outcome[r])
  /\ Goto(r, "saved")
  /\ UNCHANGED <<jobs, jobOf, trigger, phase, taskVars, liveVars, pending,
                 history, limits>>

MutAfterRetryFails == "idle" \* mutant: the error skips `finally`
AfterRetryFails == "saved"

\* The retry's error is only logged.
RetryFails(r) ==
  /\ step[r] = "retrying"
  /\ DbFault
  /\ StoreOutcome(r, outcome[r]) \/ UNCHANGED <<status, by>>
  /\ lost' = lost \cup {r}
  /\ Goto(r, AfterRetryFails)
  /\ UNCHANGED <<jobs, jobOf, trigger, phase, taskVars, liveVars, pending,
                 announced, early, crashes>>

\* mutant: the finish is announced while the update is still in flight
MutReadyToFinish(r) == step[r] \in {"saving", "saved"}
ReadyToFinish(r) == step[r] = "saved"

\* The `finally` block: finishLiveRun and the finish change.
FinishRun(r) ==
  /\ ReadyToFinish(r)
  /\ live' = [live EXCEPT ![r] = "done"]
  /\ announced' = [announced EXCEPT ![r] = outcome[r]]
  /\ Goto(r, "finished")
  /\ UNCHANGED <<dbVars, phase, taskVars, canceller, pending, early, lost, limits>>

\* FINISHED_RUN_TTL_MS after the finish, the registry forgets the run.
ForgetLiveRun(r) ==
  /\ live[r] = "done"
  /\ live' = [live EXCEPT ![r] = "absent"]
  /\ canceller' = [canceller EXCEPT ![r] = NoOne]
  /\ UNCHANGED <<dbVars, phase, step, taskVars, pending, history, limits>>

----------------------------------------------------------------------------
(* jobs.runs.cancel and jobs.delete.                                       *)

\* mutant: a scheduled run can be cancelled too
MutMayCancel(r) == status[r] = "running"
MayCancel(r) == status[r] = "running" /\ trigger[r] = "manual"

\* The select.  NOT_FOUND and FORBIDDEN end the request, as does the CONFLICT
\* of a row that is not running.
ReadRunToCancel(u, r) ==
  /\ Up
  /\ <<u, r>> \notin pending
  /\ MayCancel(r)
  /\ pending' = pending \cup {<<u, r>>}
  /\ UNCHANGED <<dbVars, phase, step, taskVars, liveVars, history, limits>>

MutNameAfter(u, r) == u \* mutant: `=` instead of `??=`
NameAfter(u, r) == IF canceller[r] = NoOne THEN u ELSE canceller[r]

\* cancelLiveRun with what the select returned; CONFLICT unless live.
CancelLiveRun(u, r) ==
  /\ <<u, r>> \in pending
  /\ pending' = pending \ {<<u, r>>}
  /\ canceller' = IF live[r] = "live"
                    THEN [canceller EXCEPT ![r] = NameAfter(u, r)]
                    ELSE canceller
  /\ UNCHANGED <<dbVars, phase, step, taskVars, live, history, limits>>

\* The foreign key of job_runs cascades.  Nothing stops a run in progress.
DeleteJob(j) ==
  /\ Up
  /\ j \in jobs
  /\ jobs' = jobs \ {j}
  /\ status' = [r \in Run |-> IF jobOf[r] = j /\ status[r] # "unused"
                                THEN "deleted" ELSE status[r]]
  /\ UNCHANGED <<jobOf, trigger, by, phase, step, taskVars, liveVars, pending,
                 history, limits>>

----------------------------------------------------------------------------
Opening(r) ==
  \/ CallOpenRun(r) \/ AcquireLock(r) \/ CheckJob(r)
  \/ OpenRun(r) \/ OpenRunUnacknowledged(r) \/ OpenRunFails(r)
Streaming(r) ==
  \/ BeginRun(r) \/ ResolveFails(r) \/ Resolved(r)
  \/ TerminalFrame(r) \/ StreamEnds(r) \/ StreamBreaks(r)
Storing(r) ==
  \/ SaveOutcome(r) \/ SaveFails(r) \/ RetrySave(r) \/ RetryFails(r)
  \/ FinishRun(r) \/ ForgetLiveRun(r)

Next ==
  \/ Boot \/ RecoverOrphanedRuns \/ Crash
  \/ \E r \in Run : Opening(r) \/ Streaming(r) \/ Storing(r)
  \/ \E u \in User, r \in Run : ReadRunToCancel(u, r) \/ CancelLiveRun(u, r)
  \/ \E j \in Job : DeleteJob(j)

Spec == Init /\ [][Next]_vars

(***************************************************************************)
(* Fairness.  The container restarts the process and bootstrap() proceeds. *)
(* A task that can take its next step does: queries and gRPC calls return  *)
(* (a stream at the latest at its deadline, RUN_TIMEOUT_MS).  Postgres     *)
(* grants an advisory lock in the order it was asked for, so a waiter that *)
(* can repeatedly get it does (strong fairness).  Nothing obliges anyone   *)
(* to start, cancel or delete.                                             *)
(***************************************************************************)
TaskStep(r) ==
  \/ CheckJob(r) \/ OpenRun(r) \/ OpenRunFails(r)
  \/ Streaming(r)
  \/ SaveOutcome(r) \/ RetrySave(r) \/ FinishRun(r)

Fairness ==
  /\ WF_vars(Boot) /\ WF_vars(RecoverOrphanedRuns)
  /\ \A r \in Run : WF_vars(TaskStep(r)) /\ SF_vars(AcquireLock(r))

FairSpec == Spec /\ Fairness

----------------------------------------------------------------------------
(* Correctness.                                                            *)

InProgress(r) == step[r] \in Active

\* What openRun's comment promises: no two runs of a job are ever in progress.
\* It fails when requests arrive before recoverOrphanedRuns (run job_runs_boot_race).
OneRunPerJob ==
  \A r, o \in Run :
    r # o /\ jobOf[r] = jobOf[o] => ~(InProgress(r) /\ InProgress(o))

\* The same for the runs opened after recovery: whatever crashes, deletes and
\* database errors happen, two of them never execute one job together.
OneRunPerJobOnceRecovered ==
  \A r, o \in Run \ early :
    r # o /\ jobOf[r] = jobOf[o] => ~(InProgress(r) /\ InProgress(o))

\* After recovery a `running` row, which blocks its job, has a live task that
\* will settle it -- or the database failed twice on it (or on its commit).
NoOrphanOnceRecovered ==
  phase = "ready" =>
    \A r \in Run :
      status[r] = "running" =>
        step[r] \in Active \cup {"retrying"} \/ r \in lost

\* The lock of a job is its running row: once recovered, it is one's alone and is not left
\* behind by one who is gone (executor.ts:319-345, scheduler.ts:74-80).
LocksHoldOnceRecovered == OneRunPerJobOnceRecovered /\ NoOrphanOnceRecovered

\* A client that refetches on a finish change reads the announced status:
\* the row was written first, and nothing rewrites it.
AnnouncedIsStored ==
  \A r \in Run :
    announced[r] \in Settled =>
      status[r] \in {announced[r], "deleted"} \/ r \in lost

\* A cancelled run was started by a person, its row names a user who asked
\* for it, and no terminal frame had been read.
CancelledWasAskedFor ==
  \A r \in Run :
    status[r] = "cancelled" =>
      trigger[r] = "manual" /\ by[r] \in User /\ frame[r] = "none"

\* Nothing rewrites a row once it says cancelled, the retry of a failed
\* update included, except deleting the job.
CancelledStays ==
  [][\A r \in Run : status[r] = "cancelled" => status'[r] \in {"cancelled", "deleted"}]_vars

\* While the registry holds a run, whoever cancelled it first stays recorded.
FirstNameKept ==
  [][\A r \in Run : Aborted(r) /\ live'[r] # "absent" => canceller'[r] = canceller[r]]_vars

\* A cancellation holds: its row stays, and so does the name of who asked first
\* (live.ts:74-79).
CancellationHolds == CancelledStays /\ FirstNameKept

\* Every opened run reaches `finally`: watchers get a result and the registry
\* entry is released, unless the process dies first.
RunsFinish == \A r \in Run : step[r] = "opened" ~> step[r] = "finished" \/ phase = "down"

\* Every running row is settled, by its task or by the recovery of the next
\* boot, unless the database failed on it.
RowsSettle == \A r \in Run : status[r] = "running" ~> status[r] # "running" \/ r \in lost

\* A run comes to its end everywhere: in the registry and in its row.
RunsSettle == RunsFinish /\ RowsSettle

----------------------------------------------------------------------------
(* The inductive invariant behind the safety properties.                   *)

\* A process that is down runs no task, and until recovery has run the only
\* unsettled runs are the early ones.
BootInv ==
  /\ phase = "down" => \A r \in Run : step[r] = "idle"
  /\ phase = "booting" =>
       \A r \in Run : step[r] \in Active \cup {"retrying"} => r \in early

\* The lock excludes; its holder's check stays true until it inserts.
LockInv ==
  /\ \A r, o \in Run :
       r # o /\ step[r] \in HoldsLock /\ step[o] \in HoldsLock
         => KeyOf[jobOf[r]] # KeyOf[jobOf[o]]
  /\ \A r \in Run : step[r] \in {"locking"} \cup HoldsLock => status[r] = "unused"
  /\ \A r, o \in Run :
       step[r] = "inserting" /\ jobOf[o] = jobOf[r] => status[o] # "running"

\* The row of a run in progress is the lock, unless its job was deleted or the
\* recovery of its own process failed it.
RowInv ==
  /\ \A r \in Run : InProgress(r) => status[r] \in {"running", "failed", "deleted"}
  /\ \A r \in Run : InProgress(r) /\ status[r] = "failed" => r \in early /\ phase = "ready"
  /\ \A r \in Run : status[r] = "deleted" => jobOf[r] \notin jobs
  /\ \A r \in Run : step[r] \in {"retrying", "saved", "finished"} => status[r] # "unused"

OutcomeInv ==
  /\ \A r \in Run : step[r] \in {"saving", "retrying", "saved"} => outcome[r] \in Settled
  /\ \A r \in Run :
       step[r] = "retrying" =>
         /\ outcome[r] # "ok"
         /\ \/ status[r] \in {"running", "deleted"}
            \/ outcome[r] = RetryOutcome(status[r])
            \/ status[r] = "failed" /\ r \in early /\ phase = "ready"
  /\ \A r \in Run :
       step[r] = "saved" => status[r] \in {outcome[r], "deleted"} \/ r \in lost
  /\ \A r \in Run :
       announced[r] \in Settled => step[r] \in {"finished", "idle"} /\ status[r] # "unused"

\* Only a manual run is ever cancelled, and its name is kept until it is stored.
CancelInv ==
  /\ \A u \in User, r \in Run : <<u, r>> \in pending => trigger[r] = "manual"
  /\ \A r \in Run : Aborted(r) => trigger[r] = "manual"
  /\ \A r \in Run : live[r] = "done" => step[r] = "finished"
  /\ \A r \in Run :
       frame[r] # "none" => status[r] # "unused" /\ step[r] \notin {"opened", "resolving"}
  /\ \A r \in Run :
       step[r] \in {"saving", "retrying"} /\ outcome[r] = "cancelled"
         => Aborted(r) /\ frame[r] = "none"

\* The invariant: the parts above and the four safety properties.
JobRunsInv ==
  /\ TypeOK
  /\ BootInv /\ LockInv /\ RowInv /\ OutcomeInv /\ CancelInv
  /\ OneRunPerJobOnceRecovered
  /\ NoOrphanOnceRecovered
  /\ AnnouncedIsStored
  /\ CancelledWasAskedFor

----------------------------------------------------------------------------
(* What a caller may assume: the ledger of runs.                           *)

Ledger == INSTANCE RunLedger WITH
  active <- {r \in Run : InProgress(r)},
  result <- status,
  recovered <- phase = "ready"

\* Job execution implements the ledger: one run of a job at a time, each ended once,
\* but for the runs that the recovery of their own process took for dead.
LedgerSpec == Ledger!Spec
=============================================================================
