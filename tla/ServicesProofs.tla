--------------------------- MODULE ServicesProofs ---------------------------
(***************************************************************************)
(* Proofs about Scheduler, for every set of jobs, patterns, overlapping    *)
(* passes and handlers, and about RunnerService, for every finite set of   *)
(* calls, number of slots and length of a run.                             *)
(*                                                                         *)
(* SchedulerInv and RunnerInv are inductive.  In the latter, that a thread *)
(* outside stream() belongs to a call in Abandoned (HeldBy) gives          *)
(* FilesOutliveWorker at once; together with the bound on the slots it     *)
(* gives NoSilentQueueing, by counting: the threads of calls not           *)
(* abandoned, and the queued one, all hold slots.                          *)
(***************************************************************************)
EXTENDS Scheduler, RunnerService, FiniteSetTheorems, TLAPS

----------------------------------------------------------------------------
(* Scheduler.                                                              *)

USE DEF Execution, Pattern, Row, Rows, NoEntry, NoPass, AskingPass

LEMMA InitInv == Init => SchedulerInv
<1> SUFFICES ASSUME Init PROVE SchedulerInv
  OBVIOUS
<1>1. /\ jobs \in [Jobs -> Row]
      /\ scheduled \in [Jobs -> [pattern : Pattern, busy : Firing \cup {Idle}]]
  BY DEF Init
<1>2. pass \in [Pass -> [at : {"free", "asking", "answered"}, rows : Rows,
                        behind : SUBSET Jobs]]
  BY DEF Init
<1>3. TypeOK
  BY <1>1, <1>2 DEF Init, TypeOK
<1> QED
  BY <1>3 DEF Init, SchedulerInv, PassesLagOnlyBehindEdits, NothingBeforeBoot,
     ExecutionsHoldRows, EntriesLagOnlyBehindEdits, NeverTwiceAtOnce

PassType == [at : {"free", "asking", "answered"}, rows : Rows,
             behind : SUBSET Jobs]

(* The two passes that hold no answer. *)
LEMMA NewPasses ==
  /\ NoPass \in PassType /\ NoPass.at = "free"
  /\ AskingPass \in PassType /\ AskingPass.at = "asking"
<1>1. [j \in Jobs |-> NoPattern] \in Rows
  OBVIOUS
<1>2. AskingPass = [at |-> "asking", rows |-> [j \in Jobs |-> NoPattern],
                    behind |-> {}]
  OBVIOUS
<1> QED
  BY <1>1, <1>2 DEF PassType

(* The pattern a row asks for is a pattern. *)
LEMMA WantedType == \A row \in Row : Wanted(row) \in Pattern
  BY DEF Wanted

(* An edit of one row that leaves the executions alone, and the running rows of
   the jobs that exist. *)
LEMMA CommitInv ==
  ASSUME SchedulerAssumption, SchedulerInv,
         NEW j \in Jobs, NEW row \in Row, Commit(j, row),
         jobs[j].state = "unborn" \/ jobs[j].state = "live",
         row.state = "live" \/ row.state = "deleted",
         running' \in [Jobs -> Execution \cup {Idle}],
         \A k \in Jobs : jobs'[k].state = "live" => running'[k] = running[k],
         UNCHANGED executing
  PROVE  SchedulerInv'
<1>1. TypeOK'
  <2>1. jobs' \in [Jobs -> Row] /\ behind' \in SUBSET Jobs
    BY DEF Commit, SchedulerInv, TypeOK
  <2>2. \A p \in Pass : pass'[p] \in [at : {"free", "asking", "answered"},
                                      rows : Rows, behind : SUBSET Jobs]
    <3> SUFFICES ASSUME NEW p \in Pass
                 PROVE  pass'[p] \in PassType
      BY DEF PassType
    <3>1. pass[p] \in PassType
      BY DEF SchedulerInv, TypeOK, PassType
    <3>2. pass'[p] = IF pass[p].at = "answered"
                       THEN [pass[p] EXCEPT !.behind = @ \cup {j}] ELSE pass[p]
      BY DEF Commit
    <3>3. CASE pass[p].at = "answered"
      <4>1. pass'[p] = [at |-> pass[p].at, rows |-> pass[p].rows,
                        behind |-> pass[p].behind \cup {j}]
        BY <3>1, <3>2, <3>3 DEF PassType
      <4> QED
        BY <3>1, <4>1 DEF PassType
    <3> QED
      BY <3>1, <3>2, <3>3
  <2>3. pass' \in [Pass -> [at : {"free", "asking", "answered"}, rows : Rows,
                           behind : SUBSET Jobs]]
    BY <2>2 DEF Commit
  <2> QED
    BY <2>1, <2>3 DEF Commit, SchedulerInv, TypeOK
<1>2. PassesLagOnlyBehindEdits'
  <2> SUFFICES ASSUME NEW p \in Pass, pass'[p].at = "answered",
                      NEW k \in Jobs, k \notin pass'[p].behind
               PROVE  pass'[p].rows[k] = Wanted(jobs'[k])
    BY DEF PassesLagOnlyBehindEdits
  <2>1. pass[p].at = "answered" /\ k \notin pass[p].behind /\ k # j
    BY DEF Commit, SchedulerInv, TypeOK
  <2>2. pass'[p].rows = pass[p].rows /\ jobs'[k] = jobs[k]
    BY <2>1 DEF Commit, SchedulerInv, TypeOK
  <2> QED
    BY <2>1, <2>2 DEF SchedulerInv, PassesLagOnlyBehindEdits
<1>3. NothingBeforeBoot'
  BY DEF Commit, SchedulerInv, TypeOK, NothingBeforeBoot
<1>4. ExecutionsHoldRows'
  BY DEF Commit, SchedulerInv, TypeOK, ExecutionsHoldRows
<1>5. EntriesLagOnlyBehindEdits'
  BY DEF Commit, SchedulerInv, TypeOK, EntriesLagOnlyBehindEdits
<1>6. NeverTwiceAtOnce'
  BY DEF SchedulerInv, NeverTwiceAtOnce
<1> QED
  BY <1>1, <1>2, <1>3, <1>4, <1>5, <1>6 DEF SchedulerInv

LEMMA EditInv ==
  ASSUME SchedulerAssumption, SchedulerInv, NEW j \in Jobs, Edit(j)
  PROVE  SchedulerInv'
<1> USE DEF SchedulerInv, TypeOK
<1>1. CASE Create(j)
  <2> PICK e \in BOOLEAN, c \in Pattern :
        Commit(j, [state |-> "live", enabled |-> e, cron |-> c])
    BY <1>1 DEF Create
  <2> QED
    BY <1>1, CommitInv DEF Create, Commit
<1>2. CASE Update(j)
  <2> PICK e \in BOOLEAN, c \in Pattern :
        Commit(j, [state |-> "live", enabled |-> e, cron |-> c])
    BY <1>2 DEF Update
  <2> QED
    BY <1>2, CommitInv DEF Update, Commit
<1>3. CASE ToggleEnabled(j)
  <2> PICK e \in BOOLEAN : Commit(j, [jobs[j] EXCEPT !.enabled = e])
    BY <1>3 DEF ToggleEnabled
  <2>1. [jobs[j] EXCEPT !.enabled = e] =
          [state |-> "live", enabled |-> e, cron |-> jobs[j].cron]
    BY <1>3 DEF ToggleEnabled
  <2>2. [state |-> "live", enabled |-> e, cron |-> jobs[j].cron] \in Row
    OBVIOUS
  <2> QED
    BY <1>3, <2>1, <2>2, CommitInv DEF ToggleEnabled, Commit
<1>4. CASE Delete(j)
  <2> DEFINE row == [state |-> "deleted", enabled |-> FALSE, cron |-> NoPattern]
  <2>1. row \in Row /\ row.state = "deleted"
    OBVIOUS
  <2>2. Commit(j, row) /\ jobs[j].state = "live" /\ UNCHANGED executing
    BY <1>4 DEF Delete, Commit
  <2>3. running' \in [Jobs -> Execution \cup {Idle}]
    BY <1>4 DEF Delete
  <2>4. \A k \in Jobs : jobs'[k].state = "live" => running'[k] = running[k]
    BY <1>4 DEF Delete, Commit
  <2> HIDE DEF row
  <2> QED
    BY <2>1, <2>2, <2>3, <2>4, CommitInv
<1> QED
  BY <1>1, <1>2, <1>3, <1>4 DEF Edit

LEMMA ReconcileInv ==
  ASSUME SchedulerAssumption, SchedulerInv, NEW p \in Pass, Reconcile(p)
  PROVE  SchedulerInv'
<1> USE DEF SchedulerInv, TypeOK
<1>1. CASE Tick(p) \/ ReadFails(p)
  <2>1. PICK q \in {NoPass, AskingPass} : pass' = [pass EXCEPT ![p] = q]
    BY <1>1 DEF Tick, ReadFails
  <2>2. q \in PassType /\ q.at # "answered"
    BY NewPasses
  <2>3. booted
    BY <1>1 DEF Tick, ReadFails, NothingBeforeBoot
  <2>4. TypeOK'
    <3> HIDE DEF NoPass, AskingPass
    <3> QED
      BY <1>1, <2>1, <2>2 DEF PassType, Tick, ReadFails
  <2>5. PassesLagOnlyBehindEdits'
    <3> HIDE DEF NoPass, AskingPass
    <3> QED
      BY <1>1, <2>1, <2>2 DEF Tick, ReadFails, PassesLagOnlyBehindEdits
  <2> QED
    BY <1>1, <2>3, <2>4, <2>5 DEF Tick, ReadFails, NothingBeforeBoot,
       ExecutionsHoldRows, EntriesLagOnlyBehindEdits, NeverTwiceAtOnce
<1>2. CASE Read(p)
  <2>1. booted
    BY <1>2 DEF Read, NothingBeforeBoot
  <2>2. TypeOK'
    BY <1>2, WantedType DEF Read
  <2>3. PassesLagOnlyBehindEdits'
    BY <1>2 DEF Read, PassesLagOnlyBehindEdits
  <2> QED
    BY <1>2, <2>1, <2>2, <2>3 DEF Read, NothingBeforeBoot,
       ExecutionsHoldRows, EntriesLagOnlyBehindEdits, NeverTwiceAtOnce
<1>3. CASE Apply(p)
  <2>1. booted
    BY <1>3 DEF Apply, NothingBeforeBoot
  <2>2. \A j \in Jobs : /\ scheduled'[j].pattern = pass[p].rows[j]
                        /\ scheduled'[j] \in [pattern : Pattern,
                                              busy : Firing \cup {Idle}]
    BY <1>3 DEF Apply, Reconciled
  <2>3. TypeOK'
    BY <1>3, <2>2 DEF Apply
  <2>4. EntriesLagOnlyBehindEdits'
    BY <1>3, <2>2 DEF Apply, PassesLagOnlyBehindEdits, EntriesLagOnlyBehindEdits
  <2>5. PassesLagOnlyBehindEdits'
    BY <1>3 DEF Apply, PassesLagOnlyBehindEdits
  <2> QED
    BY <1>3, <2>1, <2>3, <2>4, <2>5 DEF Apply, NothingBeforeBoot,
       ExecutionsHoldRows, NeverTwiceAtOnce
<1> QED
  BY <1>1, <1>2, <1>3 DEF Reconcile

(* A run is opened only for a job that has no running row: no execution of it
   holds one, so there is none, but for an early one. *)
LEMMA OpenInv ==
  ASSUME SchedulerAssumption, SchedulerInv,
         NEW j \in Jobs, NEW x \in Execution, booted <=> x # Early, Open(j, x),
         UNCHANGED <<jobs, booted, pass, scheduled, firing, behind>>
  PROVE  SchedulerInv'
<1> USE DEF SchedulerInv, TypeOK
<1>1. executing[j] \subseteq {Early} /\ (~booted => executing[j] = {})
  BY DEF Open, ExecutionsHoldRows, SchedulerAssumption
<1>2. /\ running' \in [Jobs -> Execution \cup {Idle}] /\ running'[j] = x
      /\ executing' \in [Jobs -> SUBSET Execution]
      /\ executing'[j] \subseteq {x, Early} /\ (~booted => executing'[j] = {x})
      /\ \A k \in Jobs \ {j} : /\ running'[k] = running[k]
                              /\ executing'[k] = executing[k]
  BY <1>1 DEF Open
<1>3. TypeOK'
  BY <1>2
<1>4. ExecutionsHoldRows'
  BY <1>2 DEF Open, ExecutionsHoldRows
<1>5. NeverTwiceAtOnce'
  BY <1>2 DEF NeverTwiceAtOnce
<1>6. NothingBeforeBoot'
  BY <1>2 DEF NothingBeforeBoot
<1> QED
  BY <1>3, <1>4, <1>5, <1>6 DEF PassesLagOnlyBehindEdits, EntriesLagOnlyBehindEdits

(* When an execution ends, and perhaps its entry is armed again, it frees no row
   but its own. *)
LEMMA CompleteInv ==
  ASSUME SchedulerAssumption, SchedulerInv,
         NEW j \in Jobs, NEW x \in Execution, Complete(j, x),
         firing' \in [Firing -> Jobs \cup {Idle}],
         scheduled' \in [Jobs -> [pattern : Pattern, busy : Firing \cup {Idle}]],
         \A k \in Jobs : scheduled'[k].pattern = scheduled[k].pattern,
         UNCHANGED <<jobs, booted, pass, behind>>,
         booted \/ UNCHANGED <<scheduled, firing>>
  PROVE  SchedulerInv'
<1> USE DEF SchedulerInv, TypeOK
<1>1. /\ executing' \in [Jobs -> SUBSET Execution]
      /\ executing'[j] = executing[j] \ {x}
      /\ running' \in [Jobs -> Execution \cup {Idle}]
      /\ running'[j] = running[j] \/ running[j] = x
      /\ \A k \in Jobs \ {j} : /\ running'[k] = running[k]
                              /\ executing'[k] = executing[k]
  <2>1. CASE UNCHANGED running
    BY <2>1 DEF Complete
  <2>2. CASE running' = [running EXCEPT ![j] = IF running[j] = x THEN Idle ELSE running[j]]
    BY <2>2 DEF Complete
  <2> QED
    BY <2>1, <2>2 DEF Complete
<1>2. TypeOK'
  BY <1>1
<1>3. ExecutionsHoldRows'
  BY <1>1 DEF ExecutionsHoldRows
<1>4. NeverTwiceAtOnce'
  BY <1>1 DEF NeverTwiceAtOnce
<1>5. NothingBeforeBoot'
  BY <1>1 DEF NothingBeforeBoot
<1> QED
  BY <1>2, <1>3, <1>4, <1>5 DEF PassesLagOnlyBehindEdits, EntriesLagOnlyBehindEdits

LEMMA RearmType ==
  ASSUME SchedulerAssumption, TypeOK, NEW h \in Firing, Rearm(h)
  PROVE  /\ firing' \in [Firing -> Jobs \cup {Idle}]
         /\ scheduled' \in [Jobs -> [pattern : Pattern, busy : Firing \cup {Idle}]]
         /\ \A k \in Jobs : scheduled'[k].pattern = scheduled[k].pattern
  BY DEF Rearm, TypeOK

LEMMA NextInv ==
  ASSUME SchedulerAssumption, SchedulerInv, [Next]_vars
  PROVE  SchedulerInv'
<1> USE DEF SchedulerInv, TypeOK
<1>1. CASE Boot
  <2>1. PICK p \in Pass : pass' = [pass EXCEPT ![p] = AskingPass]
    BY <1>1 DEF Boot
  <2>2. TypeOK'
    <3>1. pass' \in [Pass -> PassType]
      BY <2>1, NewPasses DEF PassType
    <3> QED
      BY <1>1, <3>1 DEF Boot, PassType
  <2>3. PassesLagOnlyBehindEdits'
    <3>1. \A q \in Pass : pass'[q].at # "answered"
      <4> HIDE DEF AskingPass
      <4> QED
        BY <1>1, <2>1, NewPasses DEF Boot, NothingBeforeBoot
    <3> QED
      BY <3>1 DEF PassesLagOnlyBehindEdits
  <2>4. ExecutionsHoldRows' /\ NeverTwiceAtOnce'
    <3>1. booted' /\ UNCHANGED jobs /\ \A j \in Jobs : executing'[j] \subseteq {Early}
      BY <1>1 DEF Boot, NothingBeforeBoot
    <3>2. \A j \in Jobs : jobs[j].state = "unborn" => executing'[j] = {}
      BY <1>1 DEF Boot, ExecutionsHoldRows
    <3> QED
      BY <3>1, <3>2 DEF ExecutionsHoldRows, NeverTwiceAtOnce
  <2>5. EntriesLagOnlyBehindEdits'
    <3>1. behind = Jobs /\ behind' = behind
      BY <1>1 DEF Boot, NothingBeforeBoot
    <3> QED
      BY <3>1 DEF EntriesLagOnlyBehindEdits
  <2> QED
    BY <1>1, <2>2, <2>3, <2>4, <2>5 DEF Boot, NothingBeforeBoot
<1>2. CASE Stop
  BY <1>2 DEF Stop, PassesLagOnlyBehindEdits, NothingBeforeBoot,
     ExecutionsHoldRows, EntriesLagOnlyBehindEdits, NeverTwiceAtOnce,
     SchedulerAssumption
<1>3. ASSUME NEW j \in Jobs, Edit(j) PROVE SchedulerInv'
  BY <1>3, EditInv
<1>4. ASSUME NEW j \in Jobs, OpenManual(j) PROVE SchedulerInv'
  <2> DEFINE x == IF booted THEN Manual ELSE Early
  <2>1. x \in Execution /\ (booted <=> x # Early)
    BY DEF SchedulerAssumption
  <2>2. Open(j, x) /\ UNCHANGED <<jobs, booted, pass, scheduled, firing, behind>>
    BY <1>4 DEF OpenManual
  <2> HIDE DEF x
  <2> QED
    BY <2>1, <2>2, OpenInv
<1>5. ASSUME NEW j \in Jobs, CompleteManual(j) PROVE SchedulerInv'
  BY <1>5, CompleteInv DEF CompleteManual
<1>6. ASSUME NEW j \in Jobs, NEW h \in Firing, Fire(j, h) PROVE SchedulerInv'
  <2>1. booted
    BY <1>6 DEF Fire, NothingBeforeBoot
  <2>2. firing' \in [Firing -> Jobs \cup {Idle}]
    BY <1>6 DEF Fire
  <2>3. scheduled' \in [Jobs -> [pattern : Pattern, busy : Firing \cup {Idle}]]
    BY <1>6 DEF Fire
  <2>4. \A k \in Jobs : scheduled'[k].pattern = scheduled[k].pattern
    BY <1>6 DEF Fire
  <2>5. EntriesLagOnlyBehindEdits'
    BY <1>6, <2>1, <2>4 DEF Fire, EntriesLagOnlyBehindEdits
  <2> QED
    BY <1>6, <2>1, <2>2, <2>3, <2>5 DEF Fire, PassesLagOnlyBehindEdits,
       NothingBeforeBoot, ExecutionsHoldRows, NeverTwiceAtOnce
<1>7. ASSUME NEW p \in Pass, Reconcile(p) PROVE SchedulerInv'
  BY <1>7, ReconcileInv
<1>8. ASSUME NEW h \in Firing, Handler(h) PROVE SchedulerInv'
  <2>1. firing[h] \in Jobs /\ booted
    BY <1>8 DEF Handler, OpenFiring, SkipFiring, CompleteFiring,
       NothingBeforeBoot, SchedulerAssumption
  <2>2. CASE OpenFiring(h)
    BY <2>1, <2>2, OpenInv DEF OpenFiring, SchedulerAssumption
  <2>3. CASE SkipFiring(h)
    BY <2>1, <2>3, RearmType DEF SkipFiring, PassesLagOnlyBehindEdits,
       NothingBeforeBoot, ExecutionsHoldRows, EntriesLagOnlyBehindEdits,
       NeverTwiceAtOnce
  <2>4. CASE CompleteFiring(h)
    BY <2>1, <2>4, RearmType, CompleteInv DEF CompleteFiring
  <2> QED
    BY <1>8, <2>2, <2>3, <2>4 DEF Handler
<1>9. CASE UNCHANGED vars
  BY <1>9 DEF vars, PassesLagOnlyBehindEdits, NothingBeforeBoot,
     ExecutionsHoldRows, EntriesLagOnlyBehindEdits, NeverTwiceAtOnce
<1> QED
  BY <1>1, <1>2, <1>3, <1>4, <1>5, <1>6, <1>7, <1>8, <1>9 DEF Next

(* The inductive invariant holds throughout. *)
THEOREM SchedulerInvariant == Spec => []SchedulerInv
<1>1. Init => SchedulerInv
  BY InitInv
<1>2. SchedulerInv /\ [Next]_vars => SchedulerInv'
  BY NextInv, SchedulerAssumption
<1> QED
  BY <1>1, <1>2, PTL DEF Spec

(* However many passes overlap and however the jobs are edited, an entry is out
   of step with its job only if the job was edited after the read of the last
   pass applied (reconcile, scheduler.ts:44-66). *)
THEOREM EntriesFollowReads == Spec => []EntriesLagOnlyBehindEdits
<1>1. SchedulerInv => EntriesLagOnlyBehindEdits
  BY DEF SchedulerInv
<1> QED
  BY <1>1, SchedulerInvariant, PTL

(* No job is executed twice at once by its entries, of which one may have
   replaced another under its handler, and its users (openRun,
   executor.ts:305-342), but for a run begun before recovery. *)
THEOREM NoOverlap == Spec => []NeverTwiceAtOnce
<1>1. SchedulerInv => NeverTwiceAtOnce
  BY DEF SchedulerInv
<1> QED
  BY <1>1, SchedulerInvariant, PTL

----------------------------------------------------------------------------
(* RunnerService.                                                          *)

USE DEF callVars, runVars, histVars

(* The steps of one call, without the groups that state the fairness. *)
LEMMA StepCases ==
  ASSUME NEW c \in Calls, Step(c)
  PROVE  \/ Call(c) \/ Admit(c) \/ Reject(c) \/ Prepared(c) \/ PrepareFails(c)
         \/ PreparedForNobody(c) \/ Start(c) \/ Exit(c)
         \/ Frame(c) \/ Put(c) \/ Finish(c) \/ Release(c) \/ Removed(c)
         \/ Take(c) \/ Written(c) \/ Return(c) \/ Heartbeat(c) \/ Cancel(c)
         \/ CancelIdle(c) \/ CancelPreparing(c) \/ CancelNext(c)
         \/ CancelPutting(c) \/ CancelCleaning(c) \/ Finalize(c)
         \/ Stopped(c) \/ StopTimesOut(c)
BY DEF Step, Prepare, Forward, Serve, Unwind, Stopping

(* Every step keeps the type invariant. *)
LEMMA TypeStep ==
  ASSUME RunnerTypeOK, NEW c \in Calls, Step(c)
  PROVE  RunnerTypeOK'
<1> USE RunnerServiceAssumption DEF RunnerTypeOK
<1>1. CASE Call(c) BY <1>1 DEF Call
<1>2. CASE Admit(c) BY <1>2 DEF Admit
<1>3. CASE Reject(c) BY <1>3 DEF Reject
<1>4. CASE Prepared(c) BY <1>4 DEF Prepared
<1>5. CASE PrepareFails(c) BY <1>5 DEF PrepareFails
<1>6. CASE PreparedForNobody(c) BY <1>6 DEF PreparedForNobody
<1>7. CASE Start(c) BY <1>7 DEF Start
<1>8. CASE Exit(c) BY <1>8 DEF Exit
<1>9. CASE Frame(c) BY <1>9 DEF Frame
<1>10. CASE Put(c) BY <1>10 DEF Put
<1>11. CASE Finish(c) BY <1>11 DEF Finish, Clean
<1>12. CASE Release(c) BY <1>12 DEF Release
<1>13. CASE Removed(c) BY <1>13 DEF Removed
<1>14. CASE Take(c) BY <1>14 DEF Take
<1>15. CASE Written(c) BY <1>15 DEF Written
<1>16. CASE Return(c) BY <1>16 DEF Return
<1>17. CASE Heartbeat(c) BY <1>17 DEF Heartbeat
<1>18. CASE Cancel(c) BY <1>18 DEF Cancel
<1>19. CASE CancelIdle(c) BY <1>19 DEF CancelIdle, PumpCancelled
<1>20. CASE CancelPreparing(c) BY <1>20 DEF CancelPreparing, PumpCancelled
<1>21. CASE CancelNext(c) BY <1>21 DEF CancelNext, PumpCancelled, Clean
<1>22. CASE CancelPutting(c) BY <1>22 DEF CancelPutting, PumpCancelled, Clean
<1>23. CASE CancelCleaning(c) BY <1>23 DEF CancelCleaning, PumpCancelled
<1>24. CASE Finalize(c) BY <1>24 DEF Finalize
<1>25. CASE Stopped(c) BY <1>25 DEF Stopped, Clean
<1>26. CASE StopTimesOut(c) BY <1>26 DEF StopTimesOut, Clean
<1>27. QED
  BY StepCases, <1>1, <1>2, <1>3, <1>4, <1>5, <1>6, <1>7, <1>8, <1>9, <1>10,
     <1>11, <1>12, <1>13, <1>14, <1>15, <1>16, <1>17, <1>18, <1>19, <1>20,
     <1>21, <1>22, <1>23, <1>24, <1>25, <1>26

(* Only Admit adds a call to those that hold a slot. *)
LEMMA HoldingStep ==
  ASSUME RunnerTypeOK, NEW c \in Calls, Step(c)
  PROVE  \/ SlotFree /\ Holding' = Holding \cup {c}
         \/ Holding' \subseteq Holding
<1> USE DEF RunnerTypeOK, Holding
<1>2. CASE Admit(c) BY <1>2 DEF Admit
<1>3. CASE Reject(c) BY <1>3 DEF Reject
<1>4. CASE Prepared(c) BY <1>4 DEF Prepared
<1>5. CASE PrepareFails(c) BY <1>5 DEF PrepareFails
<1>9. CASE Frame(c) BY <1>9 DEF Frame
<1>10. CASE Put(c) BY <1>10 DEF Put
<1>11. CASE Finish(c) BY <1>11 DEF Finish, Clean
<1>12. CASE Release(c) BY <1>12 DEF Release
<1>19. CASE CancelIdle(c) BY <1>19 DEF CancelIdle, PumpCancelled
<1>20. CASE CancelPreparing(c) BY <1>20 DEF CancelPreparing, PumpCancelled
<1>21. CASE CancelNext(c) BY <1>21 DEF CancelNext, PumpCancelled, Clean
<1>22. CASE CancelPutting(c) BY <1>22 DEF CancelPutting, PumpCancelled, Clean
<1>23. CASE CancelCleaning(c) BY <1>23 DEF CancelCleaning, PumpCancelled
<1>25. CASE Stopped(c) BY <1>25 DEF Stopped, Clean
<1>26. CASE StopTimesOut(c) BY <1>26 DEF StopTimesOut, Clean
<1>30. CASE pump' = pump BY <1>30
<1>31. QED
  BY StepCases, <1>2, <1>3, <1>4, <1>5, <1>9, <1>10, <1>11, <1>12, <1>19, <1>20,
     <1>21, <1>22, <1>23, <1>25, <1>26, <1>30
     DEF Call, PreparedForNobody, Start, Exit, Removed, Take, Written, Return,
         Heartbeat, Cancel, Finalize

LEMMA HoldingFinite == IsFiniteSet(Holding)
BY RunnerServiceAssumption, FS_Subset DEF Holding

(* RUN_SLOTS: no more calls are admitted than there are slots. *)
LEMMA SlotsStep ==
  ASSUME RunnerTypeOK, Cardinality(Holding) <= MaxRuns, NEW c \in Calls, Step(c)
  PROVE  Cardinality(Holding') <= MaxRuns
<1>1. /\ IsFiniteSet(Holding) /\ Cardinality(Holding) \in Nat
      /\ MaxRuns \in Nat
  BY HoldingFinite, FS_CardinalityType, RunnerServiceAssumption
<1>2. CASE SlotFree /\ Holding' = Holding \cup {c}
  <2>1. Cardinality(Holding') <= Cardinality(Holding) + 1
    BY <1>1, <1>2, FS_AddElement
  <2>2. Cardinality(Holding) < MaxRuns
    BY <1>2 DEF SlotFree
  <2>3. Cardinality(Holding') \in Nat
    BY <1>1, <1>2, FS_AddElement, FS_CardinalityType
  <2>4. QED BY <1>1, <2>1, <2>2, <2>3
<1>3. CASE Holding' \subseteq Holding
  <2>1. IsFiniteSet(Holding') /\ Cardinality(Holding') <= Cardinality(Holding)
    BY <1>1, <1>3, FS_Subset
  <2>2. Cardinality(Holding') \in Nat
    BY <2>1, FS_CardinalityType
  <2>3. QED BY <1>1, <2>1, <2>2
<1>4. QED BY <1>2, <1>3, HoldingStep

(* What a call holds changes by its own steps alone. *)
LEMMA HeldByOthers ==
  ASSUME RunnerTypeOK, NEW c \in Calls, Step(c), NEW d \in Calls, d # c, HeldBy(d)
  PROVE  HeldBy(d)'
<1> DEFINE Same == /\ pump'[d] = pump[d] /\ files'[d] = files[d]
                   /\ worker'[d] = worker[d] /\ left'[d] = left[d]
                   /\ stop'[d] = stop[d] /\ dropped'[d] = dropped[d]
                   /\ (d \in hasty') = (d \in hasty)
                   /\ (d \in late') = (d \in late)
<1> USE DEF RunnerTypeOK
<1>1. CASE Call(c) \/ Admit(c) \/ Reject(c) \/ Prepared(c) \/ PrepareFails(c)
  <2>1. Same
    BY <1>1 DEF Call, Admit, Reject, Prepared, PrepareFails
  <2>2. QED BY <2>1 DEF HeldBy, Abandoned
<1>2. CASE PreparedForNobody(c) \/ Start(c) \/ Exit(c) \/ Frame(c) \/ Put(c)
  <2>1. Same
    BY <1>2 DEF PreparedForNobody, Start, Exit, Frame, Put
  <2>2. QED BY <2>1 DEF HeldBy, Abandoned
<1>3. CASE \/ Finish(c) \/ Release(c) \/ Removed(c) \/ Take(c) \/ Written(c)
           \/ Return(c) \/ Heartbeat(c) \/ Cancel(c)
  <2>1. Same
    BY <1>3 DEF Finish, Clean, Release, Removed, Take, Written, Return,
                Heartbeat, Cancel
  <2>2. QED BY <2>1 DEF HeldBy, Abandoned
<1>4. CASE \/ CancelIdle(c) \/ CancelPreparing(c) \/ CancelNext(c)
           \/ CancelPutting(c) \/ CancelCleaning(c)
  <2>1. Same
    BY <1>4 DEF PumpCancelled, CancelIdle, CancelPreparing, CancelNext,
                CancelPutting, CancelCleaning, Clean
  <2>2. QED BY <2>1 DEF HeldBy, Abandoned
<1>5. CASE Finalize(c) \/ Stopped(c) \/ StopTimesOut(c)
  <2>1. Same
    BY <1>5 DEF Finalize, Stopped, StopTimesOut, Clean
  <2>2. QED BY <2>1 DEF HeldBy, Abandoned
<1>6. QED BY StepCases, <1>1, <1>2, <1>3, <1>4, <1>5

(* A call's own steps keep what it holds. *)
LEMMA HeldByOwn ==
  ASSUME RunnerTypeOK, NEW c \in Calls, Step(c), HeldBy(c)
  PROVE  HeldBy(c)'
<1> USE DEF RunnerTypeOK, HeldBy, Abandoned
<1>1. CASE Call(c) BY <1>1 DEF Call
<1>2. CASE Admit(c) BY <1>2 DEF Admit
<1>3. CASE Reject(c) BY <1>3 DEF Reject
<1>4. CASE Prepared(c) BY <1>4 DEF Prepared
<1>5. CASE PrepareFails(c) BY <1>5 DEF PrepareFails
<1>6. CASE PreparedForNobody(c) BY <1>6 DEF PreparedForNobody
<1>7. CASE Start(c) BY <1>7 DEF Start
<1>8. CASE Exit(c) BY <1>8 DEF Exit
<1>9. CASE Frame(c) BY <1>9 DEF Frame
<1>10. CASE Put(c) BY <1>10 DEF Put
<1>11. CASE Finish(c) BY <1>11 DEF Finish, Clean
<1>12. CASE Release(c) BY <1>12 DEF Release
<1>13. CASE Removed(c) BY <1>13 DEF Removed
<1>14. CASE Take(c) BY <1>14 DEF Take
<1>15. CASE Written(c) BY <1>15 DEF Written
<1>16. CASE Return(c) BY <1>16 DEF Return
<1>17. CASE Heartbeat(c) BY <1>17 DEF Heartbeat
<1>18. CASE Cancel(c) BY <1>18 DEF Cancel
<1>19. CASE CancelIdle(c) BY <1>19 DEF CancelIdle, PumpCancelled
<1>20. CASE CancelPreparing(c) BY <1>20 DEF CancelPreparing, PumpCancelled
<1>21. CASE CancelNext(c) BY <1>21 DEF CancelNext, PumpCancelled, Clean
<1>22. CASE CancelPutting(c) BY <1>22 DEF CancelPutting, PumpCancelled, Clean
<1>23. CASE CancelCleaning(c) BY <1>23 DEF CancelCleaning, PumpCancelled
<1>24. CASE Finalize(c) BY <1>24 DEF Finalize
<1>25. CASE Stopped(c) BY <1>25 DEF Stopped, WorkerEnded, Clean
<1>26. CASE StopTimesOut(c) BY <1>26 DEF StopTimesOut, Clean
<1>27. QED
  BY StepCases, <1>1, <1>2, <1>3, <1>4, <1>5, <1>6, <1>7, <1>8, <1>9, <1>10,
     <1>11, <1>12, <1>13, <1>14, <1>15, <1>16, <1>17, <1>18, <1>19, <1>20,
     <1>21, <1>22, <1>23, <1>24, <1>25, <1>26

(* What a call holds at each point of _serve and stream() (runner.py:204-232,
   services/ansible/runner.py:195-270). *)
THEOREM RunnerInvariant == RunnerSpec => []RunnerInv
<1>1. RunnerInit => RunnerInv
  <2> SUFFICES ASSUME RunnerInit PROVE RunnerInv
    OBVIOUS
  <2>1. RunnerTypeOK
    BY RunnerServiceAssumption DEF RunnerInit, RunnerTypeOK
  <2>2. Cardinality(Holding) <= MaxRuns
    <3>1. Holding = {} BY DEF RunnerInit, Holding
    <3>2. QED BY <3>1, FS_EmptySet, RunnerServiceAssumption
  <2>3. \A c \in Calls : HeldBy(c)
    BY DEF RunnerInit, HeldBy
  <2>4. QED BY <2>1, <2>2, <2>3 DEF RunnerInv
<1>2. RunnerInv /\ [RunnerNext]_runnerVars => RunnerInv'
  <2> SUFFICES ASSUME RunnerInv, [RunnerNext]_runnerVars PROVE RunnerInv'
    OBVIOUS
  <2>1. CASE RunnerNext
    <3>1. PICK c \in Calls : Step(c) BY <2>1 DEF RunnerNext
    <3>2. RunnerTypeOK' BY <3>1, TypeStep DEF RunnerInv
    <3>3. Cardinality(Holding') <= MaxRuns BY <3>1, SlotsStep DEF RunnerInv
    <3>4. \A d \in Calls : HeldBy(d)'
      BY <3>1, HeldByOwn, HeldByOthers DEF RunnerInv
    <3>5. QED BY <3>2, <3>3, <3>4 DEF RunnerInv
  <2>2. CASE UNCHANGED runnerVars
    BY <2>2 DEF runnerVars, RunnerInv, RunnerTypeOK, Holding, HeldBy, Abandoned
  <2>3. QED BY <2>1, <2>2
<1>3. QED BY <1>1, <1>2, PTL DEF RunnerSpec

(* The key files outlive the thread that reads them, but for the runs in
   Abandoned (services/ansible/runner.py:249-270). *)
THEOREM FilesKept == RunnerSpec => []FilesOutliveWorker
<1>1. RunnerInv => FilesOutliveWorker
  BY DEF RunnerInv, HeldBy, FilesOutliveWorker, Working
<1>2. QED BY <1>1, RunnerInvariant, PTL

(* An admitted run waits for a thread only behind, or as, an abandoned run
   (services/ansible/runner.py:26-31). *)
THEOREM NoQueueing == RunnerSpec => []NoSilentQueueing
<1>1. RunnerInv => NoSilentQueueing
  <2> SUFFICES ASSUME RunnerInv, NEW c \in Calls, worker[c] = "queued",
                      Cardinality({d \in Calls : worker[d] = "running"}) >= MaxRuns,
                      \A d \in Abandoned : worker[d] # "running" /\ d # c
               PROVE  FALSE
    BY DEF NoSilentQueueing
  <2> DEFINE R == {d \in Calls : worker[d] = "running"}
  <2>1. c \notin R
    OBVIOUS
  <2>2. R \cup {c} \subseteq Holding
    BY DEF RunnerInv, HeldBy, Holding
  <2>3. IsFiniteSet(R) /\ Cardinality(R) \in Nat
    BY RunnerServiceAssumption, FS_Subset, FS_CardinalityType
  <2>4. Cardinality(R \cup {c}) = Cardinality(R) + 1
    BY <2>1, <2>3, FS_AddElement
  <2>5. Cardinality(R \cup {c}) <= Cardinality(Holding)
    BY <2>2, HoldingFinite, FS_Subset
  <2>6. Cardinality(Holding) <= MaxRuns /\ Cardinality(Holding) \in Nat
    BY HoldingFinite, FS_CardinalityType DEF RunnerInv
  <2>7. Cardinality(R) >= MaxRuns
    OBVIOUS
  <2> HIDE DEF R
  <2>8. QED BY <2>3, <2>4, <2>5, <2>6, <2>7, RunnerServiceAssumption
<1>2. QED BY <1>1, RunnerInvariant, PTL
=============================================================================
