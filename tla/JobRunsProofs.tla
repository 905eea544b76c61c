--------------------------- MODULE JobRunsProofs ---------------------------
(***************************************************************************)
(* JobRunsInv is an inductive invariant of JobRuns, for any sets of jobs,  *)
(* runs and users, any hash of the job ids and any number of crashes and   *)
(* database errors.  The safety properties, two action properties and the  *)
(* refinement of RunLedger follow.                                         *)
(*                                                                         *)
(* OutputInv is one of RunOutput, for any number of hosts and tasks.  The  *)
(* lemmas go from rows to cards and from cards to the steps of one host:   *)
(* Shown is what a card says of a host, and Touched what a step for one    *)
(* host makes of the cards, which is all that the invariant's parts need.  *)
(*                                                                         *)
(* PageInv is one of RunPage, for any number of runs: what was read is as  *)
(* stored or the page is yet to hear or read of a change, and a page that  *)
(* was at the newest run is yet to hear of the next, runs being heard of   *)
(* in the order they start.  TargetsInv and VariablesInv are those of      *)
(* RunTargets and RunVariables, and PagesAreTrue is read off the three.    *)
(***************************************************************************)
EXTENDS JobRuns, RunOutput, JobPages, PageListsProofs, SequenceTheorems, FiniteSetTheorems,
        TLAPS

USE JobRunsAssumption

\* The initial state satisfies the invariant: nothing has run yet.
LEMMA InitInv == Init => JobRunsInv
  BY DEF Init, JobRunsInv, TypeOK, RowStatus, Settled, Steps, Active, HoldsLock,
         BootInv, LockInv, RowInv, OutcomeInv, CancelInv,
         OneRunPerJobOnceRecovered, NoOrphanOnceRecovered, AnnouncedIsStored,
         CancelledWasAskedFor, InProgress, Aborted

\* Boot, recovery and crashes preserve the invariant.
LEMMA BootInvStep ==
  ASSUME JobRunsInv, Boot \/ RecoverOrphanedRuns \/ Crash
  PROVE  JobRunsInv'
  <1> USE DEF JobRunsInv, TypeOK, RowStatus, Settled, Steps, Active, HoldsLock,
        BootInv, LockInv, RowInv, OutcomeInv, CancelInv,
        OneRunPerJobOnceRecovered, NoOrphanOnceRecovered, AnnouncedIsStored,
        CancelledWasAskedFor, InProgress, Aborted, RetryOutcome,
        Goto, dbVars, taskVars, liveVars, history, limits
  <1>1. CASE Boot
    BY <1>1, SMTT(40) DEF Boot
  <1>2. CASE RecoverOrphanedRuns
    BY <1>2, SMTT(40) DEF RecoverOrphanedRuns, OrphanedRows
  <1>3. CASE Crash
    BY <1>3, SMTT(40) DEF Crash
  <1>4. QED
    BY <1>1, <1>2, <1>3

\* The transaction of openRun preserves the invariant: the lock and the check
\* make the new row the only running one of its job.
LEMMA OpeningInvStep ==
  ASSUME JobRunsInv, NEW r \in Run, Opening(r)
  PROVE  JobRunsInv'
  <1> USE DEF JobRunsInv, TypeOK, RowStatus, Settled, Steps, Active, HoldsLock,
        BootInv, LockInv, RowInv, OutcomeInv, CancelInv,
        OneRunPerJobOnceRecovered, NoOrphanOnceRecovered, AnnouncedIsStored,
        CancelledWasAskedFor, InProgress, Aborted, RetryOutcome,
        Goto, dbVars, taskVars, liveVars, history, limits
  <1>1. CASE CallOpenRun(r)
    BY <1>1, SMTT(40) DEF CallOpenRun, MayCall
  <1>2. CASE AcquireLock(r)
    BY <1>2, SMTT(40) DEF AcquireLock, LockFree
  <1>3. CASE CheckJob(r)
    BY <1>3, SMTT(40) DEF CheckJob, HasRunningRow
  <1>4. CASE OpenRun(r)
    BY <1>4, SMTT(40) DEF OpenRun, InsertRow
  <1>5. CASE OpenRunUnacknowledged(r)
    BY <1>5, SMTT(40) DEF OpenRunUnacknowledged, InsertRow, DbFault
  <1>6. CASE OpenRunFails(r)
    BY <1>6, SMTT(40) DEF OpenRunFails, DbFault
  <1>7. QED
    BY <1>1, <1>2, <1>3, <1>4, <1>5, <1>6 DEF Opening

\* Streaming preserves the invariant: an outcome is "cancelled" only for an
\* aborted run without terminal frame.
LEMMA StreamingInvStep ==
  ASSUME JobRunsInv, NEW r \in Run, Streaming(r)
  PROVE  JobRunsInv'
  <1> USE DEF JobRunsInv, TypeOK, RowStatus, Settled, Steps, Active, HoldsLock,
        BootInv, LockInv, RowInv, OutcomeInv, CancelInv,
        OneRunPerJobOnceRecovered, NoOrphanOnceRecovered, AnnouncedIsStored,
        CancelledWasAskedFor, InProgress, Aborted, RetryOutcome,
        Goto, dbVars, taskVars, liveVars, history, limits
  <1>1. CASE BeginRun(r)
    BY <1>1, SMTT(40) DEF BeginRun, Save
  <1>2. CASE ResolveFails(r)
    BY <1>2, SMTT(40) DEF ResolveFails, Save
  <1>3. CASE Resolved(r)
    <2>1. CASE Aborted(r)
      BY <1>3, <2>1, SMTT(40) DEF Resolved, Save
    <2>2. CASE ~Aborted(r)
      BY <1>3, <2>2, SMTT(40) DEF Resolved
    <2>3. QED
      BY <2>1, <2>2
  <1>4. CASE TerminalFrame(r)
    BY <1>4, SMTT(40) DEF TerminalFrame
  <1>5. CASE StreamEnds(r)
    BY <1>5, SMTT(40) DEF StreamEnds, Save, StreamOutcome
  <1>6. CASE StreamBreaks(r)
    BY <1>6, SMTT(40) DEF StreamBreaks, Save
  <1>7. QED
    BY <1>1, <1>2, <1>3, <1>4, <1>5, <1>6 DEF Streaming

\* Storing the outcome preserves the invariant, whichever updates fail.
LEMMA StoringInvStep ==
  ASSUME JobRunsInv, NEW r \in Run, Storing(r)
  PROVE  JobRunsInv'
  <1> USE DEF JobRunsInv, TypeOK, RowStatus, Settled, Steps, Active, HoldsLock,
        BootInv, LockInv, RowInv, OutcomeInv, CancelInv,
        OneRunPerJobOnceRecovered, NoOrphanOnceRecovered, AnnouncedIsStored,
        CancelledWasAskedFor, InProgress, Aborted, RetryOutcome,
        Goto, dbVars, taskVars, liveVars, history, limits
  <1>1. CASE SaveOutcome(r)
    BY <1>1, SMTT(40) DEF SaveOutcome, StoreOutcome
  <1>2. CASE SaveFails(r)
    <2>1. CASE UNCHANGED <<status, by>>
      BY <1>2, <2>1, SMTT(40) DEF SaveFails, DbFault
    <2>2. CASE StoreOutcome(r, outcome[r])
      BY <1>2, <2>2, SMTT(40) DEF SaveFails, StoreOutcome, DbFault
    <2>3. QED
      BY <1>2, <2>1, <2>2 DEF SaveFails
  <1>3. CASE RetrySave(r)
    BY <1>3, SMTT(40) DEF RetrySave, StoreOutcome
  <1>4. CASE RetryFails(r)
    BY <1>4, SMTT(40) DEF RetryFails, StoreOutcome, AfterRetryFails, DbFault
  <1>5. CASE FinishRun(r)
    BY <1>5, SMTT(40) DEF FinishRun, ReadyToFinish
  <1>6. CASE ForgetLiveRun(r)
    BY <1>6, SMTT(40) DEF ForgetLiveRun
  <1>7. QED
    BY <1>1, <1>2, <1>3, <1>4, <1>5, <1>6 DEF Storing

\* The cancel handler preserves the invariant: it reads the trigger first.
LEMMA CancelInvStep ==
  ASSUME JobRunsInv, NEW u \in User, NEW r \in Run,
         ReadRunToCancel(u, r) \/ CancelLiveRun(u, r)
  PROVE  JobRunsInv'
  <1> USE DEF JobRunsInv, TypeOK, RowStatus, Settled, Steps, Active, HoldsLock,
        BootInv, LockInv, RowInv, OutcomeInv, CancelInv,
        OneRunPerJobOnceRecovered, NoOrphanOnceRecovered, AnnouncedIsStored,
        CancelledWasAskedFor, InProgress, Aborted, RetryOutcome,
        Goto, dbVars, taskVars, liveVars, history, limits
  <1>1. CASE ReadRunToCancel(u, r)
    BY <1>1, SMTT(40) DEF ReadRunToCancel, MayCancel, Up
  <1>2. CASE CancelLiveRun(u, r)
    BY <1>2, SMTT(40) DEF CancelLiveRun, NameAfter
  <1>3. QED
    BY <1>1, <1>2

\* Deleting a job preserves the invariant: its runs can never run again.
LEMMA DeleteInvStep ==
  ASSUME JobRunsInv, NEW j \in Job, DeleteJob(j)
  PROVE  JobRunsInv'
  <1> USE DEF JobRunsInv, TypeOK, RowStatus, Settled, Steps, Active, HoldsLock,
        BootInv, LockInv, RowInv, OutcomeInv, CancelInv,
        OneRunPerJobOnceRecovered, NoOrphanOnceRecovered, AnnouncedIsStored,
        CancelledWasAskedFor, InProgress, Aborted, RetryOutcome,
        Goto, dbVars, taskVars, liveVars, history, limits
  <1>1. QED
    BY SMTT(40) DEF DeleteJob, Up

\* A step that changes nothing preserves the invariant.
LEMMA StutterInvStep ==
  ASSUME JobRunsInv, UNCHANGED vars
  PROVE  JobRunsInv'
  <1> USE DEF JobRunsInv, TypeOK, RowStatus, Settled, Steps, Active, HoldsLock,
        BootInv, LockInv, RowInv, OutcomeInv, CancelInv,
        OneRunPerJobOnceRecovered, NoOrphanOnceRecovered, AnnouncedIsStored,
        CancelledWasAskedFor, InProgress, Aborted, RetryOutcome,
        Goto, dbVars, taskVars, liveVars, history, limits
  <1>1. QED
    BY SMTT(40) DEF vars

\* JobRunsInv holds in every reachable state, requests during boot included.
THEOREM JobRunsInvariant == Spec => []JobRunsInv
  <1>1. JobRunsInv /\ [Next]_vars => JobRunsInv'
    BY BootInvStep, OpeningInvStep, StreamingInvStep, StoringInvStep,
       CancelInvStep, DeleteInvStep, StutterInvStep DEF Next
  <1>2. QED
    BY <1>1, InitInv, PTL DEF Spec

\* The variables keep their types.
THEOREM JobRunsTypeCorrect == Spec => []TypeOK
  <1>1. JobRunsInv => TypeOK
    BY DEF JobRunsInv
  <1>2. QED
    BY <1>1, JobRunsInvariant, PTL

\* Runs of one job opened after recovery never overlap, whatever crashes, deletes and
\* database errors happen; and a running row, which blocks its job, has a live task, or the
\* database failed on it.
THEOREM JobRunsLocks == Spec => []LocksHoldOnceRecovered
  <1>1. JobRunsInv => LocksHoldOnceRecovered
    BY DEF JobRunsInv, LocksHoldOnceRecovered
  <1>2. QED
    BY <1>1, JobRunsInvariant, PTL

\* The status announced at the finish of a run is the one its row shows.
THEOREM JobRunsAnnounced == Spec => []AnnouncedIsStored
  <1>1. JobRunsInv => AnnouncedIsStored
    BY DEF JobRunsInv
  <1>2. QED
    BY <1>1, JobRunsInvariant, PTL

\* A cancelled row belongs to a manual run, names who asked, and no terminal
\* frame had arrived.
THEOREM JobRunsCancelledAsked == Spec => []CancelledWasAskedFor
  <1>1. JobRunsInv => CancelledWasAskedFor
    BY DEF JobRunsInv
  <1>2. QED
    BY <1>1, JobRunsInvariant, PTL

----------------------------------------------------------------------------
\* A cancelled row changes only by being deleted: recovery touches running rows,
\* and a task that may still write the row would write "cancelled" again.
THEOREM JobRunsCancelledStays == Spec => CancelledStays
  <1> DEFINE Stays == \A r \in Run : status[r] = "cancelled" => status'[r] \in {"cancelled", "deleted"}
  <1>1. ASSUME JobRunsInv, [Next]_vars PROVE Stays
    <2> USE <1>1 DEF JobRunsInv, TypeOK, RowInv, OutcomeInv, LockInv, Active, HoldsLock,
          Settled, RowStatus, InProgress, dbVars
    <2>1. CASE Boot \/ Crash \/ UNCHANGED vars
      BY <2>1 DEF Boot, Crash, vars
    <2>2. CASE RecoverOrphanedRuns
      BY <2>2 DEF RecoverOrphanedRuns, OrphanedRows
    <2>3. ASSUME NEW r \in Run, Opening(r) PROVE Stays
      BY <2>3 DEF Opening, CallOpenRun, AcquireLock, CheckJob, OpenRun,
                  OpenRunUnacknowledged, OpenRunFails, InsertRow
    <2>4. ASSUME NEW r \in Run, Streaming(r) PROVE Stays
      BY <2>4 DEF Streaming, BeginRun, ResolveFails, Resolved, TerminalFrame,
                  StreamEnds, StreamBreaks
    <2>5. ASSUME NEW r \in Run, Storing(r) PROVE Stays
      BY <2>5 DEF Storing, SaveOutcome, SaveFails, RetrySave, RetryFails, FinishRun,
                  ForgetLiveRun, StoreOutcome, RetryOutcome
    <2>6. ASSUME NEW u \in User, NEW r \in Run,
                 ReadRunToCancel(u, r) \/ CancelLiveRun(u, r)
          PROVE  Stays
      BY <2>6 DEF ReadRunToCancel, CancelLiveRun
    <2>7. ASSUME NEW j \in Job, DeleteJob(j) PROVE Stays
      BY <2>7 DEF DeleteJob
    <2>8. QED
      BY <1>1, <2>1, <2>2, <2>3, <2>4, <2>5, <2>6, <2>7 DEF Next
  <1>2. QED
    BY <1>1, JobRunsInvariant, PTL DEF Spec, CancelledStays

\* While the registry holds a run, the name of who cancelled it is written once: begin
\* finds no entry, and cancelLiveRun keeps a name it finds (live.ts:79).
LEMMA FirstNameIsKept == Spec => FirstNameKept
  <1> DEFINE Kept == \A r \in Run : Aborted(r) /\ live'[r] # "absent" => canceller'[r] = canceller[r]
  <1>1. ASSUME JobRunsInv, [Next]_vars PROVE Kept
    <2> USE <1>1 DEF JobRunsInv, TypeOK, Aborted, Goto, liveVars
    <2>1. CASE Boot \/ Crash \/ RecoverOrphanedRuns \/ UNCHANGED vars
      BY <2>1 DEF Boot, Crash, RecoverOrphanedRuns, vars
    <2>2. ASSUME NEW r \in Run, Opening(r) PROVE Kept
      BY <2>2 DEF Opening, CallOpenRun, AcquireLock, CheckJob, OpenRun,
                  OpenRunUnacknowledged, OpenRunFails, InsertRow
    <2>3. ASSUME NEW r \in Run, Streaming(r) PROVE Kept
      BY <2>3 DEF Streaming, BeginRun, ResolveFails, Resolved, TerminalFrame,
                  StreamEnds, StreamBreaks, Save
    <2>4. ASSUME NEW r \in Run, Storing(r) PROVE Kept
      BY <2>4 DEF Storing, SaveOutcome, SaveFails, RetrySave, RetryFails, FinishRun,
                  ForgetLiveRun
    <2>5. ASSUME NEW u \in User, NEW r \in Run,
                 ReadRunToCancel(u, r) \/ CancelLiveRun(u, r)
          PROVE  Kept
      BY <2>5 DEF ReadRunToCancel, CancelLiveRun, NameAfter
    <2>6. ASSUME NEW j \in Job, DeleteJob(j) PROVE Kept
      BY <2>6 DEF DeleteJob
    <2>7. QED
      BY <1>1, <2>1, <2>2, <2>3, <2>4, <2>5, <2>6 DEF Next
  <1>2. QED
    BY <1>1, JobRunsInvariant, PTL DEF Spec, FirstNameKept

\* So a cancellation holds, for any number of users, runs, crashes and retries.
THEOREM JobRunsCancellationHolds == Spec => CancellationHolds
  BY JobRunsCancelledStays, FirstNameIsKept DEF CancellationHolds

----------------------------------------------------------------------------
\* Every step of the detailed specification is a step of the ledger or none.
LEMMA LedgerStep ==
  ASSUME JobRunsInv, [Next]_vars
  PROVE  [Ledger!Next]_(Ledger!vars)
  <1> USE DEF JobRunsInv, TypeOK, Goto, InProgress, Active, HoldsLock, Steps,
        RowStatus, Settled, dbVars, history, Ledger!vars
  <1>1. CASE Boot \/ UNCHANGED vars
    BY <1>1 DEF Boot, vars
  <1>2. CASE RecoverOrphanedRuns
    <2>1. Ledger!Recover
      BY <1>2 DEF RecoverOrphanedRuns, OrphanedRows, Ledger!Recover
    <2>2. QED
      BY <2>1 DEF Ledger!Next
  <1>3. CASE Crash
    <2>1. Ledger!Crash
      BY <1>3 DEF Crash, Ledger!Crash
    <2>2. QED
      BY <2>1 DEF Ledger!Next
  <1>4. ASSUME NEW r \in Run, Opening(r) PROVE [Ledger!Next]_(Ledger!vars)
    <2>1. CASE CallOpenRun(r) \/ AcquireLock(r) \/ CheckJob(r) \/ OpenRunFails(r)
      BY <2>1 DEF CallOpenRun, AcquireLock, CheckJob, OpenRunFails
    <2>2. CASE OpenRun(r) \/ OpenRunUnacknowledged(r)
      <3>1. Ledger!Free(jobOf[r])
        BY <2>2 DEF OpenRun, OpenRunUnacknowledged, InsertRow, LockInv, RowInv, BootInv,
                    Ledger!Free, Ledger!Mistaken
      <3>2. /\ status[r] = "unused" /\ status' = [status EXCEPT ![r] = "running"]
            /\ early' = IF phase = "ready" THEN early ELSE early \cup {r}
            /\ UNCHANGED <<jobOf, phase>>
        BY <2>2 DEF OpenRun, OpenRunUnacknowledged, InsertRow, LockInv, BootInv
      <3>3. \/ {o \in Run : InProgress(o)}' = {o \in Run : InProgress(o)}
            \/ {o \in Run : InProgress(o)}' = {o \in Run : InProgress(o)} \cup {r}
        BY <2>2 DEF OpenRun, OpenRunUnacknowledged, InsertRow
      <3>4. Ledger!Start(r)
        BY <3>1, <3>2, <3>3 DEF Ledger!Start
      <3>5. QED
        BY <3>4 DEF Ledger!Next
    <2>3. QED
      BY <1>4, <2>1, <2>2 DEF Opening
  <1>5. ASSUME NEW r \in Run, Streaming(r) PROVE [Ledger!Next]_(Ledger!vars)
    BY <1>5 DEF Streaming, BeginRun, ResolveFails, Resolved, TerminalFrame, StreamEnds,
                StreamBreaks, Save
  <1>6. ASSUME NEW r \in Run, Storing(r) PROVE [Ledger!Next]_(Ledger!vars)
    <2>1. CASE SaveOutcome(r) \/ SaveFails(r)
      <3>1. Ledger!Finish(r)
        BY <2>1 DEF SaveOutcome, SaveFails, StoreOutcome, OutcomeInv, Ledger!Finish,
                    Ledger!Results
      <3>2. QED
        BY <3>1 DEF Ledger!Next
    <2>2. CASE RetrySave(r) \/ RetryFails(r)
      <3>1. /\ step[r] = "retrying"
            /\ UNCHANGED <<jobOf, {o \in Run : InProgress(o)}>>
        BY <2>2 DEF RetrySave, RetryFails, AfterRetryFails
      <3>2. \/ status' = status
            \/ /\ status[r] # "deleted"
               /\ status' = [status EXCEPT ![r] = outcome[r]]
        BY <2>2 DEF RetrySave, RetryFails, StoreOutcome
      <3>3. \/ status[r] \in {"running", "deleted"}
            \/ status[r] = "cancelled" /\ outcome[r] = "cancelled"
            \/ status[r] \in {"ok", "failed"} /\ outcome[r] = "failed"
            \/ status[r] = "failed" /\ r \in early /\ phase = "ready"
        BY <3>1 DEF OutcomeInv, RowInv, RetryOutcome
      <3>4. outcome[r] \in {"failed", "cancelled"}
        BY <3>1 DEF OutcomeInv
      <3>5. UNCHANGED <<phase, early>>
        BY <2>2 DEF RetrySave, RetryFails
      <3>6. Ledger!Amend(r) \/ UNCHANGED Ledger!vars
        <4>1. CASE status' = status
          BY <3>1, <3>5, <4>1
        <4>2. CASE /\ status[r] # "deleted"
                   /\ status' = [status EXCEPT ![r] = outcome[r]]
          <5>1. CASE outcome[r] = "failed"
            <6>1. status[r] \in {"running", "ok"} \/ status[r] = "failed"
              BY <3>3, <4>2, <5>1
            <6>2. QED
              BY <3>1, <3>5, <4>2, <5>1, <6>1 DEF Ledger!Amend
          <5>2. CASE outcome[r] = "cancelled"
            <6>1. \/ status[r] = "running" \/ Ledger!Mistaken(r)
                  \/ status[r] = "cancelled"
              BY <3>3, <4>2, <5>2 DEF Ledger!Mistaken
            <6>2. QED
              BY <3>1, <3>5, <4>2, <5>2, <6>1 DEF Ledger!Amend
          <5>3. QED
            BY <3>4, <5>1, <5>2
        <4>3. QED
          BY <3>2, <4>1, <4>2
      <3>7. QED
        BY <3>6 DEF Ledger!Next
    <2>3. CASE FinishRun(r) \/ ForgetLiveRun(r)
      BY <2>3 DEF FinishRun, ReadyToFinish, ForgetLiveRun
    <2>4. QED
      BY <1>6, <2>1, <2>2, <2>3 DEF Storing
  <1>7. ASSUME NEW u \in User, NEW r \in Run,
               ReadRunToCancel(u, r) \/ CancelLiveRun(u, r)
        PROVE  [Ledger!Next]_(Ledger!vars)
    BY <1>7 DEF ReadRunToCancel, CancelLiveRun
  <1>8. ASSUME NEW j \in Job, DeleteJob(j) PROVE [Ledger!Next]_(Ledger!vars)
    <2>1. Ledger!Forget(j)
      BY <1>8 DEF DeleteJob, Ledger!Forget
    <2>2. QED
      BY <2>1 DEF Ledger!Next
  <1>9. QED
    BY <1>1, <1>2, <1>3, <1>4, <1>5, <1>6, <1>7, <1>8 DEF Next

\* The job-run component implements the ledger, whatever arrives during boot.
THEOREM JobRunsImplementsLedger == Spec => LedgerSpec
  <1>1. Init => Ledger!Init
    BY DEF Init, Ledger!Init, InProgress, Active
  <1>2. QED
    BY <1>1, LedgerStep, JobRunsInvariant, PTL
    DEF Spec, LedgerSpec, Ledger!Spec

----------------------------------------------------------------------------
(* RunOutput: rows, cards, and the invariant.                              *)

HIDE JobRunsAssumption
USE RunOutputAssumption

\* A row of a card, and what a card has of a host: its first row.
TaskRow == [host : Target, status : CardStatus]
TaskCard == [task : 1 .. TaskCount, rows : Seq(TaskRow)]
IsFirst(body, h, k) ==
  k \in 1 .. Len(body) /\ body[k].host = h /\ \A j \in 1 .. Len(body) : j < k => body[j].host # h
Shown(body, h) == IF FirstRow(body, h) = 0 THEN "none" ELSE body[FirstRow(body, h)].status

\* Hosts that have a row have a first one, and no other row of theirs runs.
GoodRows(body) ==
  /\ body \in Seq(TaskRow)
  /\ \A k \in 1 .. Len(body) :
       \E j \in 1 .. Len(body) : /\ IsFirst(body, body[k].host, j)
                                 /\ body[k].status = "running" => j = k

OutputTypes ==
  /\ way \in Way /\ reached \in [Target -> 0 .. LastTask]
  /\ busy \subseteq Target /\ out \subseteq Target \ busy
  /\ told \in [Target -> [1 .. TaskCount -> Outcome \cup {"none"}]]
  /\ sent \subseteq 1 .. TaskCount
  /\ cards \in Seq(TaskCard) /\ \A i \in 1 .. Len(cards) : GoodRows(cards[i].rows)
  /\ hostCards \in [DOMAIN hostCards -> CardStatus] /\ DOMAIN hostCards \subseteq Target

\* What each task came to is told of the tasks that the host is through with.
ToldInv ==
  \A h \in Target :
    /\ h \in busy \cup out => reached[h] > 0
    /\ \A t \in 1 .. TaskCount :
         /\ told[h][t] # "none" <=> t < reached[h] \/ (t = reached[h] /\ h \notin busy)
         /\ told[h][t] \in {"failed", "unreachable"} <=> h \in out /\ t = reached[h]

\* In turn by task: nobody is more than one task behind, nor begins it while others are.
LinearInv ==
  /\ \A g \in Target \ out, h \in Target :
       reached[h] <= reached[g] + 1 /\ (reached[h] = reached[g] + 1 => g \notin busy)
  /\ sent = 1 .. Len(cards) /\ \A i \in 1 .. Len(cards) : cards[i].task = i
  /\ \A h \in Target : reached[h] <= Len(cards)
  /\ cards # <<>> => \E h \in Target : reached[h] = Len(cards)
  /\ \A h \in Target, i \in 1 .. Len(cards) :
       Shown(cards[i].rows, h) = IF reached[h] < i THEN "none" ELSE StatusOf(h, i)

\* By batches: those before the one that is out are through, those after it have not begun.
SerialInv ==
  \E k \in 0 .. HostCount + 1 :
    /\ \A g \in Target : g < k => reached[g] = LastTask /\ g \notin busy \cup out
    /\ \A g \in Target : g > k => reached[g] = 0

\* Only a host in the middle of its task runs, on the last card.
RunningInv ==
  /\ \A h \in Target, i \in 1 .. Len(cards) :
       Shown(cards[i].rows, h) = "running" => h \in busy /\ i = Len(cards)
  /\ \A h \in busy : cards # <<>> /\ Shown(LastRows(cards), h) = "running"

LatestInv ==
  /\ sent # {} => cards # <<>>
  /\ \A h \in Target : reached[h] > 0 =>
       \E i \in 1 .. Len(cards) :
         /\ Shown(cards[i].rows, h) # "none"
         /\ \A j \in 1 .. Len(cards) : j > i => Shown(cards[j].rows, h) = "none"
         /\ ~(way = "free" /\ h \in busy) => Shown(cards[i].rows, h) = StatusOf(h, reached[h])

ModuleInv == cards = <<>> /\ HostCardsAreTrue

RecapInv ==
  /\ recap.came \in BOOLEAN
  /\ recap.came => recap.of = Stats /\ busy = {} /\ \A h \in Target : ~MayBegin(h)
  /\ stored.status \in {"running", "ok", "failed", "cancelled"}
  /\ stored.ok \in -1 .. HostCount /\ stored.failed \in -1 .. HostCount
  /\ stored = [status |-> stored.status, ok |-> stored.ok, failed |-> stored.failed]
  /\ (stored.ok = -1) <=> (stored.failed = -1)
  /\ stored.ok # -1 => recap.came /\ stored.ok = Counted(Stats).ok
                         /\ stored.failed = Counted(Stats).failed
  /\ stored.status = "ok" => recap.came /\ out = {}

OutputInv ==
  /\ OutputTypes /\ ToldInv /\ RecapInv
  /\ way = "linear" => LinearInv
  /\ way = "serial" => SerialInv
  /\ way \in {"linear", "serial"} => RunningInv
  /\ IF way = "module" THEN ModuleInv ELSE LatestInv

\* The first row of a host is the one.
LEMMA FirstIs ==
  ASSUME NEW body \in Seq(TaskRow), NEW h
  PROVE  /\ \A k : IsFirst(body, h, k) => /\ FirstRow(body, h) = k /\ k # 0
                                          /\ Shown(body, h) = body[k].status
         /\ (\A k \in 1 .. Len(body) : body[k].host # h) =>
              FirstRow(body, h) = 0 /\ Shown(body, h) = "none"
<1> DEFINE same == {k \in DOMAIN body : body[k].host = h}
<1>1. DOMAIN body = 1 .. Len(body) /\ Len(body) \in Nat
  OBVIOUS
<1>2. FirstRow(body, h) = IF same = {} THEN 0 ELSE CHOOSE k \in same : \A j \in same : k <= j
  BY DEF FirstRow
<1>3. ASSUME NEW k, IsFirst(body, h, k)
      PROVE  FirstRow(body, h) = k /\ k # 0 /\ Shown(body, h) = body[k].status
  <2>1. k \in same /\ k \in Nat /\ k # 0 /\ \A j \in same : j \in Nat /\ k <= j
    BY <1>1, <1>3 DEF IsFirst
  <2>2. \A l \in same : (\A j \in same : l <= j) => l = k
    BY <2>1
  <2>3. FirstRow(body, h) = k
    <3> HIDE DEF same
    <3>1. \E l \in same : \A j \in same : l <= j
      BY <2>1
    <3>2. (CHOOSE l \in same : \A j \in same : l <= j) = k
      BY <2>2, <3>1
    <3>3. QED
      BY <1>2, <2>1, <3>2
  <2>4. QED
    BY <2>1, <2>3 DEF Shown
<1>4. ASSUME \A k \in 1 .. Len(body) : body[k].host # h
      PROVE  FirstRow(body, h) = 0 /\ Shown(body, h) = "none"
  BY <1>1, <1>2, <1>4 DEF Shown
<1>5. QED
  BY <1>3, <1>4

\* A good card has a first row of every host that it has rows of.
LEMMA GoodFirst ==
  ASSUME NEW body, GoodRows(body), NEW h
  PROVE  \/ \E k : IsFirst(body, h, k)
         \/ \A k \in 1 .. Len(body) : body[k].host # h
BY DEF GoodRows

\* A row is added.
LEMMA AddedRow ==
  ASSUME NEW body, GoodRows(body), NEW h \in Target, NEW s \in CardStatus,
         s = "running" => \A k \in 1 .. Len(body) : body[k].host # h
  PROVE  LET added == Append(body, [host |-> h, status |-> s])
         IN /\ GoodRows(added)
            /\ \A g : g # h => Shown(added, g) = Shown(body, g)
            /\ Shown(added, h) = IF \E k \in 1 .. Len(body) : body[k].host = h
                                 THEN Shown(body, h) ELSE s
<1>1. PICK added : added = Append(body, [host |-> h, status |-> s])
  OBVIOUS
<1>2. body \in Seq(TaskRow) /\ Len(body) \in Nat
  BY DEF GoodRows
<1>3. /\ added \in Seq(TaskRow) /\ Len(added) = Len(body) + 1
      /\ \A k \in 1 .. Len(body) : added[k] = body[k]
      /\ added[Len(body) + 1].host = h /\ added[Len(body) + 1].status = s
  BY <1>1, <1>2 DEF TaskRow
<1>4. \A g, k : IsFirst(body, g, k) => IsFirst(added, g, k)
  BY <1>2, <1>3 DEF IsFirst
<1>5. (\A k \in 1 .. Len(body) : body[k].host # h) => IsFirst(added, h, Len(body) + 1)
  BY <1>2, <1>3 DEF IsFirst
<1>6. ASSUME NEW k \in 1 .. Len(added)
      PROVE  \E j \in 1 .. Len(added) : /\ IsFirst(added, added[k].host, j)
                                        /\ added[k].status = "running" => j = k
  <2>1. CASE k \in 1 .. Len(body)
    <3>1. PICK j \in 1 .. Len(body) : /\ IsFirst(body, body[k].host, j)
                                      /\ body[k].status = "running" => j = k
      BY <2>1 DEF GoodRows
    <3>2. QED
      BY <1>2, <1>3, <1>4, <2>1, <3>1
  <2>2. CASE k = Len(body) + 1
    <3>1. CASE \A i \in 1 .. Len(body) : body[i].host # h
      BY <1>2, <1>3, <1>5, <2>2, <3>1
    <3>2. CASE \E i \in 1 .. Len(body) : body[i].host = h
      <4>1. PICK j : IsFirst(body, h, j)
        BY <3>2, GoodFirst
      <4>2. IsFirst(added, h, j) /\ j \in 1 .. Len(added) /\ s # "running"
        BY <1>2, <1>3, <1>4, <3>2, <4>1 DEF IsFirst
      <4>3. QED
        BY <1>3, <2>2, <4>2
    <3>3. QED
      BY <3>1, <3>2
  <2>3. QED
    BY <1>2, <1>3, <2>1, <2>2
<1>7. GoodRows(added)
  BY <1>3, <1>6 DEF GoodRows
<1>8. ASSUME NEW g PROVE g # h => Shown(added, g) = Shown(body, g)
  <2>1. CASE \E k : IsFirst(body, g, k)
    <3>1. PICK k : IsFirst(body, g, k)
      BY <2>1
    <3>2. IsFirst(added, g, k) /\ added[k] = body[k]
      BY <1>3, <1>4, <3>1 DEF IsFirst
    <3>3. QED
      BY <1>2, <1>3, <3>1, <3>2, FirstIs
  <2>2. CASE \A k \in 1 .. Len(body) : body[k].host # g
    <3>1. g # h => \A k \in 1 .. Len(added) : added[k].host # g
      BY <1>2, <1>3, <2>2
    <3>2. QED
      BY <1>2, <1>3, <2>2, <3>1, FirstIs
  <2>3. QED
    BY <2>1, <2>2, GoodFirst
<1>9. Shown(added, h) = IF \E k \in 1 .. Len(body) : body[k].host = h THEN Shown(body, h) ELSE s
  <2>1. CASE \E k \in 1 .. Len(body) : body[k].host = h
    <3>1. PICK k : IsFirst(body, h, k)
      BY <2>1, GoodFirst
    <3>2. IsFirst(added, h, k) /\ added[k] = body[k]
      BY <1>3, <1>4, <3>1 DEF IsFirst
    <3>3. QED
      BY <1>2, <1>3, <2>1, <3>1, <3>2, FirstIs
  <2>2. CASE \A k \in 1 .. Len(body) : body[k].host # h
    BY <1>3, <1>5, <2>2, FirstIs
  <2>3. QED
    BY <2>1, <2>2
<1>10. QED
  BY <1>1, <1>7, <1>8, <1>9

\* The first row of a host is written over.
WrittenOver(body, over, h, s) ==
  \E k : /\ IsFirst(body, h, k) /\ over \in Seq(TaskRow) /\ Len(over) = Len(body)
         /\ over[k].host = h /\ over[k].status = s
         /\ \A j \in 1 .. Len(body) : j # k => over[j] = body[j]

\* That changes what is shown of this host, and of no other.
LEMMA OverRow ==
  ASSUME NEW body, GoodRows(body), NEW h \in Target, NEW s \in CardStatus,
         NEW over, WrittenOver(body, over, h, s)
  PROVE  /\ GoodRows(over) /\ Shown(over, h) = s
         /\ \A g : g # h => Shown(over, g) = Shown(body, g)
<1>1. PICK k : /\ IsFirst(body, h, k) /\ over \in Seq(TaskRow) /\ Len(over) = Len(body)
               /\ over[k].host = h /\ over[k].status = s
               /\ \A j \in 1 .. Len(body) : j # k => over[j] = body[j]
  BY DEF WrittenOver
<1>2. body \in Seq(TaskRow) /\ Len(body) \in Nat /\ k \in 1 .. Len(body) /\ body[k].host = h
  BY <1>1 DEF GoodRows, IsFirst
<1>3. \A g, j : IsFirst(body, g, j) <=> IsFirst(over, g, j)
  BY <1>1, <1>2 DEF IsFirst
<1>4. ASSUME NEW i \in 1 .. Len(over)
      PROVE  \E j \in 1 .. Len(over) : /\ IsFirst(over, over[i].host, j)
                                       /\ over[i].status = "running" => j = i
  <2>1. PICK j \in 1 .. Len(body) : /\ IsFirst(body, body[i].host, j)
                                    /\ body[i].status = "running" => j = i
    BY <1>1 DEF GoodRows
  <2>2. CASE i = k
    BY <1>1, <1>2, <1>3, <2>2
  <2>3. CASE i # k
    BY <1>1, <1>3, <2>1, <2>3
  <2>4. QED
    BY <2>2, <2>3
<1>5. GoodRows(over)
  BY <1>1, <1>4 DEF GoodRows
<1>6. Shown(over, h) = s
  BY <1>1, <1>3, FirstIs
<1>7. ASSUME NEW g, g # h PROVE Shown(over, g) = Shown(body, g)
  <2>1. CASE \E j : IsFirst(body, g, j)
    <3>1. PICK j : IsFirst(body, g, j)
      BY <2>1
    <3>2. j # k /\ over[j] = body[j] /\ IsFirst(over, g, j)
      BY <1>1, <1>2, <1>3, <1>7, <3>1 DEF IsFirst
    <3>3. QED
      BY <1>1, <1>2, <3>1, <3>2, FirstIs
  <2>2. CASE \A j \in 1 .. Len(body) : body[j].host # g
    <3>1. \A j \in 1 .. Len(over) : over[j].host # g
      BY <1>1, <1>2, <1>7, <2>2
    <3>2. QED
      BY <1>1, <1>2, <2>2, <3>1, FirstIs
  <2>3. QED
    BY <2>1, <2>2, GoodFirst
<1>8. QED
  BY <1>5, <1>6, <1>7

\* A result comes for a host.
LEMMA UpsertRow ==
  ASSUME NEW body, GoodRows(body), NEW h \in Target, NEW s \in CardStatus
  PROVE  /\ GoodRows(Upsert(body, h, s)) /\ Shown(Upsert(body, h, s), h) = s
         /\ \A g : g # h => Shown(Upsert(body, h, s), g) = Shown(body, g)
<1>1. body \in Seq(TaskRow)
  BY DEF GoodRows
<1>2. CASE \E k : IsFirst(body, h, k)
  <2>1. PICK k : IsFirst(body, h, k)
    BY <1>2
  <2>2. k \in 1 .. Len(body) /\ body[k] \in TaskRow /\ body[k].host = h
    BY <1>1, <2>1 DEF IsFirst
  <2>3. PICK over : over = Upsert(body, h, s) /\ over = [body EXCEPT ![k].status = s]
    BY <1>1, <2>1, FirstIs DEF Upsert
  <2>4. PICK x : x = [body[k] EXCEPT !.status = s]
    OBVIOUS
  <2>5. over = [body EXCEPT ![k] = x] /\ x \in TaskRow /\ x.host = h /\ x.status = s
    BY <2>2, <2>3, <2>4 DEF TaskRow
  <2>6. /\ over \in Seq(TaskRow) /\ Len(over) = Len(body) /\ over[k] = x
        /\ \A j \in 1 .. Len(body) : j # k => over[j] = body[j]
    BY <1>1, <2>2, <2>5
  <2>7. WrittenOver(body, over, h, s)
    BY <2>1, <2>5, <2>6 DEF WrittenOver
  <2>8. GoodRows(over)
    BY <2>7, OverRow
  <2>9. Shown(over, h) = s
    BY <2>7, OverRow
  <2>10. \A g : g # h => Shown(over, g) = Shown(body, g)
    BY <2>7, OverRow
  <2>11. QED
    BY <2>3, <2>8, <2>9, <2>10
<1>3. CASE \A k \in 1 .. Len(body) : body[k].host # h
  <2>1. Upsert(body, h, s) = Append(body, [host |-> h, status |-> s])
    BY <1>1, <1>3, FirstIs DEF Upsert
  <2>2. QED
    BY <1>3, <2>1, AddedRow
<1>4. QED
  BY <1>2, <1>3, GoodFirst

\* An item of a loop never takes the place of the first row.
LEMMA ItemRow ==
  ASSUME NEW body, GoodRows(body), NEW h \in Target, NEW s \in {"ok", "failed"}
  PROVE  LET added == Append(body, [host |-> h, status |-> s])
         IN /\ GoodRows(added) /\ Shown(added, h) # "none"
            /\ Shown(body, h) # "none" => Shown(added, h) = Shown(body, h)
<1>1. body \in Seq(TaskRow) /\ s \in CardStatus /\ s # "running" /\ s # "none"
  BY DEF GoodRows, CardStatus
<1>2. (\E k \in 1 .. Len(body) : body[k].host = h) => Shown(body, h) # "none"
  <2> SUFFICES ASSUME \E k \in 1 .. Len(body) : body[k].host = h PROVE Shown(body, h) # "none"
    OBVIOUS
  <2>1. PICK k : IsFirst(body, h, k)
    BY GoodFirst
  <2>2. Shown(body, h) = body[k].status /\ body[k] \in TaskRow
    BY <1>1, <2>1, FirstIs DEF IsFirst
  <2>3. QED
    BY <2>2 DEF TaskRow, CardStatus
<1>3. (\A k \in 1 .. Len(body) : body[k].host # h) => Shown(body, h) = "none"
  BY <1>1, FirstIs
<1>4. QED
  BY <1>1, <1>2, <1>3, AddedRow

\* Nor does it change what is shown of another host.
LEMMA ItemOthers ==
  ASSUME NEW body, GoodRows(body), NEW h \in Target, NEW s \in {"ok", "failed"}, NEW g, g # h
  PROVE  Shown(Append(body, [host |-> h, status |-> s]), g) = Shown(body, g)
<1>1. s \in CardStatus /\ s # "running"
  BY DEF CardStatus
<1>2. QED
  BY <1>1, AddedRow

\* A card begins empty.
LEMMA EmptyCard == GoodRows(<<>>) /\ \A h : Shown(<<>>, h) = "none"
<1>1. <<>> \in Seq(TaskRow) /\ Len(<<>>) = 0 /\ 1 .. 0 = {}
  OBVIOUS
<1>2. QED
  BY <1>1, FirstIs DEF GoodRows

\* A row that runs is the first of its host.
LEMMA RunningShown ==
  ASSUME NEW body, GoodRows(body), NEW k \in DOMAIN body, body[k].status = "running"
  PROVE  Shown(body, body[k].host) = "running" /\ body[k].host \in Target
<1>1. body \in Seq(TaskRow) /\ DOMAIN body = 1 .. Len(body)
  BY DEF GoodRows
<1>2. IsFirst(body, body[k].host, k)
  BY <1>1 DEF GoodRows
<1>3. body[k] \in TaskRow
  BY <1>1
<1>4. QED
  BY <1>1, <1>2, <1>3, FirstIs DEF TaskRow

\* What a step for one host makes of the cards: the last one, perhaps a new one, says s of it.
Touched(old, new, h, s) ==
  /\ new \in Seq(TaskCard) /\ \A i \in 1 .. Len(new) : GoodRows(new[i].rows)
  /\ Len(new) > 0 /\ Len(new) \in {Len(old), Len(old) + 1}
  /\ \A i \in 1 .. Len(old) :
       /\ new[i].task = old[i].task /\ (i < Len(new) => new[i] = old[i])
       /\ \A g \in Target : g # h => Shown(new[i].rows, g) = Shown(old[i].rows, g)
  /\ Len(new) > Len(old) => \A g \in Target : g # h => Shown(new[Len(new)].rows, g) = "none"
  /\ Shown(LastRows(new), h) = s

GoodCards(cs) == cs \in Seq(TaskCard) /\ \A i \in 1 .. Len(cs) : GoodRows(cs[i].rows)

\* A card of a task is empty first.
LEMMA NewCard ==
  \A t \in 1 .. TaskCount : LET card == [task |-> t, rows |-> <<>>]
                            IN card \in TaskCard /\ card.rows = <<>> /\ card.task = t
<1>1. <<>> \in Seq(TaskRow)
  OBVIOUS
<1>2. QED
  BY <1>1 DEF TaskCard

\* The rows of the last card are others.
LEMMA LastCard ==
  ASSUME NEW cs, GoodCards(cs), cs # <<>>, NEW body, GoodRows(body)
  PROVE  /\ GoodRows(LastRows(cs)) /\ GoodCards(OnLast(cs, body))
         /\ Len(OnLast(cs, body)) = Len(cs) /\ Len(cs) \in Nat \ {0}
         /\ OnLast(cs, body)[Len(cs)].task = cs[Len(cs)].task
         /\ OnLast(cs, body)[Len(cs)].rows = body
         /\ \A i \in 1 .. Len(cs) : i < Len(cs) => OnLast(cs, body)[i] = cs[i]
<1>1. cs \in Seq(TaskCard) /\ Len(cs) \in Nat \ {0} /\ Len(cs) \in 1 .. Len(cs)
  BY DEF GoodCards
<1>2. cs[Len(cs)] \in TaskCard /\ body \in Seq(TaskRow) /\ GoodRows(LastRows(cs))
  <2>1. cs[Len(cs)] \in TaskCard
    BY <1>1
  <2>2. body \in Seq(TaskRow)
    BY DEF GoodRows
  <2>3. GoodRows(cs[Len(cs)].rows)
    BY <1>1 DEF GoodCards
  <2>4. QED
    BY <2>1, <2>2, <2>3 DEF LastRows
<1>3. PICK card : card = [cs[Len(cs)] EXCEPT !.rows = body]
  OBVIOUS
<1>4. card \in TaskCard /\ card.rows = body /\ card.task = cs[Len(cs)].task
  BY <1>2, <1>3 DEF TaskCard
<1>5. PICK new : new = OnLast(cs, body) /\ new = [cs EXCEPT ![Len(cs)] = card]
  BY <1>3 DEF OnLast
<1>6. /\ new \in Seq(TaskCard) /\ Len(new) = Len(cs) /\ new[Len(cs)] = card
      /\ \A i \in 1 .. Len(cs) : i < Len(cs) => new[i] = cs[i]
  BY <1>1, <1>4, <1>5
<1>7. ASSUME NEW i \in 1 .. Len(new) PROVE GoodRows(new[i].rows)
  <2>1. CASE i = Len(cs)
    BY <1>4, <1>6, <2>1
  <2>2. CASE i # Len(cs)
    <3>1. i < Len(cs) /\ i \in 1 .. Len(cs)
      BY <1>1, <1>6, <2>2
    <3>2. QED
      BY <1>6, <3>1 DEF GoodCards
  <2>3. QED
    BY <2>1, <2>2
<1>8. GoodCards(new)
  BY <1>6, <1>7 DEF GoodCards
<1>9. QED
  BY <1>1, <1>2, <1>4, <1>5, <1>6, <1>8

\* The last card, of some cards that are the old ones or have a new one that is empty.
LEMMA TouchedLast ==
  ASSUME NEW old, GoodCards(old), NEW cs, GoodCards(cs), cs # <<>>,
         NEW h \in Target, NEW body, GoodRows(body),
         \A g \in Target : g # h => Shown(body, g) = Shown(LastRows(cs), g),
         \/ cs = old
         \/ \E t \in 1 .. TaskCount : cs = Append(old, [task |-> t, rows |-> <<>>])
  PROVE  Touched(old, OnLast(cs, body), h, Shown(body, h))
<1>1. PICK new : new = OnLast(cs, body)
  OBVIOUS
<1>2. /\ GoodCards(new) /\ Len(new) = Len(cs) /\ Len(cs) \in Nat \ {0}
      /\ new[Len(cs)].task = cs[Len(cs)].task /\ new[Len(cs)].rows = body
      /\ \A i \in 1 .. Len(cs) : i < Len(cs) => new[i] = cs[i]
  <2>1. GoodCards(OnLast(cs, body)) /\ Len(cs) \in Nat \ {0}
    BY LastCard
  <2>2. Len(OnLast(cs, body)) = Len(cs) /\ OnLast(cs, body)[Len(cs)].rows = body
    BY LastCard
  <2>3. new[Len(cs)].task = cs[Len(cs)].task
    BY <1>1, LastCard
  <2>4. ASSUME NEW i \in 1 .. Len(cs), i < Len(cs) PROVE new[i] = cs[i]
    BY <1>1, <2>4, LastCard
  <2>5. QED
    BY <1>1, <2>1, <2>2, <2>3, <2>4
<1>3. old \in Seq(TaskCard) /\ Len(old) \in Nat
  BY DEF GoodCards
<1>4. /\ Len(cs) \in {Len(old), Len(old) + 1}
      /\ \A i \in 1 .. Len(old) : cs[i] = old[i]
      /\ Len(cs) > Len(old) => LastRows(cs) = <<>>
  <2>1. CASE cs = old
    BY <1>3, <2>1
  <2>2. CASE \E t \in 1 .. TaskCount : cs = Append(old, [task |-> t, rows |-> <<>>])
    <3>1. PICK t \in 1 .. TaskCount : cs = Append(old, [task |-> t, rows |-> <<>>])
      BY <2>2
    <3>2. PICK card : card = [task |-> t, rows |-> <<>>] /\ card \in TaskCard /\ card.rows = <<>>
      BY NewCard
    <3>3. /\ Len(cs) = Len(old) + 1 /\ \A i \in 1 .. Len(old) : cs[i] = old[i]
          /\ cs[Len(old) + 1] = card
      BY <1>3, <3>1, <3>2
    <3>4. QED
      BY <3>2, <3>3 DEF LastRows
  <2>3. QED
    BY <2>1, <2>2
<1>5. ASSUME NEW i \in 1 .. Len(old)
      PROVE  /\ new[i].task = old[i].task /\ (i < Len(new) => new[i] = old[i])
             /\ \A g \in Target : g # h => Shown(new[i].rows, g) = Shown(old[i].rows, g)
  <2>1. CASE i < Len(cs)
    <3>1. new[i] = old[i]
      BY <1>2, <1>3, <1>4, <2>1
    <3>2. QED
      BY <3>1
  <2>2. CASE i = Len(cs)
    <3>1. LastRows(cs) = old[i].rows /\ new[i].rows = body /\ new[i].task = old[i].task
      BY <1>2, <1>4, <2>2 DEF LastRows
    <3>2. QED
      BY <1>2, <1>3, <2>2, <3>1
  <2>3. QED
    BY <1>2, <1>3, <1>4, <2>1, <2>2
<1>6. Len(new) > Len(old) => \A g \in Target : g # h => Shown(new[Len(new)].rows, g) = "none"
  BY <1>2, <1>4, EmptyCard
<1>7. LastRows(new) = body
  BY <1>2 DEF LastRows
<1>8. QED
  BY <1>1, <1>2, <1>4, <1>5, <1>6, <1>7 DEF Touched, GoodCards

\* What the end of a task makes of the cards.
LEMMA EndCards ==
  ASSUME GoodCards(cards), cards # <<>>, NEW h \in Target, NEW s \in CardStatus
  PROVE  LET new == OnLast(cards, Upsert(LastRows(cards), h, s))
         IN Touched(cards, new, h, s) /\ Len(new) = Len(cards)
<1>1. PICK body : body = Upsert(LastRows(cards), h, s)
  OBVIOUS
<1>2. GoodRows(LastRows(cards))
  BY LastCard, EmptyCard
<1>3. GoodRows(body) /\ Shown(body, h) = s
  BY <1>1, <1>2, UpsertRow
<1>4. \A g : g # h => Shown(body, g) = Shown(LastRows(cards), g)
  BY <1>1, <1>2, UpsertRow
<1>5. Touched(cards, OnLast(cards, body), h, Shown(body, h))
  BY <1>3, <1>4, TouchedLast
<1>6. Len(OnLast(cards, body)) = Len(cards)
  BY <1>3, LastCard
<1>7. QED
  BY <1>1, <1>3, <1>5, <1>6

\* What an item of a loop makes of them.
LEMMA ItemCards ==
  ASSUME GoodCards(cards), cards # <<>>, NEW h \in Target, NEW s \in {"ok", "failed"}
  PROVE  LET new == OnLast(cards, Append(LastRows(cards), [host |-> h, status |-> s]))
         IN /\ Touched(cards, new, h, Shown(LastRows(new), h)) /\ Len(new) = Len(cards)
            /\ Shown(LastRows(new), h) # "none"
            /\ Shown(LastRows(cards), h) # "none" =>
                 Shown(LastRows(new), h) = Shown(LastRows(cards), h)
<1>1. PICK body : body = Append(LastRows(cards), [host |-> h, status |-> s])
  OBVIOUS
<1>2. GoodRows(LastRows(cards))
  BY LastCard, EmptyCard
<1>3. /\ GoodRows(body) /\ Shown(body, h) # "none"
      /\ Shown(LastRows(cards), h) # "none" => Shown(body, h) = Shown(LastRows(cards), h)
      /\ \A g : g # h => Shown(body, g) = Shown(LastRows(cards), g)
  <2>1. GoodRows(body) /\ Shown(body, h) # "none"
    BY <1>1, <1>2, ItemRow
  <2>2. Shown(LastRows(cards), h) # "none" => Shown(body, h) = Shown(LastRows(cards), h)
    BY <1>1, <1>2, ItemRow
  <2>3. ASSUME NEW g, g # h PROVE Shown(body, g) = Shown(LastRows(cards), g)
    BY <1>1, <1>2, <2>3, ItemOthers
  <2>4. QED
    BY <2>1, <2>2, <2>3
<1>4. Touched(cards, OnLast(cards, body), h, Shown(body, h))
  BY <1>3, TouchedLast
<1>5. Len(OnLast(cards, body)) = Len(cards) /\ LastRows(OnLast(cards, body)) = body
  <2>1. /\ Len(OnLast(cards, body)) = Len(cards)
        /\ OnLast(cards, body)[Len(cards)].rows = body
    BY <1>3, LastCard
  <2>2. QED
    BY <2>1 DEF LastRows
<1>6. QED
  BY <1>1, <1>3, <1>4, <1>5

\* What the beginning of a task makes of them.
LEMMA BeginCards ==
  ASSUME GoodCards(cards), NEW h \in Target, NEW t \in 1 .. TaskCount, NEW first \in BOOLEAN,
         first \/ cards # <<>>
  PROVE  LET cs == IF first THEN Append(cards, [task |-> t, rows |-> <<>>]) ELSE cards
             new == OnLast(cs, Upsert(LastRows(cs), h, "running"))
         IN /\ Touched(cards, new, h, "running")
            /\ Len(new) = IF first THEN Len(cards) + 1 ELSE Len(cards)
            /\ first => new[Len(cards) + 1].task = t
<1>1. PICK cs : cs = IF first THEN Append(cards, [task |-> t, rows |-> <<>>]) ELSE cards
  OBVIOUS
<1>2. PICK card : card = [task |-> t, rows |-> <<>>] /\ card \in TaskCard /\ card.rows = <<>>
                  /\ card.task = t
  BY NewCard
<1>3. cards \in Seq(TaskCard) /\ Len(cards) \in Nat
  BY DEF GoodCards
<1>4. /\ first => /\ cs \in Seq(TaskCard) /\ Len(cs) = Len(cards) + 1 /\ cs[Len(cards) + 1] = card
                  /\ \A i \in 1 .. Len(cards) : cs[i] = cards[i]
      /\ ~first => cs = cards
  BY <1>1, <1>2, <1>3
<1>5. GoodCards(cs) /\ cs # <<>>
  <2>1. CASE first
    <3>1. ASSUME NEW i \in 1 .. Len(cs) PROVE GoodRows(cs[i].rows)
      <4>1. i \in 1 .. Len(cards) \/ i = Len(cards) + 1
        BY <1>3, <1>4, <2>1
      <4>2. QED
        BY <1>2, <1>4, <2>1, <4>1, EmptyCard DEF GoodCards
    <3>2. QED
      BY <1>3, <1>4, <2>1, <3>1 DEF GoodCards
  <2>2. QED
    BY <1>4, <2>1
<1>6. PICK body : body = Upsert(LastRows(cs), h, "running")
  OBVIOUS
<1>7. GoodRows(LastRows(cs)) /\ "running" \in CardStatus
  BY <1>5, LastCard, EmptyCard DEF CardStatus
<1>8. GoodRows(body) /\ Shown(body, h) = "running"
  BY <1>6, <1>7, UpsertRow
<1>9. \A g : g # h => Shown(body, g) = Shown(LastRows(cs), g)
  BY <1>6, <1>7, UpsertRow
<1>10. Touched(cards, OnLast(cs, body), h, Shown(body, h))
  <2>1. cs = cards \/ cs = Append(cards, [task |-> t, rows |-> <<>>])
    BY <1>1
  <2>2. QED
    BY <1>5, <1>8, <1>9, <2>1, TouchedLast
<1>11. Len(OnLast(cs, body)) = Len(cs) /\ OnLast(cs, body)[Len(cs)].task = cs[Len(cs)].task
  BY <1>5, <1>8, LastCard
<1>12. /\ Len(cs) = IF first THEN Len(cards) + 1 ELSE Len(cards)
       /\ first => OnLast(cs, body)[Len(cards) + 1].task = t
  BY <1>2, <1>4, <1>11
<1>13. QED
  BY <1>1, <1>6, <1>8, <1>10, <1>11, <1>12

\* The rest of the hosts stays as it was.
Others(h) ==
  /\ way' = way
  /\ \A g \in Target : g # h =>
       /\ reached'[g] = reached[g] /\ told'[g] = told[g]
       /\ g \in busy' <=> g \in busy
       /\ g \in out' <=> g \in out

\* A step of one host keeps the last card of each host the one that shows its last task.
LEMMA LatestStep ==
  ASSUME LatestInv, OutputTypes, NEW h \in Target, NEW s, s # "none",
         Touched(cards, cards', h, s), Others(h),
         ~(way = "free" /\ h \in busy') => s = StatusOf(h, reached[h])'
  PROVE  LatestInv'
<1>1. Len(cards) \in Nat /\ Len(cards') \in Nat /\ Len(cards') > 0
  BY DEF OutputTypes, Touched
<1>2. cards' # <<>>
  BY <1>1
<1>3. ASSUME NEW g \in Target, g # h, reached'[g] > 0
      PROVE  \E i \in 1 .. Len(cards') :
               /\ Shown(cards'[i].rows, g) # "none"
               /\ \A j \in 1 .. Len(cards') : j > i => Shown(cards'[j].rows, g) = "none"
               /\ ~(way' = "free" /\ g \in busy') =>
                    Shown(cards'[i].rows, g) = StatusOf(g, reached[g])'
  <2>1. PICK i \in 1 .. Len(cards) :
          /\ Shown(cards[i].rows, g) # "none"
          /\ \A j \in 1 .. Len(cards) : j > i => Shown(cards[j].rows, g) = "none"
          /\ ~(way = "free" /\ g \in busy) => Shown(cards[i].rows, g) = StatusOf(g, reached[g])
    BY <1>3 DEF LatestInv, Others
  <2>2. i \in 1 .. Len(cards') /\ Shown(cards'[i].rows, g) = Shown(cards[i].rows, g)
    BY <1>1, <1>3 DEF Touched
  <2>3. ASSUME NEW j \in 1 .. Len(cards'), j > i PROVE Shown(cards'[j].rows, g) = "none"
    <3>1. CASE j \in 1 .. Len(cards)
      BY <1>3, <2>1, <2>3, <3>1 DEF Touched
    <3>2. CASE j \notin 1 .. Len(cards)
      BY <1>1, <1>3, <2>3, <3>2 DEF Touched
    <3>3. QED
      BY <3>1, <3>2
  <2>4. StatusOf(g, reached[g])' = StatusOf(g, reached[g])
    BY <1>3 DEF Others, StatusOf
  <2>5. QED
    BY <1>3, <2>1, <2>2, <2>3, <2>4 DEF Others
<1>4. \E i \in 1 .. Len(cards') :
        /\ Shown(cards'[i].rows, h) # "none"
        /\ \A j \in 1 .. Len(cards') : j > i => Shown(cards'[j].rows, h) = "none"
        /\ ~(way' = "free" /\ h \in busy') => Shown(cards'[i].rows, h) = StatusOf(h, reached[h])'
  <2>1. Len(cards') \in 1 .. Len(cards') /\ Shown(cards'[Len(cards')].rows, h) = s
    BY <1>1 DEF Touched, LastRows
  <2>2. \A j \in 1 .. Len(cards') : ~(j > Len(cards'))
    BY <1>1
  <2>3. way' = way
    BY DEF Others
  <2>4. QED
    BY <2>1, <2>2, <2>3
<1>5. QED
  BY <1>2, <1>3, <1>4 DEF LatestInv

\* A step of one host keeps what runs on the last card.
LEMMA RunningStep ==
  ASSUME RunningInv, OutputTypes, NEW h \in Target, NEW s,
         Touched(cards, cards', h, s), Others(h), busy' \subseteq Target,
         s = "running" <=> h \in busy',
         Len(cards') > Len(cards) => busy = {}
  PROVE  RunningInv'
<1>1. Len(cards) \in Nat /\ Len(cards') \in Nat /\ Len(cards') > 0
      /\ Len(cards') \in {Len(cards), Len(cards) + 1}
  BY DEF OutputTypes, Touched
<1>2. cards' # <<>> /\ Shown(cards'[Len(cards')].rows, h) = s
      /\ Len(cards') \in 1 .. Len(cards')
  BY <1>1 DEF Touched, LastRows
<1>3. ASSUME NEW g \in Target, NEW i \in 1 .. Len(cards'), Shown(cards'[i].rows, g) = "running"
      PROVE  g \in busy' /\ i = Len(cards')
  <2>1. CASE i \in 1 .. Len(cards) /\ Shown(cards[i].rows, g) = "running"
    <3>1. g \in busy /\ i = Len(cards)
      BY <2>1 DEF RunningInv
    <3>2. Len(cards') = Len(cards)
      BY <1>1, <3>1
    <3>3. g = h => g \in busy'
      BY <1>2, <1>3, <3>1, <3>2
    <3>4. QED
      BY <3>1, <3>2, <3>3 DEF Others
  <2>2. CASE i \in 1 .. Len(cards) /\ Shown(cards[i].rows, g) # "running"
    <3>1. g = h
      BY <1>3, <2>2 DEF Touched
    <3>2. i = Len(cards')
      <4>1. i < Len(cards') => cards'[i] = cards[i]
        BY <2>2 DEF Touched
      <4>2. QED
        BY <1>1, <1>3, <2>2, <4>1
    <3>3. QED
      BY <1>2, <1>3, <3>1, <3>2
  <2>3. CASE i \notin 1 .. Len(cards)
    <3>1. i = Len(cards') /\ Len(cards') > Len(cards)
      BY <1>1, <2>3
    <3>2. g = h
      BY <1>3, <3>1 DEF Touched
    <3>3. QED
      BY <1>2, <1>3, <3>1, <3>2
  <2>4. QED
    BY <2>1, <2>2, <2>3
<1>4. ASSUME NEW g \in busy' PROVE Shown(LastRows(cards'), g) = "running"
  <2>1. CASE g = h
    BY <1>4, <2>1 DEF Touched
  <2>2. CASE g # h
    <3>1. g \in Target /\ g \in busy
      BY <1>4, <2>2 DEF Others
    <3>2. Len(cards') = Len(cards) /\ Len(cards) \in 1 .. Len(cards)
      BY <1>1, <3>1
    <3>3. Shown(LastRows(cards), g) = "running"
      BY <3>1 DEF RunningInv
    <3>4. Shown(cards'[Len(cards)].rows, g) = Shown(cards[Len(cards)].rows, g)
      BY <2>2, <3>1, <3>2 DEF Touched
    <3>5. QED
      BY <3>2, <3>3, <3>4 DEF LastRows
  <2>3. QED
    BY <2>1, <2>2
<1>5. QED
  BY <1>2, <1>3, <1>4 DEF RunningInv

\* By task, a host in the middle of one is at the last that anyone has begun.
LEMMA LinearFront ==
  ASSUME OutputTypes, ToldInv, LinearInv, NEW h \in busy
  PROVE  reached[h] = Len(cards) /\ cards # <<>>
<1>1. h \in Target /\ h \notin out /\ \A g \in Target : reached[g] \in Nat
  BY DEF OutputTypes
<1>2. reached[h] > 0 /\ reached[h] <= Len(cards) /\ Len(cards) \in Nat
  BY <1>1 DEF ToldInv, LinearInv, OutputTypes
<1>3. cards # <<>>
  BY <1>1, <1>2
<1>4. PICK g \in Target : reached[g] = Len(cards)
  BY <1>3 DEF LinearInv
<1>5. reached[g] <= reached[h] + 1 /\ reached[g] # reached[h] + 1
  BY <1>1 DEF LinearInv
<1>6. QED
  BY <1>1, <1>2, <1>3, <1>4, <1>5

\* In turn, a card is only begun when nobody is in the middle of a task.
LEMMA NewCardAlone ==
  ASSUME OutputTypes, ToldInv, NEW h \in Target, MayBegin(h),
         way = "linear" => LinearInv /\ reached[h] + 1 \notin sent,
         way = "serial" => SerialInv, way \in {"linear", "serial"}
  PROVE  busy = {}
<1>1. h \notin busy \cup out /\ reached[h] < LastTask /\ InTurn(h)
      /\ \A g \in Target : reached[g] \in Nat
  BY DEF MayBegin, OutputTypes
<1> SUFFICES ASSUME NEW g \in busy PROVE FALSE
  OBVIOUS
<1>2. g \in Target /\ g \notin out /\ reached[g] > 0
  BY DEF OutputTypes, ToldInv
<1>3. CASE way = "linear"
  <2>1. reached[g] = Len(cards) /\ Len(cards) \in Nat
    BY <1>3, LinearFront DEF OutputTypes
  <2>2. reached[h] <= Len(cards) /\ reached[h] + 1 \notin 1 .. Len(cards)
    BY <1>3 DEF LinearInv
  <2>3. reached[h] = Len(cards)
    BY <1>1, <2>1, <2>2
  <2>4. reached[g] > reached[h] \/ (reached[g] = reached[h] /\ g \notin busy)
    BY <1>1, <1>2, <1>3 DEF InTurn
  <2>5. QED
    BY <2>1, <2>3, <2>4
<1>4. CASE way = "serial"
  <2>1. PICK k \in 0 .. HostCount + 1 :
          /\ \A x \in Target : x < k => reached[x] = LastTask /\ x \notin busy \cup out
          /\ \A x \in Target : x > k => reached[x] = 0
    BY <1>4 DEF SerialInv
  <2>2. g < h => g \notin busy
    BY <1>1, <1>2, <1>4 DEF InTurn
  <2>3. ~(g > k) /\ ~(g < k) /\ ~(h < k)
    BY <1>1, <1>2, <2>1
  <2>4. QED
    BY <1>1, <1>2, <2>1, <2>2, <2>3 DEF Target
<1>5. QED
  BY <1>3, <1>4

\* What each card shows of the hosts, by task, after a step of the one that is in front.
LEMMA LinearShown ==
  ASSUME OutputTypes, LinearInv, NEW h \in Target, NEW s, NEW i \in 1 .. Len(cards'), NEW g \in Target,
         Touched(cards, cards', h, s), Others(h),
         reached'[h] = Len(cards'), reached'[h] \in {reached[h], reached[h] + 1},
         s = StatusOf(h, reached[h])',
         \A t \in 1 .. TaskCount : t < reached'[h] => told'[h][t] = told[h][t],
         Len(cards') <= TaskCount
  PROVE  Shown(cards'[i].rows, g) = IF reached'[g] < i THEN "none" ELSE StatusOf(g, i)'
<1>1. Len(cards) \in Nat /\ Len(cards') \in Nat /\ Len(cards') > 0
      /\ Len(cards') \in {Len(cards), Len(cards) + 1} /\ reached[g] \in Nat /\ reached[h] \in Nat
  BY DEF OutputTypes, Touched
<1>2. CASE g # h
  <2>1. reached'[g] = reached[g] /\ StatusOf(g, i)' = StatusOf(g, i)
    BY <1>2 DEF Others, StatusOf
  <2>2. CASE i \in 1 .. Len(cards)
    BY <1>2, <2>1, <2>2 DEF Touched, LinearInv
  <2>3. CASE i \notin 1 .. Len(cards)
    <3>1. i = Len(cards') /\ Len(cards') > Len(cards)
      BY <1>1, <2>3
    <3>2. Shown(cards'[i].rows, g) = "none"
      BY <1>2, <3>1 DEF Touched
    <3>3. reached[g] <= Len(cards)
      BY DEF LinearInv
    <3>4. QED
      BY <1>1, <2>1, <3>1, <3>2, <3>3
  <2>4. QED
    BY <2>2, <2>3
<1>3. CASE g = h /\ i = Len(cards')
  <2>1. Shown(cards'[i].rows, g) = s
    BY <1>3 DEF Touched, LastRows
  <2>2. ~(reached'[g] < i) /\ reached'[g] = i
    BY <1>1, <1>3
  <2>3. StatusOf(g, i)' = s
    BY <1>3, <2>2 DEF StatusOf
  <2>4. QED
    BY <2>1, <2>2, <2>3
<1>4. CASE g = h /\ i # Len(cards')
  <2>1. i \in 1 .. Len(cards) /\ i < Len(cards') /\ i \in 1 .. TaskCount
    BY <1>1, <1>4
  <2>2. cards'[i] = cards[i]
    BY <2>1 DEF Touched
  <2>3. ~(reached[h] < i) /\ ~(reached'[h] < i) /\ i < reached'[h]
    BY <1>1, <2>1
  <2>4. told'[h][i] = told[h][i]
    BY <2>1, <2>3
  <2>5. StatusOf(h, i)' = StatusOf(h, i)
    BY <2>4 DEF StatusOf
  <2>6. Shown(cards[i].rows, h) = StatusOf(h, i)
    BY <2>1, <2>3 DEF LinearInv
  <2>7. QED
    BY <1>4, <2>2, <2>3, <2>5, <2>6
<1>5. QED
  BY <1>2, <1>3, <1>4

\* A task is begun.
LEMMA BeginTold ==
  ASSUME OutputTypes, ToldInv, NEW h \in Target, BeginTask(h)
  PROVE  ToldInv' /\ Others(h) /\ reached' \in [Target -> 0 .. LastTask]
         /\ reached'[h] = reached[h] + 1 /\ reached[h] + 1 \in 1 .. TaskCount
         /\ h \notin busy \cup out /\ told[h][reached[h] + 1] = "none"
<1>1. /\ h \notin busy \cup out /\ reached[h] < LastTask /\ reached[h] \in 0 .. LastTask
      /\ LastTask \in 1 .. TaskCount /\ InTurn(h)
      /\ reached' = [reached EXCEPT ![h] = reached[h] + 1] /\ busy' = busy \cup {h}
      /\ way' = way /\ out' = out /\ told' = told
  BY DEF BeginTask, MayBegin, OutputTypes, LastTask
<1>2. reached' \in [Target -> 0 .. LastTask] /\ reached'[h] = reached[h] + 1
      /\ \A g \in Target : g # h => reached'[g] = reached[g]
  BY <1>1 DEF OutputTypes
<1>3. Others(h)
  BY <1>1, <1>2 DEF Others
<1>4. told[h][reached[h] + 1] = "none" /\ reached[h] + 1 \in 1 .. TaskCount
  BY <1>1 DEF ToldInv
<1>5. ASSUME NEW g \in Target PROVE g \in busy' \cup out' => reached'[g] > 0
  <2>1. g # h => reached'[g] = reached[g] /\ (g \in busy' \cup out' <=> g \in busy \cup out)
    BY <1>1, <1>2
  <2>2. QED
    BY <1>1, <1>2, <2>1 DEF ToldInv
<1>6. ASSUME NEW g \in Target, NEW t \in 1 .. TaskCount
      PROVE  /\ (told'[g][t] # "none") <=> (t < reached'[g] \/ (t = reached'[g] /\ g \notin busy'))
             /\ (told'[g][t] \in {"failed", "unreachable"}) <=> (g \in out' /\ t = reached'[g])
  <2>1. CASE g = h
    BY <1>1, <1>2, <2>1 DEF ToldInv
  <2>2. CASE g # h
    BY <1>1, <1>2, <2>2 DEF ToldInv
  <2>3. QED
    BY <2>1, <2>2
<1>7. ToldInv'
  BY <1>5, <1>6 DEF ToldInv
<1>8. QED
  BY <1>1, <1>2, <1>3, <1>4, <1>7

\* A task ends.
LEMMA EndTold ==
  ASSUME OutputTypes, ToldInv, NEW h \in Target, NEW o \in Outcome, EndTask(h, o)
  PROVE  /\ ToldInv' /\ Others(h) /\ reached' = reached /\ h \in busy /\ h \notin busy'
         /\ told' \in [Target -> [1 .. TaskCount -> Outcome \cup {"none"}]]
         /\ reached[h] \in 1 .. TaskCount /\ told'[h][reached[h]] = o
         /\ \A t \in 1 .. TaskCount : t # reached[h] => told'[h][t] = told[h][t]
         /\ out \subseteq out' /\ out' \subseteq out \cup {h}
<1>1. /\ h \in busy /\ h \notin out /\ busy' = busy \ {h} /\ reached' = reached /\ way' = way
      /\ told' = [told EXCEPT ![h][reached[h]] = o]
      /\ out' = IF o \in {"failed", "unreachable"} THEN out \cup {h} ELSE out
  BY DEF EndTask, OutputTypes
<1>2. reached[h] \in 1 .. TaskCount
  BY <1>1 DEF OutputTypes, ToldInv, LastTask
<1>3. /\ told' \in [Target -> [1 .. TaskCount -> Outcome \cup {"none"}]]
      /\ told'[h][reached[h]] = o
      /\ \A t \in 1 .. TaskCount : t # reached[h] => told'[h][t] = told[h][t]
      /\ \A g \in Target : g # h => told'[g] = told[g]
  BY <1>1, <1>2 DEF OutputTypes
<1>4. Others(h)
  BY <1>1, <1>3 DEF Others
<1>5. ASSUME NEW g \in Target PROVE g \in busy' \cup out' => reached'[g] > 0
  BY <1>1 DEF ToldInv
<1>6. ASSUME NEW g \in Target, NEW t \in 1 .. TaskCount
      PROVE  /\ (told'[g][t] # "none") <=> (t < reached'[g] \/ (t = reached'[g] /\ g \notin busy'))
             /\ (told'[g][t] \in {"failed", "unreachable"}) <=> (g \in out' /\ t = reached'[g])
  <2>1. CASE g = h /\ t = reached[h]
    BY <1>1, <1>2, <1>3, <2>1 DEF Outcome
  <2>2. CASE g = h /\ t # reached[h]
    BY <1>1, <1>2, <1>3, <2>2 DEF ToldInv
  <2>3. CASE g # h
    BY <1>1, <1>3, <2>3 DEF ToldInv
  <2>4. QED
    BY <2>1, <2>2, <2>3
<1>7. ToldInv'
  BY <1>5, <1>6 DEF ToldInv
<1>8. QED
  BY <1>1, <1>2, <1>3, <1>4, <1>7

\* Nothing that is stored, nor a recap, is there while a task is begun or ends.
LEMMA NoRecapStep ==
  ASSUME RecapInv, stored = Going, UNCHANGED <<recap, stored>>, ~recap.came
  PROVE  RecapInv'
BY DEF RecapInv, Going

\* A task begun with a playbook opens a card when its start is sent.
LEMMA BeginCardsOf ==
  ASSUME OutputInv, NEW h \in Target, BeginTask(h), way # "module"
  PROVE  LET t == reached[h] + 1
             first == t \notin sent
         IN /\ Touched(cards, cards', h, "running")
            /\ Len(cards') = IF first THEN Len(cards) + 1 ELSE Len(cards)
            /\ first => cards'[Len(cards) + 1].task = t
            /\ sent' = (IF first THEN sent \cup {t} ELSE sent) /\ hostCards' = hostCards
<1> DEFINE t == reached[h] + 1
           first == t \notin sent
<1>1. t \in 1 .. TaskCount /\ first \in BOOLEAN
  BY BeginTold DEF OutputInv
<1>2. GoodCards(cards) /\ (first \/ cards # <<>>)
  BY DEF OutputInv, OutputTypes, GoodCards, LatestInv
<1>3. /\ LET cs == IF first THEN Append(cards, [task |-> t, rows |-> <<>>]) ELSE cards
         IN cards' = OnLast(cs, Upsert(LastRows(cs), h, "running"))
      /\ sent' = (IF first THEN sent \cup {t} ELSE sent) /\ hostCards' = hostCards
  BY DEF BeginTask
<1> HIDE DEF t, first
<1>4. /\ Touched(cards, cards', h, "running")
      /\ Len(cards') = IF first THEN Len(cards) + 1 ELSE Len(cards)
      /\ first => cards'[Len(cards) + 1].task = t
  BY <1>1, <1>2, <1>3, BeginCards
<1>5. QED
  BY <1>3, <1>4 DEF t, first

\* By task, a host that begins one comes to the front, which the cards follow.
LEMMA BeginLinear ==
  ASSUME OutputInv, NEW h \in Target, BeginTask(h), way = "linear"
  PROVE  LinearInv'
<1> DEFINE t == reached[h] + 1
           first == t \notin sent
           n == Len(cards)
<1>1. OutputTypes /\ ToldInv /\ LinearInv /\ n \in Nat
      /\ \A g \in Target : reached[g] \in Nat /\ reached[g] <= n
  BY DEF OutputInv, OutputTypes, LinearInv
<1>2. /\ Others(h) /\ reached'[h] = t /\ t \in 1 .. TaskCount /\ h \notin busy \cup out
      /\ told[h][t] = "none" /\ \A g \in Target : g # h => reached'[g] = reached[g]
  BY <1>1, BeginTold DEF Others
<1>3. /\ Touched(cards, cards', h, "running") /\ Len(cards') = IF first THEN n + 1 ELSE n
      /\ first => cards'[n + 1].task = t
      /\ sent' = IF first THEN sent \cup {t} ELSE sent
  BY <1>1, BeginCardsOf
<1>4. /\ told' = told /\ out' = out /\ busy' = busy \cup {h}
      /\ \A g \in Target \ out : reached[g] > reached[h] \/ (reached[g] = reached[h] /\ g \notin busy)
  BY DEF BeginTask, MayBegin, InTurn
<1>5. ASSUME NEW g \in Target \ out', NEW x \in Target
      PROVE  reached'[x] <= reached'[g] + 1 /\ (reached'[x] = reached'[g] + 1 => g \notin busy')
  <2>1. reached[x] <= reached[g] + 1 /\ (reached[x] = reached[g] + 1 => g \notin busy)
    BY <1>1, <1>4 DEF LinearInv
  <2>2. CASE x = h
    BY <1>1, <1>2, <1>4, <2>1, <2>2
  <2>3. CASE x # h /\ g = h
    BY <1>1, <1>2, <1>4, <2>1, <2>3
  <2>4. CASE x # h /\ g # h
    BY <1>1, <1>2, <1>4, <2>1, <2>4
  <2>5. QED
    BY <2>2, <2>3, <2>4
<1>6. sent = 1 .. n /\ \A i \in 1 .. n : cards[i].task = i
  BY <1>1 DEF LinearInv
<1>7. first => t = n + 1
  BY <1>1, <1>2, <1>6
<1>8. ~first => t = n
  <2>1. SUFFICES ASSUME ~first PROVE t = n
    OBVIOUS
  <2>2. t <= n /\ cards # <<>>
    BY <1>1, <1>2, <1>6, <2>1
  <2>3. PICK g \in Target : reached[g] = n
    BY <1>1, <2>2 DEF LinearInv
  <2>4. reached[g] <= reached[h] + 1
    BY <1>1, <1>2 DEF LinearInv
  <2>5. QED
    BY <1>1, <2>2, <2>3, <2>4
<1>9. Len(cards') = t /\ Len(cards') \in Nat /\ t \in Nat /\ cards' # <<>>
  BY <1>1, <1>2, <1>3, <1>7, <1>8 DEF Touched
<1>10. sent' = 1 .. Len(cards')
  <2>1. CASE first
    <3>1. sent' = (1 .. n) \cup {n + 1} /\ Len(cards') = n + 1
      BY <1>3, <1>6, <1>7, <2>1
    <3>2. QED
      BY <1>1, <3>1
  <2>2. CASE ~first
    BY <1>3, <1>6, <2>2
  <2>3. QED
    BY <2>1, <2>2
<1>11. ASSUME NEW i \in 1 .. Len(cards') PROVE cards'[i].task = i
  <2>1. CASE i \in 1 .. n
    BY <1>3, <1>6, <2>1 DEF Touched
  <2>2. CASE i \notin 1 .. n
    BY <1>1, <1>3, <1>7, <1>8, <2>2
  <2>3. QED
    BY <2>1, <2>2
<1>12. ASSUME NEW g \in Target PROVE reached'[g] <= Len(cards')
  <2>1. n <= t
    BY <1>1, <1>7, <1>8
  <2>2. CASE g = h
    BY <1>2, <1>9, <2>2
  <2>3. CASE g # h
    <3>1. reached'[g] = reached[g] /\ reached[g] \in Nat /\ reached[g] <= n
      BY <1>1, <1>2, <2>3
    <3>2. QED
      BY <1>1, <1>9, <2>1, <3>1
  <2>4. QED
    BY <2>2, <2>3
<1>13. reached'[h] = Len(cards')
  BY <1>2, <1>9
<1>14. "running" = StatusOf(h, reached[h])'
  BY <1>2, <1>4 DEF StatusOf
<1>15. \A u \in 1 .. TaskCount : u < reached'[h] => told'[h][u] = told[h][u]
  BY <1>4
<1>16. reached'[h] \in {reached[h], reached[h] + 1} /\ Len(cards') <= TaskCount
  BY <1>2, <1>9
<1>17. ASSUME NEW g \in Target, NEW i \in 1 .. Len(cards')
       PROVE  Shown(cards'[i].rows, g) = IF reached'[g] < i THEN "none" ELSE StatusOf(g, i)'
  BY <1>1, <1>2, <1>3, <1>13, <1>14, <1>15, <1>16, LinearShown
<1>18. QED
  BY <1>5, <1>10, <1>11, <1>12, <1>13, <1>17 DEF LinearInv

\* By batches, a host that begins a task is the one that its batch has come to.
LEMMA BeginSerial ==
  ASSUME OutputInv, NEW h \in Target, BeginTask(h), way = "serial"
  PROVE  SerialInv'
<1>1. /\ Others(h) /\ h \notin busy \cup out /\ way' = way
      /\ \A g \in Target : g < h => g \notin busy \cup out /\ reached[g] = LastTask
      /\ reached[h] < LastTask
  BY BeginTold DEF OutputInv, BeginTask, MayBegin, InTurn
<1>2. PICK k \in 0 .. HostCount + 1 :
        /\ \A x \in Target : x < k => reached[x] = LastTask /\ x \notin busy \cup out
        /\ \A x \in Target : x > k => reached[x] = 0
  BY DEF OutputInv, SerialInv
<1>3. reached[h] # LastTask
  BY <1>1 DEF OutputInv, OutputTypes, LastTask
<1>4. ~(h < k) /\ h \in 0 .. HostCount + 1
  BY <1>1, <1>2, <1>3 DEF Target
<1>5. LastTask' = LastTask
  BY <1>1 DEF LastTask
<1>6. ASSUME NEW g \in Target, g < h PROVE reached'[g] = LastTask' /\ g \notin busy' \cup out'
  BY <1>1, <1>5, <1>6 DEF Others, Target
<1>7. ASSUME NEW g \in Target, g > h PROVE reached'[g] = 0
  BY <1>1, <1>2, <1>4, <1>7 DEF Others, Target
<1>8. QED
  BY <1>4, <1>6, <1>7 DEF SerialInv

\* The invariant is kept by every beginning of a task.
LEMMA BeginInv ==
  ASSUME OutputInv, NEW h \in Target, BeginTask(h)
  PROVE  OutputInv'
<1>1. OutputTypes /\ ToldInv /\ RecapInv
  BY DEF OutputInv
<1>2. /\ ToldInv' /\ Others(h) /\ reached' \in [Target -> 0 .. LastTask]
      /\ reached'[h] = reached[h] + 1 /\ reached[h] + 1 \in 1 .. TaskCount
      /\ h \notin busy \cup out /\ told[h][reached[h] + 1] = "none" /\ way' = way
  BY <1>1, BeginTold DEF Others
<1>3. /\ told' = told /\ out' = out /\ busy' = busy \cup {h} /\ stored = Going /\ MayBegin(h)
      /\ UNCHANGED <<recap, stored>>
  BY DEF BeginTask
<1>4. RecapInv'
  BY <1>1, <1>3, NoRecapStep DEF RecapInv
<1>5. LastTask' = LastTask
  BY <1>2 DEF LastTask
<1>6. CASE way = "module"
  <2>1. /\ cards' = cards /\ sent' = sent /\ hostCards' = StartsHostCard(h) /\ reached[h] = 0
        /\ ModuleInv
    BY <1>1, <1>6 DEF BeginTask, OutputInv, MayBegin, LastTask, OutputTypes
  <2>2. h \notin DOMAIN hostCards
    BY <1>6, <2>1 DEF ModuleInv, HostCardsAreTrue
  <2>3. hostCards' = [g \in DOMAIN hostCards \cup {h} |-> IF g = h THEN "running" ELSE hostCards[g]]
    BY <2>1, <2>2 DEF StartsHostCard, HostCard
  <2>4. OutputTypes'
    BY <1>1, <1>2, <1>3, <1>5, <2>1, <2>3 DEF OutputTypes, CardStatus
  <2>5. DOMAIN hostCards' = {g \in Target : reached'[g] > 0}
    BY <1>1, <1>2, <1>6, <2>1, <2>3 DEF ModuleInv, HostCardsAreTrue, Others, OutputTypes
  <2>6. ASSUME NEW g \in DOMAIN hostCards' PROVE hostCards'[g] = StatusOf(g, 1)'
    <3>1. CASE g = h
      BY <1>2, <1>3, <2>1, <2>3, <3>1 DEF StatusOf
    <3>2. CASE g # h
      BY <1>3, <1>6, <2>1, <2>3, <3>2 DEF StatusOf, ModuleInv, HostCardsAreTrue
    <3>3. QED
      BY <3>1, <3>2
  <2>7. ModuleInv'
    BY <2>1, <2>5, <2>6 DEF ModuleInv, HostCardsAreTrue
  <2>8. QED
    BY <1>2, <1>4, <1>6, <2>4, <2>7 DEF OutputInv
<1>7. CASE way # "module"
  <2>1. /\ Touched(cards, cards', h, "running") /\ hostCards' = hostCards
        /\ Len(cards') = IF reached[h] + 1 \notin sent THEN Len(cards) + 1 ELSE Len(cards)
        /\ sent' = IF reached[h] + 1 \notin sent THEN sent \cup {reached[h] + 1} ELSE sent
    BY <1>7, BeginCardsOf
  <2>2. OutputTypes'
    BY <1>1, <1>2, <1>3, <1>5, <2>1 DEF OutputTypes, Touched
  <2>3. "running" = StatusOf(h, reached[h])'
    BY <1>2, <1>3 DEF StatusOf
  <2>4. LatestInv'
    BY <1>1, <1>2, <1>7, <2>1, <2>3, LatestStep DEF OutputInv
  <2>5. ASSUME way \in {"linear", "serial"} PROVE RunningInv'
    <3>1. RunningInv /\ (way = "linear" => LinearInv) /\ (way = "serial" => SerialInv)
      BY <2>5 DEF OutputInv
    <3>2. Len(cards') > Len(cards) => reached[h] + 1 \notin sent
      BY <1>1, <2>1 DEF OutputTypes
    <3>3. way = "serial" => (busy = {} \/ Len(cards') = Len(cards))
      BY <1>1, <1>3, <2>5, <3>1, NewCardAlone
    <3>4. way = "linear" /\ reached[h] + 1 \notin sent => busy = {}
      BY <1>1, <1>3, <2>5, <3>1, NewCardAlone
    <3>5. Len(cards') > Len(cards) => busy = {}
      BY <1>1, <2>5, <3>2, <3>3, <3>4 DEF OutputTypes
    <3>6. h \in busy' /\ busy' \subseteq Target
      BY <1>1, <1>3 DEF OutputTypes
    <3>7. QED
      BY <1>1, <1>2, <2>1, <3>1, <3>5, <3>6, RunningStep
  <2>6. way = "linear" => LinearInv'
    BY BeginLinear
  <2>7. way = "serial" => SerialInv'
    BY BeginSerial
  <2>8. QED
    BY <1>2, <1>4, <1>7, <2>2, <2>4, <2>5, <2>6, <2>7 DEF OutputInv
<1>8. QED
  BY <1>6, <1>7

\* A host in the middle of its task is on the last card.
LEMMA BusyShown ==
  ASSUME OutputInv, NEW h \in busy
  PROVE  /\ ~recap.came /\ h \in Target /\ reached[h] \in 1 .. TaskCount /\ told[h][reached[h]] = "none"
         /\ way # "module" => GoodCards(cards) /\ cards # <<>>
<1>1. h \in Target /\ reached[h] \in 1 .. TaskCount /\ told[h][reached[h]] = "none"
  BY DEF OutputInv, OutputTypes, ToldInv, LastTask
<1>2. ~recap.came
  BY DEF OutputInv, RecapInv
<1>3. ASSUME way # "module" PROVE GoodCards(cards) /\ cards # <<>>
  <2>1. LatestInv /\ cards \in Seq(TaskCard) /\ GoodCards(cards)
    BY <1>3 DEF OutputInv, OutputTypes, GoodCards
  <2>2. 1 .. Len(cards) # {}
    BY <1>1, <2>1 DEF LatestInv
  <2>3. QED
    BY <2>1, <2>2
<1>4. QED
  BY <1>1, <1>2, <1>3

\* A loop's item changes nothing of what is shown, where hosts go in turn.
LEMMA ItemInv ==
  ASSUME OutputInv, NEW h \in Target, NEW s \in {"ok", "failed"}, EndItem(h, s)
  PROVE  OutputInv'
<1>1. /\ stored = Going /\ h \in busy /\ way # "module"
      /\ cards' = OnLast(cards, Append(LastRows(cards), [host |-> h, status |-> s]))
      /\ UNCHANGED <<way, reached, busy, out, told, sent, hostCards, recap, stored>>
  BY DEF EndItem
<1>2. /\ OutputTypes /\ ToldInv /\ RecapInv /\ LatestInv
      /\ GoodCards(cards) /\ cards # <<>> /\ ~recap.came /\ told[h][reached[h]] = "none"
      /\ reached[h] \in 1 .. TaskCount
  BY <1>1, BusyShown DEF OutputInv
<1>3. /\ Touched(cards, cards', h, Shown(LastRows(cards'), h)) /\ Len(cards') = Len(cards)
      /\ Shown(LastRows(cards'), h) # "none"
      /\ Shown(LastRows(cards), h) # "none" => Shown(LastRows(cards'), h) = Shown(LastRows(cards), h)
  BY <1>1, <1>2, ItemCards
<1>4. OutputTypes'
  BY <1>1, <1>2, <1>3 DEF OutputTypes, Touched, LastTask
<1>5. Others(h)
  BY <1>1 DEF Others
<1>6. ToldInv'
  BY <1>1, <1>2 DEF ToldInv
<1>7. RecapInv'
  BY <1>1, <1>2, NoRecapStep
<1>8. ASSUME way \in {"linear", "serial"}
      PROVE  RunningInv' /\ Shown(LastRows(cards'), h) = "running"
  <2>1. RunningInv /\ Shown(LastRows(cards), h) = "running"
    BY <1>1, <1>8 DEF OutputInv, RunningInv
  <2>2. Shown(LastRows(cards'), h) = "running"
    BY <1>3, <2>1
  <2>3. busy' \subseteq Target /\ h \in busy' /\ ~(Len(cards') > Len(cards))
    BY <1>1, <1>2, <1>3 DEF OutputTypes
  <2>4. QED
    BY <1>2, <1>3, <1>5, <2>1, <2>2, <2>3, RunningStep
<1>9. StatusOf(h, reached[h])' = "running"
  BY <1>1, <1>2 DEF StatusOf
<1>10. way \in Way /\ way' = way /\ h \in busy'
  BY <1>1, <1>2 DEF OutputTypes
<1>11. ~(way = "free" /\ h \in busy') => Shown(LastRows(cards'), h) = StatusOf(h, reached[h])'
  BY <1>1, <1>8, <1>9, <1>10 DEF Way
<1>12. LatestInv'
  BY <1>2, <1>3, <1>5, <1>11, LatestStep
<1>13. ASSUME way = "linear" PROVE LinearInv'
  <2>1. LinearInv /\ reached[h] = Len(cards)
    BY <1>1, <1>2, <1>13, LinearFront DEF OutputInv
  <2>2. /\ reached'[h] = Len(cards') /\ reached'[h] \in {reached[h], reached[h] + 1}
        /\ Len(cards') <= TaskCount /\ Shown(LastRows(cards'), h) = StatusOf(h, reached[h])'
        /\ \A t \in 1 .. TaskCount : t < reached'[h] => told'[h][t] = told[h][t]
    BY <1>1, <1>2, <1>3, <1>8, <1>9, <1>13, <2>1
  <2>3. ASSUME NEW g \in Target, NEW i \in 1 .. Len(cards')
        PROVE  Shown(cards'[i].rows, g) = IF reached'[g] < i THEN "none" ELSE StatusOf(g, i)'
    BY <1>2, <1>3, <1>5, <2>1, <2>2, LinearShown
  <2>4. \A i \in 1 .. Len(cards') : cards'[i].task = i
    BY <1>3, <2>1 DEF Touched, LinearInv
  <2>5. cards' # <<>> => \E g \in Target : reached'[g] = Len(cards')
    BY <2>2
  <2>6. QED
    BY <1>1, <1>3, <2>1, <2>3, <2>4, <2>5 DEF LinearInv
<1>14. ASSUME way = "serial" PROVE SerialInv'
  BY <1>1, <1>14 DEF OutputInv, SerialInv, LastTask
<1>15. QED
  BY <1>1, <1>4, <1>6, <1>7, <1>8, <1>10, <1>12, <1>13, <1>14 DEF OutputInv

\* The end of a task keeps the invariant.
LEMMA EndInv ==
  ASSUME OutputInv, NEW h \in Target, NEW o \in Outcome, EndTask(h, o)
  PROVE  OutputInv'
<1>1. /\ stored = Going /\ h \in busy /\ busy' = busy \ {h}
      /\ UNCHANGED <<way, reached, sent, recap, stored>>
      /\ IF way = "module" THEN hostCards' = HostCard(h, RowOf(o)) /\ UNCHANGED cards
         ELSE cards' = OnLast(cards, Upsert(LastRows(cards), h, RowOf(o))) /\ UNCHANGED hostCards
  BY DEF EndTask
<1>2. /\ OutputTypes /\ ToldInv /\ RecapInv /\ ~recap.came
      /\ way # "module" => LatestInv /\ GoodCards(cards) /\ cards # <<>>
  BY <1>1, BusyShown DEF OutputInv
<1>3. /\ ToldInv' /\ Others(h) /\ reached' = reached /\ h \notin busy'
      /\ told' \in [Target -> [1 .. TaskCount -> Outcome \cup {"none"}]]
      /\ reached[h] \in 1 .. TaskCount /\ told'[h][reached[h]] = o
      /\ \A t \in 1 .. TaskCount : t # reached[h] => told'[h][t] = told[h][t]
      /\ out \subseteq out' /\ out' \subseteq out \cup {h}
  BY <1>2, EndTold
<1>4. RowOf(o) \in CardStatus \ {"running"} /\ StatusOf(h, reached[h])' = RowOf(o)
  BY <1>3 DEF RowOf, StatusOf, Outcome, CardStatus
<1>5. RecapInv'
  BY <1>1, <1>2, NoRecapStep
<1>6. out' \subseteq Target \ busy' /\ busy' \subseteq Target /\ LastTask' = LastTask
  BY <1>1, <1>2, <1>3 DEF OutputTypes, LastTask
<1>7. CASE way = "module"
  <2>1. /\ cards' = cards /\ ModuleInv /\ reached[h] = 1
        /\ hostCards' = [g \in DOMAIN hostCards \cup {h} |-> IF g = h THEN RowOf(o) ELSE hostCards[g]]
    BY <1>1, <1>2, <1>3, <1>7 DEF OutputInv, HostCard, OutputTypes, LastTask
  <2>2. OutputTypes'
    BY <1>1, <1>2, <1>3, <1>4, <1>6, <2>1 DEF OutputTypes
  <2>3. DOMAIN hostCards' = {g \in Target : reached'[g] > 0}
    BY <1>1, <1>7, <2>1 DEF ModuleInv, HostCardsAreTrue
  <2>4. ASSUME NEW g \in DOMAIN hostCards' PROVE hostCards'[g] = StatusOf(g, 1)'
    <3>1. CASE g = h
      BY <1>3, <1>4, <2>1, <3>1
    <3>2. CASE g # h
      BY <1>3, <1>7, <2>1, <3>2 DEF StatusOf, ModuleInv, HostCardsAreTrue, Others
    <3>3. QED
      BY <3>1, <3>2
  <2>5. ModuleInv'
    BY <2>1, <2>3, <2>4 DEF ModuleInv, HostCardsAreTrue
  <2>6. QED
    BY <1>1, <1>3, <1>5, <1>7, <2>2, <2>5 DEF OutputInv
<1>8. CASE way # "module"
  <2>1. Touched(cards, cards', h, RowOf(o)) /\ Len(cards') = Len(cards) /\ hostCards' = hostCards
    BY <1>1, <1>2, <1>4, <1>8, EndCards
  <2>2. OutputTypes'
    BY <1>1, <1>2, <1>3, <1>6, <2>1 DEF OutputTypes, Touched
  <2>3. LatestInv'
    <3>1. RowOf(o) # "none"
      BY <1>4 DEF CardStatus
    <3>2. QED
      BY <1>2, <1>3, <1>4, <1>8, <2>1, <3>1, LatestStep
  <2>4. ASSUME way \in {"linear", "serial"} PROVE RunningInv'
    <3>1. RunningInv /\ ~(Len(cards') > Len(cards)) /\ ~(h \in busy')
      BY <1>2, <1>3, <2>1, <2>4 DEF OutputInv, OutputTypes
    <3>2. RowOf(o) = "running" <=> h \in busy'
      BY <1>4, <3>1
    <3>3. QED
      BY <1>2, <1>3, <1>6, <2>1, <3>1, <3>2, RunningStep
  <2>5. ASSUME way = "linear" PROVE LinearInv'
    <3>1. LinearInv /\ reached[h] = Len(cards)
      BY <1>1, <1>2, <2>5, LinearFront DEF OutputInv
    <3>2. /\ reached'[h] = Len(cards') /\ reached'[h] \in {reached[h], reached[h] + 1}
          /\ Len(cards') <= TaskCount /\ RowOf(o) = StatusOf(h, reached[h])'
          /\ \A t \in 1 .. TaskCount : t < reached'[h] => told'[h][t] = told[h][t]
      BY <1>3, <1>4, <2>1, <3>1
    <3>3. ASSUME NEW g \in Target, NEW i \in 1 .. Len(cards')
          PROVE  Shown(cards'[i].rows, g) = IF reached'[g] < i THEN "none" ELSE StatusOf(g, i)'
      BY <1>2, <1>3, <2>1, <3>1, <3>2, LinearShown
    <3>4. \A i \in 1 .. Len(cards') : cards'[i].task = i
      BY <2>1, <3>1 DEF Touched, LinearInv
    <3>5. ASSUME NEW g \in Target \ out', NEW x \in Target
          PROVE  reached'[x] <= reached'[g] + 1 /\ (reached'[x] = reached'[g] + 1 => g \notin busy')
      BY <1>1, <1>3, <3>1 DEF LinearInv
    <3>6. QED
      BY <1>1, <2>1, <3>1, <3>2, <3>3, <3>4, <3>5 DEF LinearInv
  <2>6. ASSUME way = "serial" PROVE SerialInv'
    <3>1. PICK k \in 0 .. HostCount + 1 :
            /\ \A x \in Target : x < k => reached[x] = LastTask /\ x \notin busy \cup out
            /\ \A x \in Target : x > k => reached[x] = 0
      BY <2>6 DEF OutputInv, SerialInv
    <3>2. \A x \in Target : x < k => reached'[x] = LastTask' /\ x \notin busy' \cup out'
      BY <1>1, <1>3, <1>6, <3>1
    <3>3. \A x \in Target : x > k => reached'[x] = 0
      BY <1>3, <3>1
    <3>4. QED
      BY <3>1, <3>2, <3>3 DEF SerialInv
  <2>7. QED
    BY <1>1, <1>3, <1>5, <1>8, <2>2, <2>3, <2>4, <2>5, <2>6 DEF OutputInv
<1>9. QED
  BY <1>7, <1>8

\* Of the recap: the hosts that count as failed are those that are out, the others those on
\* which some task came to something that is counted.
LEMMA StatsAre ==
  ASSUME OutputTypes, ToldInv
  PROVE  LET bad == {h \in DOMAIN Stats : FailedIn(Stats[h])}
         IN /\ bad = out
            /\ DOMAIN Stats \ bad = {h \in Target \ out :
                 \E t \in 1 .. TaskCount : told[h][t] \notin {"none", "rescued"}}
<1> DEFINE of(h) == UNION {Buckets(told[h][t]) : t \in 1 .. TaskCount}
           bad == {h \in DOMAIN Stats : FailedIn(Stats[h])}
<1>1. Stats = [h \in {g \in Target : of(g) # {}} |-> of(h)]
  BY DEF Stats
<1>2. DOMAIN Stats = {g \in Target : of(g) # {}} /\ \A h \in DOMAIN Stats : Stats[h] = of(h)
  BY <1>1
<1>3. ASSUME NEW o \in Outcome \cup {"none"}
      PROVE  /\ ((Buckets(o) \cap {"failures", "dark"} # {}) <=> (o \in {"failed", "unreachable"}))
             /\ ((Buckets(o) # {}) <=> (o \notin {"none", "rescued"}))
  BY DEF Buckets, Outcome
<1>4. ASSUME NEW h \in Target, NEW t \in 1 .. TaskCount PROVE told[h][t] \in Outcome \cup {"none"}
  BY DEF OutputTypes
<1>5. ASSUME NEW h \in Target
      PROVE  /\ ((of(h) # {}) <=> \E t \in 1 .. TaskCount : told[h][t] \notin {"none", "rescued"})
             /\ (FailedIn(of(h)) <=> \E t \in 1 .. TaskCount : told[h][t] \in {"failed", "unreachable"})
  <2>1. (of(h) # {}) <=> \E t \in 1 .. TaskCount : Buckets(told[h][t]) # {}
    OBVIOUS
  <2>2. (of(h) \cap {"failures", "dark"} # {})
          <=> \E t \in 1 .. TaskCount : Buckets(told[h][t]) \cap {"failures", "dark"} # {}
    OBVIOUS
  <2>3. QED
    BY <1>3, <1>4, <2>1, <2>2 DEF FailedIn
<1>6. ASSUME NEW h \in Target
      PROVE  (h \in out) <=> \E t \in 1 .. TaskCount : told[h][t] \in {"failed", "unreachable"}
  <2>1. (\E t \in 1 .. TaskCount : told[h][t] \in {"failed", "unreachable"}) => h \in out
    BY DEF ToldInv
  <2>2. ASSUME h \in out PROVE told[h][reached[h]] \in {"failed", "unreachable"} /\ reached[h] \in 1 .. TaskCount
    <3>1. reached[h] \in 1 .. TaskCount
      BY <2>2 DEF OutputTypes, ToldInv, LastTask
    <3>2. QED
      BY <2>2, <3>1 DEF ToldInv
  <2>3. QED
    BY <2>1, <2>2
<1> HIDE DEF of
<1>7. bad = out
  <2>1. ASSUME NEW h \in bad PROVE h \in out
    BY <1>2, <1>5, <1>6
  <2>2. ASSUME NEW h \in out PROVE h \in bad
    <3>1. h \in Target
      BY DEF OutputTypes
    <3>2. FailedIn(of(h)) /\ of(h) # {}
      BY <1>5, <1>6, <3>1
    <3>3. QED
      BY <1>2, <3>1, <3>2
  <2>3. QED
    BY <2>1, <2>2
<1>8. DOMAIN Stats \ bad = {h \in Target \ out :
        \E t \in 1 .. TaskCount : told[h][t] \notin {"none", "rescued"}}
  BY <1>2, <1>5, <1>7
<1>9. QED
  BY <1>7, <1>8

\* There are no more hosts to count than there are.
LEMMA CountBounds ==
  ASSUME OutputTypes, ToldInv
  PROVE  /\ Counted(Stats).ok \in 0 .. HostCount /\ Counted(Stats).failed \in 0 .. HostCount
         /\ Counted(Stats).failed = Cardinality(out)
         /\ Counted(Stats).ok = Cardinality({h \in Target \ out :
              \E t \in 1 .. TaskCount : told[h][t] \notin {"none", "rescued"}})
<1> DEFINE fine == {h \in Target \ out : \E t \in 1 .. TaskCount : told[h][t] \notin {"none", "rescued"}}
<1>1. Counted(Stats).failed = Cardinality(out) /\ Counted(Stats).ok = Cardinality(fine)
  BY StatsAre DEF Counted
<1>2. IsFiniteSet(Target) /\ Cardinality(Target) = HostCount
  BY FS_Interval DEF Target
<1>3. out \subseteq Target /\ fine \subseteq Target
  BY DEF OutputTypes
<1> HIDE DEF fine
<1>4. /\ IsFiniteSet(out) /\ IsFiniteSet(fine)
      /\ Cardinality(out) <= HostCount /\ Cardinality(fine) <= HostCount
  BY <1>2, <1>3, FS_Subset
<1>5. Cardinality(out) \in Nat /\ Cardinality(fine) \in Nat
  BY <1>4, FS_CardinalityType
<1>6. QED
  BY <1>1, <1>4, <1>5 DEF fine

\* What stays when only the recap comes or something is stored.
LEMMA SameOutput ==
  ASSUME OutputInv, UNCHANGED <<way, reached, busy, out, told, sent, cards, hostCards>>, RecapInv'
  PROVE  OutputInv'
<1>1. OutputTypes' /\ ToldInv'
  BY DEF OutputInv, OutputTypes, ToldInv, LastTask
<1>2. way = "linear" => LinearInv'
  BY DEF OutputInv, LinearInv, StatusOf
<1>3. way = "serial" => SerialInv'
  BY DEF OutputInv, SerialInv, LastTask
<1>4. way \in {"linear", "serial"} => RunningInv'
  BY DEF OutputInv, RunningInv
<1>5. way = "module" => ModuleInv'
  BY DEF OutputInv, ModuleInv, HostCardsAreTrue, StatusOf
<1>6. way # "module" => LatestInv'
  BY DEF OutputInv, LatestInv, StatusOf
<1>7. QED
  BY <1>1, <1>2, <1>3, <1>4, <1>5, <1>6 DEF OutputInv

\* The recap comes, and the run is stored.
LEMMA RecapStep ==
  ASSUME OutputInv, SendRecap \/ EndOutput \/ CutOutput
  PROVE  OutputInv'
<1>1. /\ OutputTypes /\ ToldInv /\ RecapInv
      /\ UNCHANGED <<way, reached, busy, out, told, sent, cards, hostCards>>
  BY DEF OutputInv, SendRecap, EndOutput, CutOutput, StoreRun
<1>2. Stats' = Stats /\ \A h \in Target : MayBegin(h)' <=> MayBegin(h)
  BY <1>1 DEF Stats, MayBegin, InTurn, LastTask
<1>3. CASE SendRecap
  <2>1. /\ recap' = [came |-> TRUE, of |-> Stats] /\ busy = {} /\ stored' = stored
        /\ \A h \in Target : ~MayBegin(h)
    BY <1>3 DEF SendRecap
  <2>2. ~recap.came
    BY <1>3 DEF SendRecap
  <2>3. RecapInv'
    BY <1>1, <1>2, <2>1, <2>2 DEF RecapInv
  <2>4. QED
    BY <1>1, <2>3, SameOutput
<1>4. ASSUME NEW s \in {"ok", "failed", "cancelled"}, NEW whole \in BOOLEAN, StoreRun(s, whole),
             s = "ok" => recap.came /\ out = {}
      PROVE  RecapInv'
  <2>1. recap' = recap /\ stored' = (IF whole /\ recap.came
               THEN [status |-> s, ok |-> Counted(recap.of).ok, failed |-> Counted(recap.of).failed]
               ELSE [Going EXCEPT !.status = s])
    BY <1>4 DEF StoreRun
  <2>2. CASE whole /\ recap.came
    <3>1. stored' = [status |-> s, ok |-> Counted(Stats).ok, failed |-> Counted(Stats).failed]
      BY <1>1, <2>1, <2>2 DEF RecapInv
    <3>2. Counted(Stats).ok \in 0 .. HostCount /\ Counted(Stats).failed \in 0 .. HostCount
      BY <1>1, CountBounds
    <3>3. Counted(Stats)' = Counted(Stats)
      BY <1>2 DEF Counted
    <3>4. QED
      BY <1>1, <1>2, <1>4, <2>1, <2>2, <3>1, <3>2, <3>3 DEF RecapInv
  <2>3. CASE ~(whole /\ recap.came)
    <3>1. stored' = [status |-> s, ok |-> -1, failed |-> -1]
      BY <2>1, <2>3 DEF Going
    <3>2. QED
      BY <1>1, <1>2, <1>4, <2>1, <3>1 DEF RecapInv
  <2>4. QED
    BY <2>2, <2>3
<1>5. CASE EndOutput
  BY <1>1, <1>4, <1>5, SameOutput DEF EndOutput
<1>6. CASE CutOutput
  BY <1>1, <1>4, <1>6, SameOutput DEF CutOutput
<1>7. QED
  BY <1>3, <1>5, <1>6

\* Nothing has come of a run yet.
FreshOutput ==
  /\ way \in Way
  /\ reached = [h \in Target |-> 0] /\ busy = {} /\ out = {} /\ sent = {}
  /\ told = [h \in Target |-> [t \in 1 .. TaskCount |-> "none"]]
  /\ cards = <<>> /\ hostCards = <<>> /\ recap = NoRecap /\ stored = Going

\* It is the invariant of an empty console.
LEMMA FreshInv == FreshOutput => OutputInv
<1> SUFFICES ASSUME FreshOutput PROVE OutputInv
  OBVIOUS
<1> USE DEF FreshOutput
<1>1. LastTask \in Nat /\ Len(cards) = 0 /\ 1 .. 0 = {} /\ DOMAIN hostCards = {}
  BY DEF LastTask
<1>2. OutputTypes
  BY <1>1 DEF OutputTypes
<1>3. ToldInv
  BY DEF ToldInv
<1>4. RecapInv
  BY DEF RecapInv, NoRecap, Going
<1>5. LinearInv
  BY <1>1 DEF LinearInv
<1>6. SerialInv
  <2>1. 0 \in 0 .. HostCount + 1
    OBVIOUS
  <2>2. \A g \in Target : ~(g < 0) /\ reached[g] = 0
    BY DEF Target
  <2>3. QED
    BY <2>1, <2>2 DEF SerialInv
<1>7. RunningInv
  BY <1>1 DEF RunningInv
<1>8. LatestInv
  BY DEF LatestInv
<1>9. ModuleInv
  BY <1>1 DEF ModuleInv, HostCardsAreTrue
<1>10. QED
  BY <1>2, <1>3, <1>4, <1>5, <1>6, <1>7, <1>8, <1>9 DEF OutputInv

\* Every step keeps the invariant.
LEMMA OutputStep ==
  ASSUME OutputInv, [RunOutputNext]_outputVars
  PROVE  OutputInv'
<1>1. CASE SendRecap \/ EndOutput \/ CutOutput
  BY <1>1, RecapStep
<1>2. ASSUME NEW h \in Target, BeginTask(h) PROVE OutputInv'
  BY <1>2, BeginInv
<1>3. ASSUME NEW h \in Target, NEW s \in {"ok", "failed"}, EndItem(h, s) PROVE OutputInv'
  BY <1>3, ItemInv
<1>4. ASSUME NEW h \in Target, NEW o \in Outcome, EndTask(h, o) PROVE OutputInv'
  BY <1>4, EndInv
<1>5. CASE ShowAnother
  <2>1. FreshOutput'
    BY <1>5 DEF ShowAnother, Begins, FreshOutput, NoRecap, Going, Target
  <2>2. QED
    BY <2>1, FreshInv, PTL
<1>6. CASE UNCHANGED outputVars
  <2>1. UNCHANGED <<way, reached, busy, out, told, sent, cards, hostCards, recap, stored>>
    BY <1>6 DEF outputVars
  <2>2. RecapInv'
    <3>1. Stats' = Stats /\ \A h \in Target : MayBegin(h)' <=> MayBegin(h)
      BY <2>1 DEF Stats, MayBegin, InTurn, LastTask
    <3>2. Counted(Stats)' = Counted(Stats)
      BY <3>1 DEF Counted
    <3>3. QED
      BY <2>1, <3>1, <3>2 DEF OutputInv, RecapInv
  <2>3. QED
    BY <2>1, <2>2, SameOutput
<1>7. QED
  BY <1>1, <1>2, <1>3, <1>4, <1>5, <1>6 DEF RunOutputNext

\* A host has no row exactly when a card shows nothing of it.
LEMMA NoneShown ==
  ASSUME NEW body, GoodRows(body), NEW h
  PROVE  /\ (Shown(body, h) = "none") <=> (FirstRow(body, h) = 0)
         /\ FirstRow(body, h) # 0 => Shown(body, h) = body[FirstRow(body, h)].status
<1>1. body \in Seq(TaskRow)
  BY DEF GoodRows
<1>2. CASE \A k \in 1 .. Len(body) : body[k].host # h
  BY <1>1, <1>2, FirstIs
<1>3. ASSUME NEW k, IsFirst(body, h, k)
      PROVE  FirstRow(body, h) # 0 /\ Shown(body, h) # "none"
  <2>1. FirstRow(body, h) # 0 /\ Shown(body, h) = body[k].status
    BY <1>1, <1>3, FirstIs
  <2>2. k \in 1 .. Len(body)
    BY <1>3 DEF IsFirst
  <2>3. body[k] \in TaskRow
    BY <1>1, <2>2
  <2>4. QED
    BY <2>1, <2>3 DEF TaskRow, CardStatus
<1>4. QED
  BY <1>2, <1>3, GoodFirst DEF Shown

\* The cards are the tasks', where hosts go in turn by task.
LEMMA InvCardsAreTasks == OutputInv => CardsAreTasks
<1> SUFFICES ASSUME OutputInv, way = "linear", NEW i \in DOMAIN cards, NEW h \in Target
             PROVE  LET k == FirstRow(cards[i].rows, h)
                    IN IF reached[h] < i THEN k = 0
                       ELSE k # 0 /\ cards[i].task = i /\ cards[i].rows[k].status = StatusOf(h, i)
  BY DEF CardsAreTasks
<1>1. LinearInv /\ OutputTypes
  BY DEF OutputInv
<1>2. i \in 1 .. Len(cards)
  BY <1>1 DEF OutputTypes
<1>3. /\ GoodRows(cards[i].rows) /\ cards[i].task = i
      /\ Shown(cards[i].rows, h) = IF reached[h] < i THEN "none" ELSE StatusOf(h, i)
  BY <1>1, <1>2 DEF OutputTypes, LinearInv
<1>4. ~(reached[h] < i) => StatusOf(h, i) # "none"
  <2>1. i <= TaskCount
    <3>1. sent = 1 .. Len(cards) /\ sent \subseteq 1 .. TaskCount
      BY <1>1 DEF LinearInv, OutputTypes
    <3>2. QED
      BY <1>2, <3>1
  <2>2. told[h][i] \in Outcome \cup {"none"}
    BY <1>1, <1>2, <2>1 DEF OutputTypes
  <2>3. QED
    BY <2>2 DEF StatusOf, RowOf, Outcome
<1>5. QED
  BY <1>3, <1>4, NoneShown

\* The last card that has a host shows its last task.
LEMMA InvLatestIsShown == OutputInv => LatestIsShown
<1> SUFFICES ASSUME OutputInv, NEW h \in Target, reached[h] > 0, way # "module",
                    ~(way = "free" /\ h \in busy)
             PROVE  LET of == {i \in DOMAIN cards : FirstRow(cards[i].rows, h) # 0}
                        i == CHOOSE j \in of : \A l \in of : l <= j
                    IN of # {} /\ cards[i].rows[FirstRow(cards[i].rows, h)].status = StatusOf(h, reached[h])
  BY DEF LatestIsShown
<1> DEFINE of == {i \in DOMAIN cards : FirstRow(cards[i].rows, h) # 0}
           i == CHOOSE j \in of : \A l \in of : l <= j
<1>1. DOMAIN cards = 1 .. Len(cards) /\ \A j \in 1 .. Len(cards) : GoodRows(cards[j].rows)
  BY DEF OutputInv, OutputTypes
<1>2. PICK last \in 1 .. Len(cards) :
        /\ Shown(cards[last].rows, h) # "none"
        /\ \A j \in 1 .. Len(cards) : j > last => Shown(cards[j].rows, h) = "none"
        /\ Shown(cards[last].rows, h) = StatusOf(h, reached[h])
  BY DEF OutputInv, LatestInv
<1>3. ASSUME NEW j \in 1 .. Len(cards) PROVE (j \in of) <=> (Shown(cards[j].rows, h) # "none")
  BY <1>1, NoneShown
<1>4. last \in of /\ of \subseteq 1 .. Len(cards) /\ \A l \in of : l <= last
  BY <1>1, <1>2, <1>3
<1>5. ASSUME NEW j \in of, \A l \in of : l <= j PROVE j = last
  BY <1>4, <1>5
<1> HIDE DEF of
<1>6. i = last
  BY <1>4, <1>5
<1>7. FirstRow(cards[last].rows, h) # 0
  BY <1>4 DEF of
<1>8. cards[last].rows[FirstRow(cards[last].rows, h)].status = StatusOf(h, reached[h])
  BY <1>1, <1>2, <1>7, NoneShown
<1>9. QED
  BY <1>4, <1>6, <1>8 DEF of

\* Nothing runs once the recap has come.
LEMMA InvNothingSpins == OutputInv => NothingSpins
<1> SUFFICES ASSUME OutputInv, recap.came, way # "free",
                    NEW i \in DOMAIN cards, NEW k \in DOMAIN cards[i].rows,
                    cards[i].rows[k].status = "running"
             PROVE  FALSE
  BY DEF NothingSpins
<1>1. i \in 1 .. Len(cards) /\ GoodRows(cards[i].rows) /\ busy = {} /\ way \in Way
  BY DEF OutputInv, OutputTypes, RecapInv
<1>2. Shown(cards[i].rows, cards[i].rows[k].host) = "running" /\ cards[i].rows[k].host \in Target
  BY <1>1, RunningShown
<1>3. way \in {"linear", "serial"}
  BY <1>1 DEF OutputInv, ModuleInv, Way
<1>4. QED
  BY <1>1, <1>2, <1>3 DEF OutputInv, RunningInv

\* When nobody can go on and nobody is out, all are through.
LEMMA AllThrough ==
  ASSUME OutputInv, recap.came, out = {}, NEW h \in Target
  PROVE  reached[h] = LastTask
<1>1. /\ busy = {} /\ way \in Way /\ LastTask \in Nat /\ LastTask > 0
      /\ \A g \in Target : reached[g] \in 0 .. LastTask
      /\ \A g \in Target : reached[g] < LastTask => ~InTurn(g)
  BY DEF OutputInv, OutputTypes, RecapInv, MayBegin, LastTask
<1> SUFFICES ASSUME reached[h] # LastTask PROVE FALSE
  OBVIOUS
<1>2. ~InTurn(h) /\ reached[h] \in 0 .. LastTask /\ reached[h] < LastTask
  BY <1>1
<1>3. CASE way = "linear"
  <2>1. PICK g \in Target : reached[g] < reached[h]
    BY <1>1, <1>2, <1>3 DEF InTurn
  <2>2. ~InTurn(g)
    BY <1>1, <1>2, <2>1
  <2>3. PICK x \in Target : reached[x] < reached[g]
    BY <1>1, <1>3, <2>2 DEF InTurn
  <2>4. reached[h] <= reached[x] + 1
    BY <1>3 DEF OutputInv, LinearInv
  <2>5. QED
    BY <1>1, <2>1, <2>3, <2>4
<1>4. CASE way = "serial"
  <2>1. PICK k \in 0 .. HostCount + 1 :
          /\ \A x \in Target : x < k => reached[x] = LastTask
          /\ \A x \in Target : x > k => reached[x] = 0
    BY <1>4 DEF OutputInv, SerialInv
  <2>2. ASSUME NEW x \in Target, \A g \in Target : g < x => reached[g] = LastTask
        PROVE  reached[x] = LastTask
    <3>1. InTurn(x)
      BY <1>1, <1>4, <2>2 DEF InTurn
    <3>2. QED
      BY <1>1, <3>1
  <2>3. k \in Target => reached[k] = LastTask
    BY <2>1, <2>2
  <2>4. k + 1 \in Target => reached[k + 1] = LastTask
    <3>1. \A g \in Target : g < k + 1 => g < k \/ g = k
      BY <2>1 DEF Target
    <3>2. \A g \in Target : g < k + 1 => reached[g] = LastTask
      BY <2>1, <2>3, <3>1
    <3>3. QED
      BY <2>2, <3>2
  <2>5. k + 1 \notin Target
    BY <1>1, <2>1, <2>4 DEF Target
  <2>6. h < k \/ h = k
    BY <2>1, <2>5 DEF Target
  <2>7. QED
    BY <2>1, <2>3, <2>6
<1>5. CASE way \notin {"linear", "serial"}
  BY <1>2, <1>5 DEF InTurn
<1>6. QED
  BY <1>3, <1>4, <1>5

\* The counts that are stored are those of the hosts.
LEMMA InvCountsAreTrue == OutputInv => CountsAreTrue
<1> SUFFICES ASSUME OutputInv PROVE CountsAreTrue
  OBVIOUS
<1> DEFINE fine == {h \in Target \ out : \E t \in 1 .. TaskCount : told[h][t] \notin {"none", "rescued"}}
<1>1. OutputTypes /\ ToldInv /\ RecapInv
  BY DEF OutputInv
<1>2. (stored.ok = -1 <=> stored.failed = -1) /\ (stored.ok # -1 => recap.came)
  BY <1>1 DEF RecapInv
<1>3. stored.ok # -1 => stored.failed = Cardinality(out) /\ stored.ok = Cardinality(fine)
  BY <1>1, CountBounds DEF RecapInv
<1>4. ShownOutcome = "ok" => recap.came /\ out = {} /\ \A h \in Target : reached[h] = LastTask
  <2>1. SUFFICES ASSUME ShownOutcome = "ok"
                 PROVE  recap.came /\ out = {} /\ \A h \in Target : reached[h] = LastTask
    OBVIOUS
  <2>2. recap.came /\ out = {}
    BY <1>1, <2>1 DEF ShownOutcome, RecapInv
  <2>3. QED
    BY <2>2, AllThrough
<1>5. ShownOutcome = "partial" => \E g, h \in Target : g \in out /\ h \notin out /\ reached[h] > 0
  <2>1. SUFFICES ASSUME ShownOutcome = "partial"
                 PROVE  \E g, h \in Target : g \in out /\ h \notin out /\ reached[h] > 0
    OBVIOUS
  <2>2. stored.ok > 0 /\ stored.failed > 0 /\ stored.ok # -1
    BY <1>1, <2>1 DEF ShownOutcome, RecapInv
  <2>3. Cardinality(out) > 0 /\ Cardinality(fine) > 0
    BY <1>3, <2>2
  <2>4. out # {} /\ fine # {}
    BY <2>3, FS_EmptySet
  <2>5. PICK g \in out, h \in fine : TRUE
    BY <2>4
  <2>6. PICK t \in 1 .. TaskCount : told[h][t] # "none"
    BY <2>5
  <2>7. t < reached[h] \/ t = reached[h]
    BY <1>1, <2>5, <2>6 DEF ToldInv
  <2>8. QED
    BY <1>1, <2>5, <2>7 DEF OutputTypes
<1>6. QED
  BY <1>2, <1>3, <1>4, <1>5 DEF CountsAreTrue

\* The invariant says that what is shown and stored is what happened.
LEMMA InvOutputIsTrue == OutputInv => OutputIsTrue
<1>1. OutputInv => HostCardsAreTrue
  BY DEF OutputInv, ModuleInv, HostCardsAreTrue
<1>2. QED
  BY <1>1, InvCardsAreTasks, InvLatestIsShown, InvNothingSpins, InvCountsAreTrue DEF OutputIsTrue

\* The consoles tell of each host what Ansible did there, and the stored counts agree, whatever
\* way Ansible goes, for any number of hosts and tasks (playbook-run-console.tsx, executor.ts).
THEOREM OutputAlwaysTrue == RunOutputSpec => []OutputIsTrue
<1>1. RunOutputInit => OutputInv
  <2>1. RunOutputInit => FreshOutput
    BY DEF RunOutputInit, FreshOutput
  <2>2. QED
    BY <2>1, FreshInv
<1>2. OutputInv /\ [RunOutputNext]_outputVars => OutputInv'
  BY OutputStep
<1>3. QED
  BY <1>1, <1>2, InvOutputIsTrue, PTL DEF RunOutputSpec

----------------------------------------------------------------------------
(* RunPage.                                                                *)

HIDE RunOutputAssumption
USE RunPageAssumption

Change == RunNo \X {"running", "ended"}

\* What the page holds names runs that have begun.
Names ==
  /\ stage \in [RunNo -> {"none", "opened", "live", "ended"}]
  /\ listed.pages \in Nat /\ DOMAIN listed.rows \subseteq Begun(stage)
  /\ single \in [RunNo -> {"unread", "running", "ended"}] /\ Known \subseteq Begun(stage)
  /\ changes \in Seq(Change) /\ \A i \in 1 .. Len(changes) : changes[i][1] \in Begun(stage)
  /\ connected \in BOOLEAN /\ behind \in BOOLEAN
  /\ starting \in Begun(stage) \cup {NoRunNo, Requested}
  /\ selected \in Begun(stage) \cup {NoRunNo, Gone}

WatchInv ==
  /\ watch \in [run : Begun(stage) \cup {NoRunNo}, joined : BOOLEAN, early : BOOLEAN,
                phase : {"idle", "running", "done", "error", "cancelled"}]
  /\ watch.phase # "idle" => watch.run # NoRunNo
  /\ watch.phase = "idle" /\ watch.run # NoRunNo => watch.early \/ stage[watch.run] = "ended"
  /\ Row(selected, listed, single) = "running" => watch.run = selected

\* What was read is as it is stored, or the page is yet to hear of a change, or to read again.
ReadInv ==
  /\ ~connected => changes = <<>>
  /\ listed.more => DOMAIN listed.rows # {}
  /\ changes = <<>> /\ connected /\ TheList \notin stale =>
       /\ Newest(DOMAIN listed.rows) = Newest(Begun(stage))
       /\ \A r \in DOMAIN listed.rows : listed.rows[r] = Status(r)
  /\ \A r \in Known :
       connected /\ r \notin stale =>
         single[r] = Status(r) \/ \E i \in 1 .. Len(changes) : changes[i] = <<r, "ended">>

\* A run that starts is heard of after those before it; a page at a run that was the newest is
\* yet to hear of the next one.
NewestInv ==
  /\ \A i \in 1 .. Len(changes) : changes[i][2] = "running" =>
       \A q \in Begun(stage) : q > changes[i][1] =>
         \E k \in 1 .. Len(changes) : k > i /\ changes[k] = <<q, "running">>
  /\ selected = NoRunNo => DOMAIN listed.rows = {}
  /\ ~behind /\ selected \in RunNo /\ selected # Newest(Begun(stage)) =>
       \E i \in 1 .. Len(changes) : changes[i] = <<selected + 1, "running">>

\* Runs are numbered as they start.
Numbered == \A r \in Begun(stage) : \A q \in RunNo : q < r => q \in Begun(stage)

PageInv == Names /\ Numbered /\ WatchInv /\ ReadInv /\ NewestInv

\* The newest of some runs.
LEMMA NewestIs ==
  ASSUME NEW S \in SUBSET RunNo
  PROVE  /\ S = {} => Newest(S) = NoRunNo
         /\ S # {} => Newest(S) \in S /\ \A s \in S : s <= Newest(S)
         /\ \A r \in S : (\A s \in S : s <= r) => Newest(S) = r
<1>1. CASE S = {}
  BY <1>1 DEF Newest
<1>2. CASE S # {}
  <2> DEFINE K == {MaxJobRuns - s : s \in S}
  <2>1. K \in SUBSET Nat /\ K # {}
    <3>1. ASSUME NEW s \in S PROVE MaxJobRuns - s \in Nat
      <4>1. s \in Nat /\ s <= MaxJobRuns /\ MaxJobRuns \in Nat
        BY RunPageAssumption DEF RunNo
      <4>2. QED
        BY <4>1
    <3>2. QED
      BY <1>2, <3>1
  <2>2. PICK k \in K : \A j \in K : k <= j
    BY <2>1, LeastOf
  <2>3. PICK r \in S : k = MaxJobRuns - r
    BY <2>2
  <2>4. \A s \in S : s \in Int
    BY DEF RunNo
  <2>5. \A s \in S : s <= r
    <3>1. ASSUME NEW s \in S PROVE s <= r
      <4>1. k <= MaxJobRuns - s
        BY <2>2
      <4>2. s \in Int /\ r \in Int /\ MaxJobRuns \in Int
        BY <2>4
      <4>3. QED
        BY <2>3, <4>1, <4>2
    <3>2. QED
      BY <3>1
  <2>6. Newest(S) \in S /\ \A s \in S : s <= Newest(S)
    BY <1>2, <2>5 DEF Newest
  <2>7. ASSUME NEW q \in S, \A s \in S : s <= q PROVE Newest(S) = q
    <3>1. q \in Int /\ Newest(S) \in Int /\ q <= Newest(S) /\ Newest(S) <= q
      BY <2>4, <2>6, <2>7
    <3>2. QED
      BY <3>1
  <2>8. QED
    BY <1>2, <2>6, <2>7
<1>3. QED
  BY <1>1, <1>2

\* What the page shows after a step.
LEMMA ShowsFacts ==
  ASSUME NEW sel, NEW w, NEW h, NEW s, NEW miss, NEW why \in BOOLEAN, behind \in BOOLEAN,
         DOMAIN h.rows \subseteq RunNo, Shows(sel, w, h, s, miss, why)
  PROVE  /\ listed' = h /\ single' = s
         /\ selected' = sel \/ selected' = Newest(DOMAIN h.rows)
         /\ sel # NoRunNo /\ ~Dropped(sel, h, miss, w) => selected' = sel
         /\ selected' = NoRunNo => DOMAIN h.rows = {}
         /\ watch' = w \/ (watch' = WatchOf(selected') /\ Row(selected', h, s) = "running")
         /\ Row(selected', h, s) = "running" => watch'.run = selected'
         /\ behind' \in BOOLEAN
         /\ ~behind' => \/ selected' = Newest(Begun(stage))
                        \/ selected' = sel /\ sel # NoRunNo /\ ~behind /\ ~why
                        \/ sel = NoRunNo /\ selected' = Newest(DOMAIN h.rows)
<1>1. PICK to : to = IF sel = NoRunNo \/ Dropped(sel, h, miss, w) THEN Newest(DOMAIN h.rows) ELSE sel
  OBVIOUS
<1>2. /\ selected' = to
      /\ watch' = (IF Attaches(to, h, s, w) THEN WatchOf(to) ELSE w)
      /\ listed' = h /\ single' = s
      /\ behind' = (to # Newest(Begun(stage)) /\ (behind \/ why \/ Dropped(sel, h, miss, w)))
  BY <1>1 DEF Shows
<1>3. ASSUME to = NoRunNo PROVE DOMAIN h.rows = {}
  <2>1. Newest(DOMAIN h.rows) = NoRunNo
    BY <1>1, <1>3
  <2>2. NoRunNo \notin RunNo
    BY DEF NoRunNo, RunNo
  <2>3. QED
    BY <2>1, <2>2, NewestIs
<1>4. WatchOf(to).run = to
  BY DEF WatchOf
<1>5. Row(to, h, s) = "running" => watch'.run = to
  BY <1>2, <1>4 DEF Attaches
<1>6. QED
  BY <1>1, <1>2, <1>3, <1>5 DEF Attaches

\* A watch of a run that has begun.
WatchOK(w) ==
  /\ w \in [run : Begun(stage) \cup {NoRunNo}, joined : BOOLEAN, early : BOOLEAN,
           phase : {"idle", "running", "done", "error", "cancelled"}]
  /\ w.phase # "idle" => w.run # NoRunNo
  /\ w.phase = "idle" /\ w.run # NoRunNo => w.early \/ stage[w.run] = "ended"

\* A step that ends with what the page shows keeps it well named, and watches a run it shows
\* as running.
LEMMA ShowsKeeps ==
  ASSUME PageInv, stage' = stage, NEW sel \in Begun(stage) \cup {NoRunNo, Gone},
         NEW w, WatchOK(w), NEW h, h.pages \in Nat, DOMAIN h.rows \subseteq Begun(stage),
         NEW s \in [RunNo -> {"unread", "running", "ended"}],
         {r \in RunNo : s[r] # "unread"} \subseteq Begun(stage), NEW miss, NEW why \in BOOLEAN,
         changes' \in Seq(Change), \A i \in 1 .. Len(changes') : changes'[i][1] \in Begun(stage),
         connected' \in BOOLEAN, starting' \in Begun(stage) \cup {NoRunNo, Requested},
         Shows(sel, w, h, s, miss, why)
  PROVE  Names' /\ Numbered' /\ WatchInv' /\ (selected' = NoRunNo => DOMAIN listed'.rows = {})
<1>1. behind \in BOOLEAN /\ Begun(stage) \subseteq RunNo
  BY DEF PageInv, Names, Begun
<1>2. DOMAIN h.rows \subseteq RunNo
  BY <1>1
<1>3. /\ listed' = h /\ single' = s
      /\ selected' = sel \/ selected' = Newest(DOMAIN h.rows)
      /\ selected' = NoRunNo => DOMAIN h.rows = {}
      /\ watch' = w \/ (watch' = WatchOf(selected') /\ Row(selected', h, s) = "running")
      /\ Row(selected', h, s) = "running" => watch'.run = selected'
      /\ behind' \in BOOLEAN
  BY <1>1, <1>2, ShowsFacts
<1>4. Begun(stage)' = Begun(stage)
  BY DEF Begun
<1>5. Newest(DOMAIN h.rows) \in Begun(stage) \cup {NoRunNo}
  BY <1>2, NewestIs
<1>6. selected' \in Begun(stage) \cup {NoRunNo, Gone}
  BY <1>3, <1>5
<1>7. Names'
  <2>1. Known' = {r \in RunNo : s[r] # "unread"}
    BY <1>3 DEF Known
  <2>2. QED
    BY <1>3, <1>4, <1>6, <2>1 DEF PageInv, Names
<1>8. Numbered'
  BY <1>4 DEF PageInv, Numbered
<1>9. Row(selected', h, s) = "running" => selected' \in Begun(stage) /\ selected' # NoRunNo
  BY <1>2 DEF Row, RunNo, NoRunNo
<1>10. WatchOK(watch')
  <2>1. CASE watch' = w
    BY <2>1
  <2>2. CASE watch' = WatchOf(selected') /\ Row(selected', h, s) = "running"
    BY <1>9, <2>2 DEF WatchOK, WatchOf
  <2>3. QED
    BY <1>3, <2>1, <2>2
<1>11. WatchInv'
  <2>1. Row(selected, listed, single)' = Row(selected', h, s)
    BY <1>3 DEF Row
  <2>2. QED
    BY <1>3, <1>4, <1>10, <2>1 DEF WatchInv, WatchOK
<1>12. QED
  BY <1>3, <1>7, <1>8, <1>11

\* A step that hears of no run, and keeps the selection if it can, keeps it behind no start.
LEMMA ShowsNewest ==
  ASSUME PageInv, stage' = stage, changes' = changes,
         NEW w, NEW h, DOMAIN h.rows \subseteq Begun(stage), NEW s, NEW miss,
         selected = NoRunNo => Newest(DOMAIN h.rows) \in {NoRunNo, Newest(Begun(stage))},
         Shows(selected, w, h, s, miss, FALSE)
  PROVE  NewestInv'
<1>1. behind \in BOOLEAN /\ Begun(stage) \subseteq RunNo
  BY DEF PageInv, Names, Begun
<1>2. DOMAIN h.rows \subseteq RunNo
  BY <1>1
<1>3. /\ listed' = h
      /\ selected' = NoRunNo => DOMAIN h.rows = {}
      /\ ~behind' => \/ selected' = Newest(Begun(stage))
                     \/ selected' = selected /\ selected # NoRunNo /\ ~behind
                     \/ selected = NoRunNo /\ selected' = Newest(DOMAIN h.rows)
  <2>1. PICK why \in BOOLEAN : why = FALSE
    OBVIOUS
  <2>2. Shows(selected, w, h, s, miss, why)
    BY <2>1
  <2>3. QED
    BY <1>1, <1>2, <2>1, <2>2, ShowsFacts
<1>4. Begun(stage)' = Begun(stage) /\ Newest(Begun(stage))' = Newest(Begun(stage))
  BY DEF Begun, Newest
<1>5. NoRunNo \notin RunNo
  BY DEF NoRunNo, RunNo
<1>6. QED
  BY <1>3, <1>4, <1>5 DEF PageInv, NewestInv

\* What a page asks for of the history.
LEMMA BatchIs ==
  ASSUME Begun(stage) \subseteq RunNo, NEW n \in Nat \ {0}
  PROVE  /\ Rows(n) \subseteq Begun(stage)
         /\ Newest(Rows(n)) = Newest(Begun(stage))
<1>1. Rows(n) \subseteq Begun(stage)
  BY DEF Rows
<1>2. CASE Begun(stage) = {}
  BY <1>1, <1>2
<1>3. CASE Begun(stage) # {}
  <2>1. PICK m : m = Newest(Begun(stage))
    OBVIOUS
  <2>2. m \in Begun(stage) /\ \A r \in Begun(stage) : r <= m
    BY <1>3, <2>1, NewestIs
  <2>3. m \in RunNo /\ m > m - n
    BY <2>2 DEF RunNo
  <2>4. m \in Rows(n)
    BY <2>1, <2>2, <2>3 DEF Rows
  <2>5. \A r \in Rows(n) : r <= m
    BY <1>1, <2>2
  <2>6. Rows(n) \in SUBSET RunNo
    BY <1>1
  <2>7. QED
    BY <1>1, <2>1, <2>4, <2>5, <2>6, NewestIs
<1>4. QED
  BY <1>1, <1>2, <1>3

\* A page that opens, by a link or without one.
LEMMA PageStart == RunPageInit => PageInv
<1> SUFFICES ASSUME RunPageInit PROVE PageInv
  OBVIOUS
<1>1. PICK n \in 0 .. MaxJobRuns - 1, last \in {"live", "ended"} :
        stage = [r \in RunNo |-> IF r < n THEN "ended" ELSE IF r = n THEN last ELSE "none"]
  BY DEF RunPageInit
<1>2. stage \in [RunNo -> {"none", "opened", "live", "ended"}]
  BY <1>1
<1>3. Begun(stage) = {r \in RunNo : r <= n} /\ Begun(stage) \subseteq RunNo
  BY <1>1 DEF Begun, RunNo
<1>4. Numbered
  BY <1>3 DEF Numbered, RunNo
<1>5. listed.pages = 0 /\ DOMAIN listed.rows = {} /\ listed.more = FALSE
  BY EmptySeq DEF RunPageInit
<1>6. /\ single = [r \in RunNo |-> "unread"] /\ stale = {TheList}
      /\ selected \in Begun(stage) \cup {NoRunNo, Gone}
      /\ watch = NoWatch /\ changes = <<>> /\ connected = TRUE /\ starting = NoRunNo
      /\ behind = (selected \in Begun(stage) /\ selected # Newest(Begun(stage)))
  BY DEF RunPageInit
<1>7. changes \in Seq(Change) /\ Len(changes) = 0 /\ 1 .. Len(changes) = {}
  BY <1>6, EmptySeq
<1>8. Known = {}
  BY <1>6 DEF Known
<1>9. Names
  BY <1>2, <1>5, <1>6, <1>7, <1>8 DEF Names
<1>10. Row(selected, listed, single) = "unread"
  BY <1>5, <1>6 DEF Row
<1>11. WatchInv
  BY <1>6, <1>10 DEF WatchInv, NoWatch
<1>12. ReadInv
  BY <1>5, <1>6, <1>8 DEF ReadInv
<1>13. selected \in RunNo => selected \in Begun(stage)
  BY <1>6 DEF Gone, NoRunNo, RunNo
<1>14. NewestInv
  BY <1>5, <1>6, <1>7, <1>13 DEF NewestInv
<1>15. QED
  BY <1>4, <1>9, <1>11, <1>12, <1>14 DEF PageInv

\* A run starts: the page is yet to hear of it, or never will.
LEMMA StartsStep ==
  ASSUME PageInv, NEW r \in RunNo, Starts(r), starting' \in {starting, r}
  PROVE  PageInv'
<1>1. /\ r = Newest(Begun(stage)) + 1
      /\ stage' = [stage EXCEPT ![r] = "opened"]
      /\ changes' = Says(r, "running")
      /\ behind' = (behind \/ (~connected /\ selected # r))
      /\ listed' = listed /\ single' = single /\ stale' = stale /\ selected' = selected
      /\ watch' = watch /\ connected' = connected
  BY DEF Starts
<1>2. stage \in [RunNo -> {"none", "opened", "live", "ended"}] /\ Begun(stage) \subseteq RunNo
  BY DEF PageInv, Names, Begun
<1>3. Newest(Begun(stage)) \in RunNo \cup {NoRunNo}
      /\ \A q \in Begun(stage) : q <= Newest(Begun(stage))
  BY <1>2, NewestIs
<1>4. r \notin Begun(stage) /\ \A q \in Begun(stage) : q < r
  BY <1>1, <1>2, <1>3 DEF RunNo, NoRunNo
<1>5. Begun(stage)' = Begun(stage) \cup {r}
  BY <1>1, <1>2 DEF Begun
<1>6. Newest(Begun(stage))' = r
  <2>1. Begun(stage) \cup {r} \in SUBSET RunNo /\ \A q \in Begun(stage) \cup {r} : q <= r
    BY <1>2, <1>4 DEF RunNo
  <2>2. Newest(Begun(stage) \cup {r}) = r
    BY <2>1, NewestIs
  <2>3. QED
    BY <1>5, <2>2 DEF Newest
<1>7. \A q \in RunNo : q # r => stage'[q] = stage[q] /\ Status(q)' = Status(q)
  BY <1>1, <1>2 DEF Status
<1>8. changes \in Seq(Change) /\ connected \in BOOLEAN
  BY DEF PageInv, Names
<1>9. /\ changes' \in Seq(Change)
      /\ ~connected => changes' = <<>> /\ changes = <<>> /\ Len(changes') = 0
      /\ connected => /\ changes' # <<>> /\ Len(changes') = Len(changes) + 1
                      /\ changes'[Len(changes')] = <<r, "running">>
                      /\ \A i \in 1 .. Len(changes) : changes'[i] = changes[i]
  <2>1. CASE connected
    <3>1. <<r, "running">> \in Change
      BY DEF Change
    <3>2. changes' = Append(changes, <<r, "running">>)
      BY <1>1, <2>1 DEF Says
    <3>3. QED
      BY <1>8, <2>1, <3>1, <3>2, AppendProperties
  <2>2. CASE ~connected
    <3>1. changes = <<>> /\ changes' = changes
      BY <1>1, <2>2 DEF Says, PageInv, ReadInv
    <3>2. QED
      BY <1>8, <2>2, <3>1, EmptySeq
  <2>3. QED
    BY <2>1, <2>2
<1>10. Len(changes) \in Nat /\ Len(changes') \in Nat
  BY <1>8, <1>9, LenProperties
<1>11. \A i \in 1 .. Len(changes') : \/ i \in 1 .. Len(changes) /\ changes'[i] = changes[i]
                                     \/ i = Len(changes') /\ changes'[i] = <<r, "running">>
  BY <1>9, <1>10
<1>12. Names'
  <2>1. \A i \in 1 .. Len(changes') : changes'[i][1] \in Begun(stage)'
    BY <1>5, <1>11 DEF PageInv, Names
  <2>2. Known' = Known
    BY <1>1 DEF Known
  <2>3. stage' \in [RunNo -> {"none", "opened", "live", "ended"}]
    BY <1>1, <1>2
  <2>4. QED
    BY <1>1, <1>5, <1>9, <2>1, <2>2, <2>3 DEF PageInv, Names
<1>13. Numbered'
  <2>1. \A q \in RunNo : q < r => q \in Begun(stage)
    <3> SUFFICES ASSUME NEW q \in RunNo, q < r PROVE q \in Begun(stage)
      OBVIOUS
    <3>1. q <= Newest(Begun(stage)) /\ Newest(Begun(stage)) # NoRunNo
      BY <1>1, <1>3 DEF RunNo, NoRunNo
    <3>2. Newest(Begun(stage)) \in Begun(stage)
      BY <1>2, <3>1, NewestIs
    <3>3. q < Newest(Begun(stage)) \/ q = Newest(Begun(stage))
      BY <1>3, <3>1 DEF RunNo
    <3>4. QED
      BY <3>2, <3>3 DEF PageInv, Numbered
  <2>2. QED
    BY <1>5, <2>1 DEF PageInv, Numbered
<1>14. WatchInv'
  <2>1. watch.run \in Begun(stage) \cup {NoRunNo} /\ watch.run # r
    BY <1>4 DEF PageInv, WatchInv, NoRunNo, RunNo
  <2>2. Row(selected, listed, single)' = Row(selected, listed, single)
    BY <1>1 DEF Row
  <2>3. watch.run # NoRunNo => stage'[watch.run] = stage[watch.run]
    BY <1>2, <1>7, <2>1
  <2>4. QED
    BY <1>1, <1>5, <2>1, <2>2, <2>3 DEF PageInv, WatchInv
<1>15. ReadInv'
  <2>1. Known' = Known /\ r \notin Known
    BY <1>1, <1>4 DEF Known, PageInv, Names
  <2>2. ASSUME NEW q \in Known, connected, q \notin stale
        PROVE  single'[q] = Status(q)' \/ \E i \in 1 .. Len(changes') : changes'[i] = <<q, "ended">>
    <3>1. single[q] = Status(q) \/ \E i \in 1 .. Len(changes) : changes[i] = <<q, "ended">>
      BY <2>2 DEF PageInv, ReadInv
    <3>2. single'[q] = single[q] /\ Status(q)' = Status(q)
      BY <1>1, <1>7, <2>1, <2>2 DEF Known
    <3>3. \A i \in 1 .. Len(changes) : i \in 1 .. Len(changes') /\ changes'[i] = changes[i]
      BY <1>9, <1>10, <2>2
    <3>4. QED
      BY <3>1, <3>2, <3>3
  <2>3. QED
    BY <1>1, <1>9, <2>1, <2>2 DEF PageInv, ReadInv
<1>16. NewestInv'
  <2>1. ASSUME NEW i \in 1 .. Len(changes'), changes'[i][2] = "running",
               NEW q \in Begun(stage)', q > changes'[i][1]
        PROVE  \E k \in 1 .. Len(changes') : k > i /\ changes'[k] = <<q, "running">>
    <3>1. connected
      BY <1>8, <1>9, <2>1
    <3>2. i \in 1 .. Len(changes) /\ changes'[i] = changes[i]
      <4>1. SUFFICES ASSUME changes'[i] = <<r, "running">> PROVE FALSE
        BY <1>11
      <4>2. q <= r /\ q > r /\ q \in Int /\ r \in Int
        BY <1>2, <1>4, <1>5, <2>1, <4>1 DEF RunNo
      <4>3. QED
        BY <4>2
    <3>3. CASE q = r
      <4>1. Len(changes') \in 1 .. Len(changes') /\ Len(changes') > i
            /\ changes'[Len(changes')] = <<q, "running">>
        BY <1>9, <1>10, <3>1, <3>2, <3>3
      <4>2. QED
        BY <4>1
    <3>4. CASE q # r
      <4>1. PICK k \in 1 .. Len(changes) : k > i /\ changes[k] = <<q, "running">>
        BY <1>5, <2>1, <3>2, <3>4 DEF PageInv, NewestInv
      <4>2. k \in 1 .. Len(changes') /\ changes'[k] = changes[k]
        BY <1>9, <1>10, <3>1
      <4>3. QED
        BY <4>1, <4>2
    <3>5. QED
      BY <3>3, <3>4
  <2>2. ASSUME ~behind', selected \in RunNo, selected # r
        PROVE  \E i \in 1 .. Len(changes') : changes'[i] = <<selected + 1, "running">>
    <3>1. connected /\ ~behind
      BY <1>1, <2>2
    <3>2. CASE selected = Newest(Begun(stage))
      <4>1. Len(changes') \in 1 .. Len(changes') /\ changes'[Len(changes')] = <<selected + 1, "running">>
        BY <1>1, <1>9, <1>10, <3>1, <3>2
      <4>2. QED
        BY <4>1
    <3>3. CASE selected # Newest(Begun(stage))
      <4>1. PICK i \in 1 .. Len(changes) : changes[i] = <<selected + 1, "running">>
        BY <2>2, <3>1, <3>3 DEF PageInv, NewestInv
      <4>2. i \in 1 .. Len(changes') /\ changes'[i] = changes[i]
        BY <1>9, <1>10, <3>1
      <4>3. QED
        BY <4>1, <4>2
    <3>4. QED
      BY <3>2, <3>3
  <2>3. QED
    BY <1>1, <1>6, <2>1, <2>2 DEF PageInv, NewestInv
<1>17. QED
  BY <1>12, <1>13, <1>14, <1>15, <1>16 DEF PageInv

\* A run is live, or ends and the page is to hear of it.
LEMMA StageStep ==
  ASSUME PageInv, NEW r \in RunNo, GoesLive(r) \/ Ends(r)
  PROVE  PageInv'
<1>1. /\ r \in Begun(stage) /\ stage[r] # "ended"
      /\ stage' = [stage EXCEPT ![r] = "live"] \/ stage' = [stage EXCEPT ![r] = "ended"]
      /\ changes' = changes \/ changes' = Says(r, "ended")
      /\ Status(r)' = Status(r) \/ changes' = Says(r, "ended")
      /\ UNCHANGED <<listed, single, stale, missing, selected, watch, connected, starting, behind>>
  <2>1. stage \in [RunNo -> {"none", "opened", "live", "ended"}]
    BY DEF PageInv, Names
  <2>2. CASE GoesLive(r)
    BY <2>1, <2>2 DEF GoesLive, Begun, Status
  <2>3. CASE Ends(r)
    BY <2>1, <2>3 DEF Ends, Begun, Status
  <2>4. QED
    BY <2>2, <2>3
<1>2. stage \in [RunNo -> {"none", "opened", "live", "ended"}] /\ Begun(stage) \subseteq RunNo
  BY DEF PageInv, Names, Begun
<1>3. /\ stage' \in [RunNo -> {"none", "opened", "live", "ended"}]
      /\ Begun(stage)' = Begun(stage) /\ Newest(Begun(stage))' = Newest(Begun(stage))
  <2>1. stage' \in [RunNo -> {"none", "opened", "live", "ended"}]
    BY <1>1, <1>2
  <2>2. \A q \in RunNo : (stage'[q] # "none") <=> (stage[q] # "none")
    BY <1>1, <1>2 DEF Begun
  <2>3. Begun(stage)' = Begun(stage)
    BY <2>2 DEF Begun
  <2>4. QED
    BY <2>1, <2>3 DEF Newest
<1>4. \A q \in RunNo : q # r => stage'[q] = stage[q] /\ Status(q)' = Status(q)
  BY <1>1, <1>2 DEF Status
<1>5. changes \in Seq(Change) /\ connected \in BOOLEAN /\ Len(changes) \in Nat
  BY LenProperties DEF PageInv, Names
<1>6. /\ changes' \in Seq(Change) /\ Len(changes') \in Nat
      /\ \A i \in 1 .. Len(changes) : i \in 1 .. Len(changes') /\ changes'[i] = changes[i]
      /\ \A i \in 1 .. Len(changes') : \/ i \in 1 .. Len(changes) /\ changes'[i] = changes[i]
                                       \/ changes'[i] = <<r, "ended">>
      /\ ~connected => changes' = changes
      /\ Status(r)' = Status(r) \/ ~connected \/ \E i \in 1 .. Len(changes') : changes'[i] = <<r, "ended">>
      /\ changes' = <<>> => changes = <<>> /\ (connected => Status(r)' = Status(r))
  <2>1. CASE changes' = changes
    <3>1. ~connected \/ Status(r)' = Status(r)
      <4>1. SUFFICES ASSUME connected, Status(r)' # Status(r) PROVE FALSE
        OBVIOUS
      <4>2. <<r, "ended">> \in Change
        BY DEF Change
      <4>3. changes' = Append(changes, <<r, "ended">>)
        BY <1>1, <4>1 DEF Says
      <4>4. Len(changes') = Len(changes) + 1
        BY <1>5, <4>2, <4>3, AppendProperties
      <4>5. QED
        BY <1>5, <2>1, <4>4
    <3>2. QED
      BY <1>5, <2>1, <3>1
  <2>2. CASE changes' # changes
    <3>1. <<r, "ended">> \in Change
      BY DEF Change
    <3>2. connected /\ changes' = Append(changes, <<r, "ended">>)
      BY <1>1, <2>2 DEF Says
    <3>3. /\ changes' \in Seq(Change) /\ changes' # <<>> /\ Len(changes') = Len(changes) + 1
          /\ changes'[Len(changes) + 1] = <<r, "ended">>
          /\ \A i \in 1 .. Len(changes) : changes'[i] = changes[i]
      BY <1>5, <3>1, <3>2, AppendProperties
    <3>4. Len(changes) + 1 \in 1 .. Len(changes')
      BY <1>5, <3>3
    <3>5. \A i \in 1 .. Len(changes') : i \in 1 .. Len(changes) \/ i = Len(changes) + 1
      BY <1>5, <3>3
    <3>6. \A i \in 1 .. Len(changes) : i \in 1 .. Len(changes') /\ changes'[i] = changes[i]
      BY <1>5, <3>3
    <3>7. \A i \in 1 .. Len(changes') : \/ i \in 1 .. Len(changes) /\ changes'[i] = changes[i]
                                       \/ changes'[i] = <<r, "ended">>
      BY <3>3, <3>5
    <3>8. Len(changes') \in Nat /\ \E i \in 1 .. Len(changes') : changes'[i] = <<r, "ended">>
      BY <1>5, <3>3, <3>4
    <3>9. QED
      BY <3>2, <3>3, <3>6, <3>7, <3>8
  <2>3. QED
    BY <2>1, <2>2
<1>7. Known' = Known
  BY <1>1 DEF Known
<1>8. Names'
  <2>1. \A i \in 1 .. Len(changes') : changes'[i][1] \in Begun(stage)'
    BY <1>1, <1>3, <1>6 DEF PageInv, Names
  <2>2. QED
    BY <1>1, <1>3, <1>6, <1>7, <2>1 DEF PageInv, Names
<1>9. Numbered'
  BY <1>3 DEF PageInv, Numbered
<1>10. WatchInv'
  <2>1. Row(selected, listed, single)' = Row(selected, listed, single)
    BY <1>1 DEF Row
  <2>2. \A q \in Begun(stage) : stage[q] = "ended" => stage'[q] = "ended"
    BY <1>1, <1>2, <1>4
  <2>3. QED
    BY <1>1, <1>3, <2>1, <2>2 DEF PageInv, WatchInv
<1>11. ReadInv'
  <2>1. ASSUME NEW q \in Known, connected, q \notin stale
        PROVE  single'[q] = Status(q)' \/ \E i \in 1 .. Len(changes') : changes'[i] = <<q, "ended">>
    <3>1. single[q] = Status(q) \/ \E i \in 1 .. Len(changes) : changes[i] = <<q, "ended">>
      BY <2>1 DEF PageInv, ReadInv
    <3>2. \/ Status(q)' = Status(q)
          \/ \E i \in 1 .. Len(changes') : changes'[i] = <<q, "ended">>
      BY <1>4, <1>6, <2>1 DEF Known
    <3>3. QED
      BY <1>1, <1>6, <3>1, <3>2
  <2>2. ASSUME changes' = <<>>, connected, TheList \notin stale
        PROVE  /\ Newest(DOMAIN listed.rows) = Newest(Begun(stage))
               /\ \A q \in DOMAIN listed.rows : listed.rows[q] = Status(q)'
    <3>1. /\ Newest(DOMAIN listed.rows) = Newest(Begun(stage))
          /\ \A q \in DOMAIN listed.rows : listed.rows[q] = Status(q)
      BY <1>6, <2>2 DEF PageInv, ReadInv
    <3>2. \A q \in DOMAIN listed.rows : Status(q)' = Status(q)
      BY <1>2, <1>4, <1>6, <2>2 DEF PageInv, Names
    <3>3. QED
      BY <3>1, <3>2
  <2>3. Newest(DOMAIN listed.rows)' = Newest(DOMAIN listed.rows)
    BY <1>1 DEF Newest
  <2>4. QED
    BY <1>1, <1>3, <1>6, <1>7, <2>1, <2>2, <2>3 DEF PageInv, ReadInv
<1>12. NewestInv'
  <2>1. ASSUME NEW i \in 1 .. Len(changes'), changes'[i][2] = "running",
               NEW q \in Begun(stage), q > changes'[i][1]
        PROVE  \E k \in 1 .. Len(changes') : k > i /\ changes'[k] = <<q, "running">>
    <3>1. i \in 1 .. Len(changes) /\ changes'[i] = changes[i]
      BY <1>6, <2>1
    <3>2. PICK k \in 1 .. Len(changes) : k > i /\ changes[k] = <<q, "running">>
      BY <2>1, <3>1 DEF PageInv, NewestInv
    <3>3. QED
      BY <1>6, <3>2
  <2>2. ASSUME ~behind, selected \in RunNo, selected # Newest(Begun(stage))
        PROVE  \E i \in 1 .. Len(changes') : changes'[i] = <<selected + 1, "running">>
    <3>1. PICK i \in 1 .. Len(changes) : changes[i] = <<selected + 1, "running">>
      BY <2>2 DEF PageInv, NewestInv
    <3>2. QED
      BY <1>6, <3>1
  <2>3. QED
    BY <1>1, <1>3, <2>1, <2>2 DEF PageInv, NewestInv
<1>13. QED
  BY <1>8, <1>9, <1>10, <1>11, <1>12 DEF PageInv

\* What is asked of the first change in the queue, and of those behind it.
LEMMA TailIs ==
  ASSUME PageInv, changes # <<>>
  PROVE  /\ Tail(changes) \in Seq(Change) /\ Head(changes) = changes[1] /\ Head(changes) \in Change
         /\ Len(changes) \in Nat /\ 1 \in 1 .. Len(changes)
         /\ \A i \in 1 .. Len(Tail(changes)) :
              i + 1 \in 1 .. Len(changes) /\ Tail(changes)[i] = changes[i + 1]
         /\ \A i \in 1 .. Len(changes) : i # 1 =>
              i - 1 \in 1 .. Len(Tail(changes)) /\ Tail(changes)[i - 1] = changes[i]
<1>1. changes \in Seq(Change) /\ Len(changes) \in Nat
  BY LenProperties DEF PageInv, Names
<1>2. /\ Head(changes) \in Change /\ Tail(changes) \in Seq(Change)
      /\ Len(Tail(changes)) = Len(changes) - 1 /\ Head(changes) = changes[1]
      /\ \A i \in 1 .. Len(Tail(changes)) : Tail(changes)[i] = changes[i + 1]
  BY <1>1, HeadTailProperties
<1>3. Len(changes) # 0
  BY <1>1, EmptySeq
<1>4. QED
  BY <1>1, <1>2, <1>3

\* The page hears of a change: the one that starts the next run moves it there.
LEMMA HearStep == PageInv /\ HearChange => PageInv'
<1> SUFFICES ASSUME PageInv, HearChange PROVE PageInv'
  OBVIOUS
<1>1. changes # <<>> /\ changes' = Tail(changes)
  BY DEF HearChange
<1>2. PICK r, t, follows, why, sel :
        /\ r = changes[1][1] /\ t = changes[1][2]
        /\ follows = (t = "running" /\ Follows(r))
        /\ why = (t = "running" /\ Newest(DOMAIN listed.rows) # r - 1)
        /\ sel = IF follows THEN r ELSE selected
  OBVIOUS
<1>3. /\ Head(changes) = changes[1] /\ r \in Begun(stage) /\ t \in {"running", "ended"}
      /\ changes' \in Seq(Change) /\ \A i \in 1 .. Len(changes') : changes'[i][1] \in Begun(stage)
      /\ changes[1] = <<r, t>>
  BY <1>1, <1>2, TailIs DEF PageInv, Names, Change
<1>4. /\ stale' = stale \cup {TheList} \cup ({r} \cap Known)
      /\ Shows(sel, watch, listed, single, missing, why)
      /\ UNCHANGED <<stage, connected, starting>>
  BY <1>2, <1>3 DEF HearChange
<1>5. sel \in Begun(stage) \cup {NoRunNo, Gone} /\ why \in BOOLEAN /\ WatchOK(watch)
  BY <1>2, <1>3 DEF PageInv, Names, WatchInv, WatchOK
<1>6. Begun(stage) \subseteq RunNo
  BY DEF Begun
<1>7. /\ listed.pages \in Nat /\ DOMAIN listed.rows \subseteq Begun(stage)
      /\ single \in [RunNo -> {"unread", "running", "ended"}]
      /\ {q \in RunNo : single[q] # "unread"} \subseteq Begun(stage)
      /\ connected' \in BOOLEAN /\ starting' \in Begun(stage) \cup {NoRunNo, Requested}
  BY <1>4 DEF PageInv, Names, Known
<1>8. Names' /\ Numbered' /\ WatchInv' /\ (selected' = NoRunNo => DOMAIN listed'.rows = {})
  BY <1>3, <1>4, <1>5, <1>7, ShowsKeeps
<1>9. /\ listed' = listed /\ single' = single
      /\ selected' = sel \/ selected' = Newest(DOMAIN listed.rows)
      /\ ~behind' => \/ selected' = Newest(Begun(stage))
                     \/ selected' = sel /\ sel # NoRunNo /\ ~behind /\ ~why
                     \/ sel = NoRunNo /\ selected' = Newest(DOMAIN listed.rows)
  <2>1. behind \in BOOLEAN /\ DOMAIN listed.rows \subseteq RunNo
    BY <1>6, <1>7 DEF PageInv, Names
  <2>2. QED
    BY <1>4, <1>5, <2>1, ShowsFacts
<1>10. /\ Begun(stage)' = Begun(stage) /\ Newest(Begun(stage))' = Newest(Begun(stage))
       /\ Known' = Known
  BY <1>4, <1>9 DEF Begun, Newest, Known
<1>11. ReadInv'
  <2>1. ASSUME NEW q \in Known, connected, q \notin stale'
        PROVE  single[q] = Status(q) \/ \E i \in 1 .. Len(changes') : changes'[i] = <<q, "ended">>
    <3>1. q # r /\ q \notin stale
      BY <1>4, <2>1
    <3>2. single[q] = Status(q) \/ \E i \in 1 .. Len(changes) : changes[i] = <<q, "ended">>
      BY <2>1, <3>1 DEF PageInv, ReadInv
    <3>3. ASSUME NEW i \in 1 .. Len(changes), changes[i] = <<q, "ended">>
          PROVE  i - 1 \in 1 .. Len(changes') /\ changes'[i - 1] = <<q, "ended">>
      <4>1. i # 1
        BY <1>3, <3>1, <3>3
      <4>2. QED
        BY <1>1, <3>3, <4>1, TailIs
    <3>4. QED
      BY <3>2, <3>3
  <2>2. \A q : Status(q)' = Status(q)
    BY <1>4 DEF Status
  <2>3. connected
    BY <1>1 DEF PageInv, ReadInv
  <2>4. TheList \in stale'
    BY <1>4
  <2>5. QED
    BY <1>4, <1>9, <1>10, <2>1, <2>2, <2>3, <2>4 DEF PageInv, ReadInv
<1>12. NewestInv'
  <2>1. ASSUME NEW i \in 1 .. Len(changes'), changes'[i][2] = "running",
               NEW q \in Begun(stage), q > changes'[i][1]
        PROVE  \E k \in 1 .. Len(changes') : k > i /\ changes'[k] = <<q, "running">>
    <3>1. i + 1 \in 1 .. Len(changes) /\ changes'[i] = changes[i + 1]
      BY <1>1, <2>1, TailIs
    <3>2. PICK k \in 1 .. Len(changes) : k > i + 1 /\ changes[k] = <<q, "running">>
      BY <2>1, <3>1 DEF PageInv, NewestInv
    <3>3. k - 1 \in 1 .. Len(changes') /\ changes'[k - 1] = changes[k] /\ k - 1 > i
      BY <1>1, <3>1, <3>2, TailIs
    <3>4. QED
      BY <3>2, <3>3
  <2>2. ASSUME NEW q, \E i \in 1 .. Len(changes) : i # 1 /\ changes[i] = <<q, "running">>
        PROVE  \E i \in 1 .. Len(changes') : changes'[i] = <<q, "running">>
    <3>1. PICK i \in 1 .. Len(changes) : i # 1 /\ changes[i] = <<q, "running">>
      BY <2>2
    <3>2. i - 1 \in 1 .. Len(changes') /\ changes'[i - 1] = changes[i]
      BY <1>1, <3>1, TailIs
    <3>3. QED
      BY <3>1, <3>2
  <2>3. ASSUME ~behind', selected' \in RunNo, selected' # Newest(Begun(stage))
        PROVE  \E i \in 1 .. Len(changes') : changes'[i] = <<selected' + 1, "running">>
    <3>1. NoRunNo \notin RunNo /\ \A q \in RunNo : q \in Int /\ q # Gone
      BY DEF NoRunNo, RunNo, Gone
    <3>2. ~(sel = NoRunNo /\ selected' = Newest(DOMAIN listed.rows))
      <4>1. SUFFICES ASSUME sel = NoRunNo, selected' = Newest(DOMAIN listed.rows) PROVE FALSE
        OBVIOUS
      <4>2. selected = NoRunNo
        BY <1>2, <1>3, <1>6, <3>1, <4>1
      <4>3. DOMAIN listed.rows = {}
        BY <4>2 DEF PageInv, NewestInv
      <4>4. selected' = NoRunNo
        BY <4>1, <4>3, NewestIs
      <4>5. QED
        BY <2>3, <3>1, <4>4
    <3>3. selected' = sel /\ sel # NoRunNo /\ ~behind /\ ~why
      BY <1>9, <2>3, <3>2
    <3>4. CASE follows
      <4>1. sel = r /\ t = "running" /\ r \in RunNo
        BY <1>2, <1>3, <1>6, <3>4
      <4>2. r + 1 \in Begun(stage)
        <5>1. PICK m : m = Newest(Begun(stage))
          OBVIOUS
        <5>2. m \in Begun(stage) /\ m \in RunNo /\ r <= m /\ r # m
          BY <1>3, <1>6, <2>3, <3>3, <4>1, <5>1, NewestIs
        <5>3. r + 1 \in RunNo /\ (r + 1 = m \/ r + 1 < m)
          BY <4>1, <5>2 DEF RunNo
        <5>4. QED
          BY <5>2, <5>3 DEF PageInv, Numbered
      <4>3. \E k \in 1 .. Len(changes) : k > 1 /\ changes[k] = <<r + 1, "running">>
        <5>1. 1 \in 1 .. Len(changes) /\ changes[1][2] = "running" /\ r + 1 > changes[1][1]
          BY <1>1, <1>2, <3>1, <4>1, TailIs
        <5>2. \A q \in Begun(stage) : q > changes[1][1] =>
                \E k \in 1 .. Len(changes) : k > 1 /\ changes[k] = <<q, "running">>
          BY <5>1 DEF PageInv, NewestInv
        <5>3. QED
          BY <4>2, <5>1, <5>2
      <4>4. \E k \in 1 .. Len(changes) : k # 1 /\ changes[k] = <<r + 1, "running">>
        BY <4>3
      <4>5. \E i \in 1 .. Len(changes') : changes'[i] = <<r + 1, "running">>
        BY <2>2, <4>4
      <4>6. QED
        BY <3>3, <4>1, <4>5
    <3>5. CASE ~follows
      <4>1. selected' = selected /\ selected \in RunNo /\ selected # Newest(Begun(stage))
        BY <1>2, <2>3, <3>3, <3>5
      <4>2. PICK i \in 1 .. Len(changes) : changes[i] = <<selected + 1, "running">>
        BY <3>3, <4>1 DEF PageInv, NewestInv
      <4>3. i # 1
        <5>1. SUFFICES ASSUME i = 1 PROVE FALSE
          OBVIOUS
        <5>2. r = selected + 1 /\ t = "running"
          BY <1>2, <4>2, <5>1
        <5>3. Newest(DOMAIN listed.rows) = r - 1
          BY <1>2, <3>3, <5>2
        <5>4. Newest(DOMAIN listed.rows) = selected
          BY <3>1, <4>1, <5>2, <5>3
        <5>5. QED
          BY <1>2, <3>5, <5>2, <5>4 DEF Follows
      <4>4. QED
        BY <2>2, <4>1, <4>2, <4>3
    <3>6. QED
      BY <3>4, <3>5
  <2>4. QED
    BY <1>8, <1>9, <1>10, <2>1, <2>3 DEF NewestInv
<1>13. QED
  BY <1>8, <1>11, <1>12 DEF PageInv

\* The page loses its connection, and with it what it was to hear.
LEMMA LoseStep == PageInv /\ LoseChanges => PageInv'
<1> SUFFICES ASSUME PageInv, LoseChanges PROVE PageInv'
  OBVIOUS
<1>1. /\ connected' = FALSE /\ changes' = <<>>
      /\ behind' = (behind \/ \E i \in DOMAIN changes : changes[i][2] = "running" /\ selected # changes[i][1])
      /\ UNCHANGED <<stage, listed, single, stale, missing, selected, watch, starting>>
  BY DEF LoseChanges
<1>2. changes \in Seq(Change) /\ DOMAIN changes = 1 .. Len(changes)
  BY LenProperties DEF PageInv, Names
<1>3. changes' \in Seq(Change) /\ Len(changes') = 0 /\ 1 .. Len(changes') = {}
  BY <1>1, EmptySeq
<1>4. Begun(stage)' = Begun(stage) /\ Newest(Begun(stage))' = Newest(Begun(stage)) /\ Known' = Known
  BY <1>1 DEF Begun, Newest, Known
<1>5. Names' /\ Numbered'
  BY <1>1, <1>3, <1>4 DEF PageInv, Names, Numbered
<1>6. WatchInv'
  <2>1. Row(selected, listed, single)' = Row(selected, listed, single)
    BY <1>1 DEF Row
  <2>2. QED
    BY <1>1, <1>4, <2>1 DEF PageInv, WatchInv
<1>7. ReadInv'
  BY <1>1, <1>4 DEF PageInv, ReadInv
<1>8. ASSUME ~behind', selected \in RunNo, selected # Newest(Begun(stage)) PROVE FALSE
  <2>1. PICK i \in 1 .. Len(changes) : changes[i] = <<selected + 1, "running">>
    BY <1>1, <1>8 DEF PageInv, NewestInv
  <2>2. changes[i][2] = "running" /\ selected # changes[i][1]
    BY <1>8, <2>1 DEF RunNo
  <2>3. QED
    BY <1>1, <1>2, <1>8, <2>1, <2>2
<1>9. NewestInv'
  BY <1>1, <1>3, <1>4, <1>8 DEF PageInv, NewestInv
<1>10. QED
  BY <1>5, <1>6, <1>7, <1>9 DEF PageInv

\* A step that changes nothing but the watch, the user's request, or what is to be read.
LEMMA AsideStep ==
  ASSUME PageInv, UNCHANGED <<stage, listed, single, selected, changes, behind>>,
         starting' \in {starting, NoRunNo, Requested}, connected' \in BOOLEAN,
         ~connected' => ~connected, connected' /\ ~connected => stale' = Known \cup {TheList},
         connected' = connected => stale' = stale,
         WatchOK(watch'), watch'.run = watch.run
  PROVE  PageInv'
<1>1. Begun(stage)' = Begun(stage) /\ Newest(Begun(stage))' = Newest(Begun(stage)) /\ Known' = Known
  BY DEF Begun, Newest, Known
<1>2. Names' /\ Numbered'
  BY <1>1 DEF PageInv, Names, Numbered
<1>3. WatchInv'
  <2>1. Row(selected, listed, single)' = Row(selected, listed, single)
    BY DEF Row
  <2>2. QED
    BY <1>1, <2>1 DEF PageInv, WatchInv, WatchOK
<1>4. ReadInv'
  <2>1. Newest(DOMAIN listed.rows)' = Newest(DOMAIN listed.rows)
    BY DEF Newest
  <2>2. \A q : Status(q)' = Status(q)
    BY DEF Status
  <2>3. CASE connected' = connected
    BY <1>1, <2>1, <2>2, <2>3 DEF PageInv, ReadInv
  <2>4. CASE connected' # connected
    <3>1. connected' /\ ~connected /\ stale' = Known \cup {TheList}
      BY <2>4 DEF PageInv, Names
    <3>2. QED
      BY <1>1, <2>1, <2>2, <3>1 DEF PageInv, ReadInv
  <2>5. QED
    BY <2>3, <2>4
<1>5. NewestInv'
  BY <1>1 DEF PageInv, NewestInv
<1>6. QED
  BY <1>2, <1>3, <1>4, <1>5 DEF PageInv

\* The watch is answered, ends, is lost or is left.
LEMMA WatchSteps ==
  ASSUME PageInv, WatchAnswered \/ WatchEnds \/ WatchLost \/ StopWatching
  PROVE  PageInv'
<1>1. WatchOK(watch) /\ watch.phase = "running" /\ watch.run # NoRunNo
  BY DEF PageInv, WatchInv, WatchOK, WatchAnswered, WatchEnds, WatchLost, StopWatching
<1>2. watch.run \in Begun(stage)
  BY <1>1 DEF WatchOK
<1>3. stage[watch.run] \in {"opened", "live", "ended"}
  BY <1>2 DEF PageInv, Names, Begun
<1>4. UNCHANGED <<stage, listed, single, stale, missing, selected, changes, connected, starting,
                  behind>>
  BY DEF WatchStep, WatchAnswered, WatchEnds, WatchLost, StopWatching
<1>5. WatchOK(watch') /\ watch'.run = watch.run
  <2>1. CASE WatchAnswered
    BY <1>1, <1>3, <2>1 DEF WatchAnswered, WatchStep, WatchOK
  <2>2. CASE WatchEnds
    BY <1>1, <2>2 DEF WatchEnds, WatchStep, WatchOK
  <2>3. CASE WatchLost
    BY <1>1, <2>3 DEF WatchLost, WatchStep, WatchOK
  <2>4. CASE StopWatching
    BY <1>1, <2>4 DEF StopWatching, WatchStep, WatchOK
  <2>5. QED
    BY <2>1, <2>2, <2>3, <2>4
<1>6. connected \in BOOLEAN
  BY DEF PageInv, Names
<1>7. QED
  BY <1>4, <1>5, <1>6, AsideStep

\* The page reads: what it shows is then as it is stored, where it was read.
LEMMA ReadStep ==
  ASSUME PageInv, UNCHANGED <<stage, changes, connected, starting>>,
         NEW h, h.pages \in Nat, DOMAIN h.rows \subseteq Begun(stage), h.more => DOMAIN h.rows # {},
         changes = <<>> /\ connected /\ TheList \notin stale' =>
           /\ Newest(DOMAIN h.rows) = Newest(Begun(stage))
           /\ \A r \in DOMAIN h.rows : h.rows[r] = Status(r),
         selected = NoRunNo => Newest(DOMAIN h.rows) \in {NoRunNo, Newest(Begun(stage))},
         NEW s \in [RunNo -> {"unread", "running", "ended"}],
         \A r \in RunNo : s[r] # "unread" =>
           \/ r \in Begun(stage) /\ s[r] = Status(r)
           \/ r \in Known /\ s[r] = single[r] /\ (r \in stale => r \in stale'),
         NEW miss, Shows(selected, watch, h, s, miss, FALSE)
  PROVE  PageInv'
<1>1. Begun(stage) \subseteq RunNo /\ Known \subseteq Begun(stage) /\ behind \in BOOLEAN
  BY DEF PageInv, Names, Begun
<1>2. DOMAIN h.rows \subseteq RunNo /\ {r \in RunNo : s[r] # "unread"} \subseteq Begun(stage)
  BY <1>1
<1>3. PICK why \in BOOLEAN : why = FALSE
  OBVIOUS
<1>4. Shows(selected, watch, h, s, miss, why)
  BY <1>3
<1>5. /\ selected \in Begun(stage) \cup {NoRunNo, Gone} /\ WatchOK(watch)
      /\ changes' \in Seq(Change) /\ \A i \in 1 .. Len(changes') : changes'[i][1] \in Begun(stage)
      /\ connected' \in BOOLEAN /\ starting' \in Begun(stage) \cup {NoRunNo, Requested}
  BY DEF PageInv, Names, WatchInv, WatchOK
<1>6. Names' /\ Numbered' /\ WatchInv'
  BY <1>2, <1>4, <1>5, ShowsKeeps
<1>7. NewestInv'
  BY ShowsNewest
<1>8. listed' = h /\ single' = s
  BY <1>1, <1>2, <1>4, ShowsFacts
<1>9. /\ Begun(stage)' = Begun(stage) /\ Newest(Begun(stage))' = Newest(Begun(stage))
      /\ Newest(DOMAIN listed.rows)' = Newest(DOMAIN h.rows) /\ \A q : Status(q)' = Status(q)
  BY <1>8 DEF Begun, Newest, Status
<1>10. ReadInv'
  <2>1. ASSUME NEW r \in RunNo, s[r] # "unread", connected, r \notin stale'
        PROVE  s[r] = Status(r) \/ \E i \in 1 .. Len(changes) : changes[i] = <<r, "ended">>
    <3>1. CASE s[r] = Status(r)
      BY <3>1
    <3>2. CASE r \in Known /\ s[r] = single[r] /\ r \notin stale
      BY <2>1, <3>2 DEF PageInv, ReadInv
    <3>3. QED
      BY <2>1, <3>1, <3>2
  <2>2. Known' = {r \in RunNo : s[r] # "unread"}
    BY <1>8 DEF Known
  <2>3. QED
    BY <1>8, <1>9, <2>1, <2>2 DEF PageInv, ReadInv
<1>11. QED
  BY <1>6, <1>7, <1>10 DEF PageInv

\* All batches of the list are read again.
LEMMA ReadHistoryStep == PageInv /\ ReadHistory => PageInv'
<1> SUFFICES ASSUME PageInv, ReadHistory PROVE PageInv'
  OBVIOUS
<1>1. PICK pages : pages = IF listed.pages = 0 THEN 1 ELSE listed.pages
  OBVIOUS
<1>2. PICK batch : batch = Rows(pages * PageSize)
  OBVIOUS
<1>3. PICK h : h = [rows |-> [r \in batch |-> Status(r)], pages |-> pages,
                    more |-> Cardinality(batch) = pages * PageSize]
  OBVIOUS
<1>4. /\ stale' = stale \ {TheList} /\ UNCHANGED <<stage, changes, connected, starting>>
      /\ Shows(selected, watch, h, single, missing, FALSE)
  BY <1>1, <1>2, <1>3 DEF ReadHistory
<1>5. /\ Begun(stage) \subseteq RunNo /\ pages \in Nat \ {0}
      /\ single \in [RunNo -> {"unread", "running", "ended"}]
  BY <1>1 DEF PageInv, Names, Begun
<1>6. pages * PageSize \in Nat \ {0}
  <2>1. \A a, b \in Nat \ {0} : a * b \in Nat \ {0}
    OBVIOUS
  <2>2. QED
    BY <1>5, <2>1
<1>7. batch \subseteq Begun(stage) /\ Newest(batch) = Newest(Begun(stage))
  BY <1>2, <1>5, <1>6, BatchIs
<1>8. h.pages \in Nat /\ DOMAIN h.rows = batch /\ \A r \in batch : h.rows[r] = Status(r)
  BY <1>3, <1>5
<1>9. h.more => DOMAIN h.rows # {}
  <2>1. h.more = (Cardinality(batch) = pages * PageSize)
    BY <1>3
  <2>2. QED
    BY <1>6, <1>8, <2>1, FS_EmptySet
<1>10. \A r \in RunNo : single[r] # "unread" =>
         r \in Known /\ (r \in stale => r \in stale')
  BY <1>4 DEF Known, RunNo, TheList
<1>11. QED
  BY <1>4, <1>5, <1>7, <1>8, <1>9, <1>10, ReadStep

\* A further batch is read.
LEMMA ReadFurtherStep == PageInv /\ ReadFurther => PageInv'
<1> SUFFICES ASSUME PageInv, ReadFurther PROVE PageInv'
  OBVIOUS
<1>1. PICK from, batch : /\ from = listed.pages * PageSize
                         /\ batch = Rows(from + PageSize) \ Rows(from)
  OBVIOUS
<1>2. PICK h : h = [rows |-> [r \in DOMAIN listed.rows \cup batch |->
                                IF r \in DOMAIN listed.rows THEN listed.rows[r] ELSE Status(r)],
                    pages |-> listed.pages + 1, more |-> Cardinality(batch) = PageSize]
  OBVIOUS
<1>3. /\ listed.more /\ UNCHANGED <<stage, stale, changes, connected, starting>>
      /\ Shows(selected, watch, h, single, missing, FALSE)
  BY <1>1, <1>2 DEF ReadFurther
<1>4. /\ Begun(stage) \subseteq RunNo /\ DOMAIN listed.rows \subseteq Begun(stage)
      /\ single \in [RunNo -> {"unread", "running", "ended"}] /\ listed.pages \in Nat
      /\ DOMAIN listed.rows # {}
  BY <1>3 DEF PageInv, Names, Begun, ReadInv
<1>5. batch \subseteq Begun(stage)
  BY <1>1 DEF Rows
<1>6. /\ DOMAIN h.rows = DOMAIN listed.rows \cup batch
      /\ \A r \in DOMAIN h.rows : h.rows[r] = listed.rows[r] \/ h.rows[r] = Status(r)
      /\ \A r \in DOMAIN listed.rows : h.rows[r] = listed.rows[r]
      /\ \A r \in batch \ DOMAIN listed.rows : h.rows[r] = Status(r)
      /\ h.pages \in Nat
  BY <1>2, <1>4
<1>7. ASSUME changes = <<>>, connected, TheList \notin stale
      PROVE  /\ Newest(DOMAIN h.rows) = Newest(Begun(stage))
             /\ \A r \in DOMAIN h.rows : h.rows[r] = Status(r)
  <2>1. /\ Newest(DOMAIN listed.rows) = Newest(Begun(stage))
        /\ \A r \in DOMAIN listed.rows : listed.rows[r] = Status(r)
    BY <1>7 DEF PageInv, ReadInv
  <2>2. \A r \in DOMAIN h.rows : h.rows[r] = Status(r)
    BY <1>6, <2>1
  <2>3. PICK m : m = Newest(DOMAIN listed.rows)
    OBVIOUS
  <2>4. m \in DOMAIN listed.rows
    BY <1>4, <2>3, NewestIs
  <2>5. \A r \in DOMAIN h.rows : r <= m
    BY <1>4, <1>5, <1>6, <2>1, <2>3, NewestIs
  <2>6. DOMAIN h.rows \in SUBSET RunNo /\ m \in DOMAIN h.rows
    BY <1>4, <1>5, <1>6, <2>4
  <2>7. Newest(DOMAIN h.rows) = m
    BY <2>5, <2>6, NewestIs
  <2>8. QED
    BY <2>1, <2>2, <2>3, <2>7
<1>8. selected # NoRunNo
  BY <1>4 DEF PageInv, NewestInv
<1>9. \A r \in RunNo : single[r] # "unread" => r \in Known /\ (r \in stale => r \in stale')
  BY <1>3 DEF Known
<1>10. DOMAIN h.rows \subseteq Begun(stage) /\ DOMAIN h.rows # {}
  BY <1>4, <1>5, <1>6
<1>11. changes = <<>> /\ connected /\ TheList \notin stale' =>
         /\ Newest(DOMAIN h.rows) = Newest(Begun(stage))
         /\ \A r \in DOMAIN h.rows : h.rows[r] = Status(r)
  BY <1>3, <1>7
<1>12. QED
  BY <1>3, <1>4, <1>6, <1>8, <1>9, <1>10, <1>11, ReadStep

\* The selected run is read on its own, or cannot be.
LEMMA ReadSelectedStep == PageInv /\ ReadSelected => PageInv'
<1> SUFFICES ASSUME PageInv, ReadSelected PROVE PageInv'
  OBVIOUS
<1>1. /\ Begun(stage) \subseteq RunNo /\ DOMAIN listed.rows \subseteq Begun(stage)
      /\ single \in [RunNo -> {"unread", "running", "ended"}] /\ listed.pages \in Nat
      /\ listed.more => DOMAIN listed.rows # {}
      /\ selected \in Begun(stage) \cup {NoRunNo, Gone} /\ selected # NoRunNo
      /\ UNCHANGED <<stage, changes, connected, starting>>
  BY DEF PageInv, Names, Begun, ReadInv, ReadSelected, ReadsAlone
<1>2. changes = <<>> /\ connected /\ TheList \notin stale =>
        /\ Newest(DOMAIN listed.rows) = Newest(Begun(stage))
        /\ \A r \in DOMAIN listed.rows : listed.rows[r] = Status(r)
  BY DEF PageInv, ReadInv
<1>3. TheList \notin RunNo /\ TheList # selected
  BY <1>1 DEF TheList, RunNo, NoRunNo, Gone
<1>4. CASE /\ selected # Gone /\ stale' = stale \ {selected}
           /\ Shows(selected, watch, listed, [single EXCEPT ![selected] = Status(selected)],
                    missing \ {selected}, FALSE)
  <2>1. PICK s : s = [single EXCEPT ![selected] = Status(selected)]
    OBVIOUS
  <2>2. selected \in Begun(stage) /\ Status(selected) \in {"running", "ended"}
    BY <1>1, <1>4 DEF Status
  <2>3. s \in [RunNo -> {"unread", "running", "ended"}]
    BY <1>1, <2>1, <2>2
  <2>4. \A r \in RunNo : s[r] # "unread" =>
           \/ r \in Begun(stage) /\ s[r] = Status(r)
           \/ r \in Known /\ s[r] = single[r] /\ (r \in stale => r \in stale')
    BY <1>1, <1>4, <2>1, <2>2 DEF Known
  <2>5. Shows(selected, watch, listed, s, missing \ {selected}, FALSE)
    BY <1>4, <2>1
  <2>6. TheList \notin stale' => TheList \notin stale
    BY <1>3, <1>4
  <2>7. QED
    BY <1>1, <1>2, <2>3, <2>4, <2>5, <2>6, ReadStep
<1>5. CASE /\ stale' = stale
           /\ Shows(selected, watch, listed, single, missing \cup {selected}, FALSE)
  <2>1. \A r \in RunNo : single[r] # "unread" => r \in Known /\ (r \in stale => r \in stale')
    BY <1>5 DEF Known
  <2>2. QED
    BY <1>1, <1>2, <1>5, <2>1, ReadStep
<1>6. QED
  BY <1>4, <1>5 DEF ReadSelected

\* The user turns to a run, or is brought to the one that was asked for.
LEMMA TurnStep ==
  ASSUME PageInv, UNCHANGED <<stage, stale, changes, connected>>,
         starting' \in Begun(stage) \cup {NoRunNo, Requested},
         NEW r \in Begun(stage), NEW w, WatchOK(w), w.run = r \/ r \in DOMAIN listed.rows,
         Shows(r, w, listed, single, missing, TRUE)
  PROVE  PageInv'
<1>1. /\ Begun(stage) \subseteq RunNo /\ DOMAIN listed.rows \subseteq Begun(stage)
      /\ single \in [RunNo -> {"unread", "running", "ended"}] /\ listed.pages \in Nat
      /\ behind \in BOOLEAN /\ {q \in RunNo : single[q] # "unread"} \subseteq Begun(stage)
      /\ changes' \in Seq(Change) /\ \A i \in 1 .. Len(changes') : changes'[i][1] \in Begun(stage)
      /\ connected' \in BOOLEAN
  BY DEF PageInv, Names, Begun, Known
<1>2. DOMAIN listed.rows \subseteq RunNo /\ r # NoRunNo
  BY <1>1 DEF NoRunNo, RunNo
<1>3. PICK why \in BOOLEAN : why = TRUE
  OBVIOUS
<1>4. Shows(r, w, listed, single, missing, why)
  BY <1>3
<1>5. ~Dropped(r, listed, missing, w)
  BY DEF Dropped
<1>6. Names' /\ Numbered' /\ WatchInv'
  <2>1. r \in Begun(stage) \cup {NoRunNo, Gone} /\ stage' = stage
    OBVIOUS
  <2>2. PICK h, s, miss : h = listed /\ s = single /\ miss = missing
    OBVIOUS
  <2>3. Shows(r, w, h, s, miss, why)
    BY <1>4, <2>2
  <2>4. /\ h.pages \in Nat /\ DOMAIN h.rows \subseteq Begun(stage)
        /\ s \in [RunNo -> {"unread", "running", "ended"}]
        /\ {q \in RunNo : s[q] # "unread"} \subseteq Begun(stage)
    BY <1>1, <2>2
  <2>5. /\ changes' \in Seq(Change) /\ \A i \in 1 .. Len(changes') : changes'[i][1] \in Begun(stage)
        /\ connected' \in BOOLEAN /\ starting' \in Begun(stage) \cup {NoRunNo, Requested}
    BY <1>1
  <2>6. QED
    BY <2>1, <2>3, <2>4, <2>5, ShowsKeeps
<1>7. /\ listed' = listed /\ single' = single /\ selected' = r
      /\ ~behind' => selected' = Newest(Begun(stage))
  <2>1. /\ listed' = listed /\ single' = single
        /\ r # NoRunNo /\ ~Dropped(r, listed, missing, w) => selected' = r
        /\ ~behind' => \/ selected' = Newest(Begun(stage))
                       \/ selected' = r /\ r # NoRunNo /\ ~behind /\ ~why
                       \/ r = NoRunNo /\ selected' = Newest(DOMAIN listed.rows)
    BY <1>1, <1>2, <1>4, ShowsFacts
  <2>2. QED
    BY <1>2, <1>3, <1>5, <2>1
<1>8. /\ Begun(stage)' = Begun(stage) /\ Newest(Begun(stage))' = Newest(Begun(stage)) /\ Known' = Known
      /\ Newest(DOMAIN listed.rows)' = Newest(DOMAIN listed.rows) /\ \A q : Status(q)' = Status(q)
  BY <1>7 DEF Begun, Newest, Status, Known
<1>9. ReadInv'
  BY <1>7, <1>8 DEF PageInv, ReadInv
<1>10. NewestInv'
  BY <1>2, <1>7, <1>8 DEF PageInv, NewestInv
<1>11. QED
  BY <1>6, <1>9, <1>10 DEF PageInv

\* The user selects a run of the list.
LEMMA SelectStep ==
  ASSUME PageInv, NEW r \in RunNo, SelectRun(r)
  PROVE  PageInv'
<1>1. /\ r \in DOMAIN listed.rows /\ Shows(r, Reset(r), listed, single, missing, TRUE)
      /\ UNCHANGED <<stage, stale, changes, connected, starting>>
  BY DEF SelectRun
<1>2. r \in Begun(stage) /\ starting \in Begun(stage) \cup {NoRunNo, Requested}
  BY <1>1 DEF PageInv, Names
<1>3. WatchOK(Reset(r))
  BY DEF PageInv, WatchInv, WatchOK, Reset, NoWatch
<1>4. PICK w : w = Reset(r)
  OBVIOUS
<1>5. WatchOK(w) /\ Shows(r, w, listed, single, missing, TRUE)
  BY <1>1, <1>3, <1>4
<1>6. QED
  BY <1>1, <1>2, <1>5, TurnStep

\* The answer to the user's request names the run.
LEMMA StartedStep == PageInv /\ RunStarted => PageInv'
<1> SUFFICES ASSUME PageInv, RunStarted PROVE PageInv'
  OBVIOUS
<1>1. PICK r : r = starting
  OBVIOUS
<1>2. PICK w : w = WatchOf(r)
  OBVIOUS
<1>3. /\ r \in RunNo /\ starting' = NoRunNo /\ Shows(r, w, listed, single, missing, TRUE)
      /\ UNCHANGED <<stage, stale, changes, connected>>
  BY <1>1, <1>2 DEF RunStarted
<1>4. r \in Begun(stage)
  BY <1>1, <1>3 DEF PageInv, Names, NoRunNo, Requested, RunNo
<1>5. WatchOK(w) /\ w.run = r
  BY <1>2, <1>3, <1>4 DEF WatchOf, WatchOK, NoRunNo, RunNo
<1>6. QED
  BY <1>3, <1>4, <1>5, TurnStep

\* Each step of the runs, the page and its user keeps the invariant.
LEMMA PageStep == PageInv /\ [RunPageNext]_pageVars => PageInv'
<1> SUFFICES ASSUME PageInv, [RunPageNext]_pageVars PROVE PageInv'
  OBVIOUS
<1>1. WatchOK(watch) /\ connected \in BOOLEAN
  BY DEF PageInv, WatchInv, WatchOK, Names
<1>2. CASE StartElsewhere
  BY <1>2, StartsStep DEF StartElsewhere
<1>3. CASE StartHere
  BY <1>3, StartsStep DEF StartHere
<1>4. CASE HearAgain
  BY <1>1, <1>4, AsideStep DEF HearAgain
<1>5. CASE RunNow
  BY <1>1, <1>5, AsideStep DEF RunNow
<1>6. CASE RefuseRun
  BY <1>1, <1>6, AsideStep DEF RefuseRun
<1>7. CASE UNCHANGED pageVars
  BY <1>1, <1>7, AsideStep DEF pageVars
<1>8. QED
  BY <1>2, <1>3, <1>4, <1>5, <1>6, <1>7, HearStep, LoseStep, WatchSteps, ReadHistoryStep,
     ReadFurtherStep, ReadSelectedStep, StartedStep, SelectStep, StageStep DEF RunPageNext

\* At rest the invariant gives what the page should show.
LEMMA PageHolds == PageInv => RunIsShown /\ NewestIsFollowed
<1> SUFFICES ASSUME PageInv, AtRest PROVE RunIsShown /\ NewestIsFollowed
  BY DEF RunIsShown, NewestIsFollowed
<1>1. /\ changes = <<>> /\ connected /\ TheList \notin stale
      /\ ReadsAlone => selected \in Known \ stale
      /\ listed.pages > 0
  BY DEF AtRest
<1>2. /\ Newest(DOMAIN listed.rows) = Newest(Begun(stage))
      /\ \A r \in DOMAIN listed.rows : listed.rows[r] = Status(r)
  BY <1>1 DEF PageInv, ReadInv
<1>3. changes \in Seq(Change) /\ 1 .. Len(changes) = {}
  <2>1. Len(changes) = 0
    BY <1>1, EmptySeq
  <2>2. QED
    BY <2>1 DEF PageInv, Names
<1>4. Begun(stage) \subseteq RunNo /\ selected \in Begun(stage) \cup {NoRunNo, Gone}
      /\ Known \subseteq Begun(stage) /\ DOMAIN listed.rows \subseteq Begun(stage)
  BY DEF PageInv, Names, Begun
<1>5. NoRunNo \notin RunNo /\ Gone \notin RunNo
  BY DEF NoRunNo, Gone, RunNo
<1>6. ASSUME selected # NoRunNo
      PROVE  selected \in Begun(stage) /\ Row(selected, listed, single) = Status(selected)
  <2>1. CASE selected \in DOMAIN listed.rows
    BY <1>2, <1>4, <2>1 DEF Row
  <2>2. CASE selected \notin DOMAIN listed.rows
    <3>1. selected \in Known \ stale
      BY <1>1, <1>6, <2>2 DEF ReadsAlone
    <3>2. single[selected] = Status(selected)
      BY <1>1, <1>3, <3>1 DEF PageInv, ReadInv
    <3>3. QED
      BY <1>4, <2>2, <3>1, <3>2 DEF Row
  <2>3. QED
    BY <2>1, <2>2
<1>7. RunIsShown
  <2> SUFFICES ASSUME selected # NoRunNo
               PROVE  /\ Row(selected, listed, single) = Status(selected)
                      /\ stage[selected] = "live" => watch.run = selected /\ (watch.phase = "idle" => watch.early)
    BY DEF RunIsShown
  <2>1. selected \in Begun(stage) /\ Row(selected, listed, single) = Status(selected)
    BY <1>6
  <2>2. ASSUME stage[selected] = "live"
        PROVE  watch.run = selected /\ (watch.phase = "idle" => watch.early)
    <3>1. Status(selected) = "running"
      BY <2>2 DEF Status
    <3>2. watch.run = selected
      BY <2>1, <3>1 DEF PageInv, WatchInv
    <3>3. QED
      BY <2>2, <3>2 DEF PageInv, WatchInv
  <2>3. QED
    BY <2>1, <2>2
<1>8. NewestIsFollowed
  <2> SUFFICES ASSUME Begun(stage) # {}, ~behind PROVE selected = Newest(Begun(stage))
    BY DEF NewestIsFollowed
  <2>1. selected # NoRunNo
    <3>1. SUFFICES ASSUME selected = NoRunNo PROVE FALSE
      OBVIOUS
    <3>2. DOMAIN listed.rows = {}
      BY <3>1 DEF PageInv, NewestInv
    <3>3. Newest(DOMAIN listed.rows) = NoRunNo
      BY <3>2, NewestIs
    <3>4. Newest(Begun(stage)) \in Begun(stage)
      BY <1>4, NewestIs
    <3>5. QED
      BY <1>2, <1>4, <1>5, <3>3, <3>4
  <2>2. selected \in RunNo
    BY <1>4, <1>6, <2>1
  <2>3. QED
    BY <1>3, <2>2 DEF PageInv, NewestInv
<1>9. QED
  BY <1>7, <1>8

\* Only the user, or a run that is nowhere, takes the page off an older run.
LEMMA ReviewStep ==
  ASSUME PageInv, [RunPageNext]_pageVars,
         selected' # selected, selected \in RunNo \ {Newest(DOMAIN listed.rows)}
  PROVE  \/ RunStarted \/ \E r \in RunNo : SelectRun(r)
         \/ selected \notin DOMAIN listed'.rows /\ watch.run # selected /\ (selected \in missing \/ ReadSelected)
<1>1. selected # NoRunNo
  BY DEF NoRunNo, RunNo
<1>2. ASSUME NEW sel, NEW h, NEW s, NEW miss, NEW why, Shows(sel, watch, h, s, miss, why), sel = selected
      PROVE  selected \notin DOMAIN listed'.rows /\ watch.run # selected /\ selected \in miss
  BY <1>1, <1>2 DEF Shows, Dropped
<1>3. CASE HearChange
  <2>1. PICK r, follows, why :
          /\ r = Head(changes)[1] /\ follows = (Head(changes)[2] = "running" /\ Follows(r))
          /\ Shows(IF follows THEN r ELSE selected, watch, listed, single, missing, why)
    BY <1>3 DEF HearChange
  <2>2. follows => r = selected
    BY <1>1, <2>1 DEF Follows
  <2>3. (IF follows THEN r ELSE selected) = selected
    BY <2>2
  <2>4. QED
    BY <1>2, <2>1, <2>3
<1>4. CASE ReadHistory
  BY <1>2, <1>4 DEF ReadHistory
<1>5. CASE ReadFurther
  BY <1>2, <1>5 DEF ReadFurther
<1>6. CASE ReadSelected
  <2>1. PICK why, miss : why = FALSE /\ miss = missing \ {selected}
    OBVIOUS
  <2>2. ASSUME NEW s, Shows(selected, watch, listed, s, miss, why) PROVE FALSE
    BY <1>2, <2>1, <2>2
  <2>3. Shows(selected, watch, listed, single, missing \cup {selected}, FALSE)
    BY <1>6, <2>1, <2>2 DEF ReadSelected
  <2>4. QED
    BY <1>2, <1>6, <2>3
<1>7. CASE \/ StartElsewhere \/ LoseChanges \/ HearAgain \/ WatchAnswered \/ WatchEnds \/ WatchLost
           \/ StopWatching \/ RunNow \/ StartHere \/ RefuseRun \/ UNCHANGED pageVars
           \/ \E r \in RunNo : GoesLive(r) \/ Ends(r)
  BY <1>7 DEF StartElsewhere, LoseChanges, HearAgain, WatchAnswered, WatchEnds, WatchLost,
     StopWatching, RunNow, StartHere, RefuseRun, pageVars, GoesLive, Ends, Starts, WatchStep
<1>8. QED
  BY <1>3, <1>4, <1>5, <1>6, <1>7 DEF RunPageNext

\* The page of a job shows the selected run as it is, is at the newest run again after others
\* start, and takes no older run under review away, for any number of runs, sizes of pages and
\* orders of changes, reads and losses (job-detail-page.tsx:122-163).
THEOREM PageAlwaysTrue ==
  RunPageSpec => [](RunIsShown /\ NewestIsFollowed) /\ ReviewStays
<1>1. RunPageSpec => []PageInv
  BY PageStart, PageStep, PTL DEF RunPageSpec
<1>2. PageInv => RunIsShown /\ NewestIsFollowed
  BY PageHolds
<1>3. PageInv /\ [RunPageNext]_pageVars =>
        [selected' # selected /\ selected \in RunNo \ {Newest(DOMAIN listed.rows)} =>
           \/ RunStarted \/ \E r \in RunNo : SelectRun(r)
           \/ selected \notin DOMAIN listed'.rows /\ watch.run # selected
              /\ (selected \in missing \/ ReadSelected)]_pageVars
  BY ReviewStep
<1>4. RunPageSpec => ReviewStays
  BY <1>1, <1>3, PTL DEF RunPageSpec, ReviewStays
<1>5. QED
  BY <1>1, <1>2, <1>4, PTL

----------------------------------------------------------------------------
(* RunTargets.                                                             *)

HIDE RunPageAssumption

Lists == [devices : (SUBSET Dev) \cup {Pending, Failed}, groups : (SUBSET Grp) \cup {Pending, Failed},
          members : (SUBSET (Dev \X Grp)) \cup {Pending, Failed}]

\* What is stored fits together, and a list is what may be read of it or one of its two other
\* states.
TargetsInv ==
  /\ RunTargetsTypeOK
  /\ inventory.members \subseteq inventory.devices \X inventory.groups
  /\ lists \in Lists
  /\ UrlIsSelection /\ NothingUnnamed

\* What is listed and offered, of lists as a page may hold them.
LEMMA ListsRead ==
  ASSUME NEW ls \in Lists
  PROVE  /\ Listed(ls) \in SUBSET Dev /\ Offered(ls) \in SUBSET (Grp \cup {AllGroup})
         /\ Read(ls.members) \in SUBSET (Dev \X Grp)
<1>1. /\ ls.devices \in (SUBSET Dev) \cup {Pending, Failed}
      /\ ls.groups \in (SUBSET Grp) \cup {Pending, Failed}
      /\ ls.members \in (SUBSET (Dev \X Grp)) \cup {Pending, Failed}
  BY DEF Lists
<1>2. Read(ls.devices) \in SUBSET Dev
  BY <1>1 DEF Read
<1>3. Read(ls.groups) \in SUBSET Grp
  BY <1>1 DEF Read
<1>4. Read(ls.members) \in SUBSET (Dev \X Grp)
  BY <1>1 DEF Read
<1>5. QED
  BY <1>2, <1>3, <1>4 DEF Listed, Offered

\* The ids of a selection are those of its groups and those of its devices.
LEMMA PicksApart ==
  ASSUME NEW p \in Picks
  PROVE  /\ p.groups \in SUBSET (Grp \cup {AllGroup}) /\ p.devices \in SUBSET Dev
         /\ \A x \in Ids(p) : IF x \in Dev THEN x \in p.devices ELSE x \in p.groups
         /\ \A G \in SUBSET (Grp \cup {AllGroup}), D \in SUBSET Dev :
              /\ Pick(G, D) \in Picks /\ Ids(Pick(G, D)) = G \cup D
              /\ Pick(G, D).groups = G /\ Pick(G, D).devices = D
<1>1. p.groups \in SUBSET (Grp \cup {AllGroup}) /\ p.devices \in SUBSET Dev
  BY DEF Picks
<1>2. \A x \in Ids(p) : IF x \in Dev THEN x \in p.devices ELSE x \in p.groups
  BY <1>1, RunTargetsAssumption DEF Ids
<1>3. ASSUME NEW G \in SUBSET (Grp \cup {AllGroup}), NEW D \in SUBSET Dev
      PROVE  /\ Pick(G, D) \in Picks /\ Ids(Pick(G, D)) = G \cup D
             /\ Pick(G, D).groups = G /\ Pick(G, D).devices = D
  BY DEF Pick, Picks, Ids
<1>4. QED
  BY <1>1, <1>2, <1>3

\* Pruning leaves of a selection what is offered and listed.
LEMMA PrunedIs ==
  ASSUME NEW ls \in Lists, NEW p \in Picks
  PROVE  /\ Pruned(p, ls) \in Picks
         /\ Ids(Pruned(p, ls)) \subseteq Offered(ls) \cup Listed(ls)
         /\ \A x \in Ids(p) \ Ids(Pruned(p, ls)) : x \notin Offered(ls) \cup Listed(ls)
<1>1. /\ Pruned(p, ls) \in Picks
      /\ Ids(Pruned(p, ls)) = (p.groups \cap Offered(ls)) \cup (p.devices \cap Listed(ls))
  BY PicksApart DEF Pruned
<1>2. ASSUME NEW x \in Ids(p) \ Ids(Pruned(p, ls)) PROVE x \notin Offered(ls) \cup Listed(ls)
  BY <1>1, ListsRead, PicksApart, RunTargetsAssumption
<1>3. QED
  BY <1>1, <1>2

\* The page begins with what its URL or its job names, and has read nothing.
LEMMA TargetsInit == RunTargetsInit => TargetsInv
<1> SUFFICES ASSUME RunTargetsInit PROVE TargetsInv
  OBVIOUS
<1>1. kept \in Picks /\ picked = kept
  BY DEF RunTargetsInit, Picks, Pick, Nothing
<1>2. lists \in Lists /\ ~Ready(lists) /\ \A l \in DOMAIN lists : lists[l] = Pending
  BY DEF RunTargetsInit, NothingRead, Lists, Ready
<1>3. /\ inventory \in [devices : SUBSET Dev, groups : SUBSET Grp, members : SUBSET (Dev \X Grp)]
      /\ inventory.members \subseteq inventory.devices \X inventory.groups
  BY DEF RunTargetsInit
<1>4. /\ page \in {"playbook", "script", "commands", "job"} /\ goneBack = {}
      /\ dialog = NoRun /\ running = NoRun /\ edits = 0
  BY DEF RunTargetsInit
<1>5. RunTargetsTypeOK
  BY <1>1, <1>2, <1>3, <1>4, RunTargetsAssumption DEF RunTargetsTypeOK
<1>6. QED
  BY <1>2, <1>3, <1>5 DEF TargetsInv, UrlIsSelection, NothingUnnamed

\* A step that leaves the inventory and the lists alone.
LEMMA SameLists ==
  ASSUME TargetsInv, UNCHANGED <<page, inventory, lists, edits>>,
         picked' \in Picks, kept' \in Picks, goneBack' \subseteq Grp \cup Dev \cup {AllGroup},
         {dialog', running'} \subseteq Picks \cup {NoRun},
         page = "playbook" /\ Ready(lists) =>
           /\ kept' = picked' /\ Ids(picked') \ goneBack' \subseteq Offered(lists) \cup Listed(lists)
  PROVE  TargetsInv'
<1>1. RunTargetsTypeOK'
  BY DEF TargetsInv, RunTargetsTypeOK
<1>2. UrlIsSelection' /\ NothingUnnamed'
  BY DEF UrlIsSelection, NothingUnnamed, Ready, Offered, Listed
<1>3. QED
  BY <1>1, <1>2 DEF TargetsInv

\* A step of the picker takes a selection to another, within what is offered and listed.
LEMMA PickStep ==
  ASSUME TargetsInv, NEW p \in Picks, PickNow(p),
         Ids(p) \subseteq Ids(picked) \cup Offered(lists) \cup Listed(lists)
  PROVE  TargetsInv'
<1>1. /\ UNCHANGED <<page, inventory, lists, goneBack, dialog, running, edits>>
      /\ picked' = p /\ kept' = Synced(p, lists)
  BY DEF PickNow
<1>2. kept' \in Picks /\ (page = "playbook" /\ Ready(lists) => kept' = picked')
  BY <1>1 DEF Synced, TargetsInv, RunTargetsTypeOK
<1>3. page = "playbook" /\ Ready(lists) =>
        Ids(picked') \ goneBack' \subseteq Offered(lists) \cup Listed(lists)
  BY <1>1 DEF TargetsInv, NothingUnnamed
<1>4. /\ goneBack' \subseteq Grp \cup Dev \cup {AllGroup}
      /\ {dialog', running'} \subseteq Picks \cup {NoRun}
  BY <1>1 DEF TargetsInv, RunTargetsTypeOK
<1>5. QED
  BY <1>1, <1>2, <1>3, <1>4, SameLists

\* The inventory changes and keeps its memberships between rows that are there.
LEMMA EditStep == ASSUME TargetsInv, EditInventory PROVE TargetsInv'
<1> DEFINE Inventory == [devices : SUBSET Dev, groups : SUBSET Grp, members : SUBSET (Dev \X Grp)]
           Linked(i) == i.members \subseteq i.devices \X i.groups
<1>1. inventory \in Inventory /\ Linked(inventory)
  BY DEF TargetsInv, RunTargetsTypeOK
<1>2. inventory' \in Inventory /\ Linked(inventory')
  <2>1. CASE \E d \in inventory.devices :
               inventory' = [inventory EXCEPT !.devices = @ \ {d}, !.members = {m \in @ : m[1] # d}]
    <3>1. PICK d \in inventory.devices :
               inventory' = [inventory EXCEPT !.devices = @ \ {d}, !.members = {m \in @ : m[1] # d}]
      BY <2>1
    <3>2. /\ inventory'.devices = inventory.devices \ {d} /\ inventory'.groups = inventory.groups
          /\ inventory'.members = {m \in inventory.members : m[1] # d}
      BY <1>1, <3>1
    <3>3. inventory' \in Inventory
      BY <1>1, <3>1
    <3>4. Linked(inventory')
      BY <1>1, <3>2
    <3>5. QED
      BY <3>3, <3>4
  <2>2. CASE \E g \in inventory.groups :
               inventory' = [inventory EXCEPT !.groups = @ \ {g}, !.members = {m \in @ : m[2] # g}]
    <3>1. PICK g \in inventory.groups :
               inventory' = [inventory EXCEPT !.groups = @ \ {g}, !.members = {m \in @ : m[2] # g}]
      BY <2>2
    <3>2. /\ inventory'.groups = inventory.groups \ {g} /\ inventory'.devices = inventory.devices
          /\ inventory'.members = {m \in inventory.members : m[2] # g}
      BY <1>1, <3>1
    <3>3. inventory' \in Inventory
      BY <1>1, <3>1
    <3>4. Linked(inventory')
      BY <1>1, <3>2
    <3>5. QED
      BY <3>3, <3>4
  <2>3. CASE \E m \in inventory.devices \X inventory.groups :
               inventory' = [inventory EXCEPT !.members = IF m \in @ THEN @ \ {m} ELSE @ \cup {m}]
    BY <1>1, <2>3
  <2>4. QED
    BY <2>1, <2>2, <2>3 DEF EditInventory
<1>3. /\ UNCHANGED <<page, lists, picked, kept, goneBack, dialog, running>>
      /\ edits < MaxEdits /\ edits' = edits + 1
  BY DEF EditInventory
<1>4. edits \in Nat /\ edits' \in 0 .. MaxEdits /\ edits' > 0
  BY <1>3, RunTargetsAssumption DEF TargetsInv, RunTargetsTypeOK
<1>5. RunTargetsTypeOK'
  BY <1>2, <1>3, <1>4 DEF TargetsInv, RunTargetsTypeOK
<1>6. UrlIsSelection' /\ NothingUnnamed'
  BY <1>3 DEF TargetsInv, UrlIsSelection, NothingUnnamed, Ready, Offered, Listed
<1>7. QED
  BY <1>2, <1>3, <1>5, <1>6 DEF TargetsInv

\* A list comes or fails; the page of a playbook drops what it no longer finds.
LEMMA FetchStep ==
  ASSUME TargetsInv, NEW l \in DOMAIN lists, FetchList(l)
  PROVE  /\ TargetsInv' /\ lists' \in Lists
         /\ picked' = picked \/ (page = "playbook" /\ Ready(lists') /\ picked' = Pruned(picked, lists'))
<1>1. lists \in Lists /\ l \in {"devices", "groups", "members"} /\ picked \in Picks /\ kept \in Picks
  BY DEF TargetsInv, RunTargetsTypeOK, Lists
<1>2. /\ UNCHANGED <<page, inventory, goneBack, dialog, running, edits>>
      /\ picked' = IF page = "playbook" /\ Ready(lists') THEN Pruned(picked, lists') ELSE picked
      /\ kept' = Synced(picked', lists')
  BY DEF FetchList
<1>3. PICK v : lists' = [lists EXCEPT ![l] = v] /\ v \in {inventory[l], lists[l], Failed}
  BY DEF FetchList
<1>4. /\ inventory \in [devices : SUBSET Dev, groups : SUBSET Grp, members : SUBSET (Dev \X Grp)]
      /\ \A k \in DOMAIN lists : lists[k] \in {inventory[k], Pending, Failed} \/ edits > 0
  BY DEF TargetsInv, RunTargetsTypeOK
<1>5. lists' \in Lists
  BY <1>1, <1>3, <1>4 DEF Lists
<1>6. \A k \in DOMAIN lists' : lists'[k] \in {inventory[k], Pending, Failed} \/ edits > 0
  BY <1>1, <1>3, <1>4 DEF Lists
<1>7. picked' \in Picks /\ kept' \in Picks /\ UrlIsSelection'
  BY <1>1, <1>2, <1>5, PrunedIs DEF Synced, UrlIsSelection
<1>8. RunTargetsTypeOK'
  BY <1>2, <1>6, <1>7 DEF TargetsInv, RunTargetsTypeOK
<1>9. NothingUnnamed'
  BY <1>1, <1>2, <1>5, PrunedIs DEF NothingUnnamed
<1>10. QED
  BY <1>2, <1>5, <1>7, <1>8, <1>9 DEF TargetsInv

LEMMA TargetsStep == TargetsInv /\ [RunTargetsNext]_targetVars => TargetsInv'
<1> SUFFICES ASSUME TargetsInv, [RunTargetsNext]_targetVars PROVE TargetsInv'
  OBVIOUS
<1>1. /\ lists \in Lists /\ picked \in Picks /\ kept \in Picks
      /\ {dialog, running} \subseteq Picks \cup {NoRun}
      /\ goneBack \subseteq Grp \cup Dev \cup {AllGroup}
      /\ Listed(lists) \in SUBSET Dev /\ Offered(lists) \in SUBSET (Grp \cup {AllGroup})
  BY ListsRead DEF TargetsInv, RunTargetsTypeOK
<1>2. UrlIsSelection /\ NothingUnnamed
  BY DEF TargetsInv
<1>3. ASSUME NEW g \in Grp \cup {AllGroup}, PickGroup(g) PROVE TargetsInv'
  <2>1. ToggleGroup(g) \in Picks /\ Ids(ToggleGroup(g)) \subseteq Ids(picked) \cup {g}
    BY <1>1 DEF ToggleGroup, Toggled, Pick, Picks, Ids
  <2>2. QED
    BY <1>3, <2>1, PickStep DEF PickGroup
<1>4. ASSUME NEW d \in Dev, PickDevice(d) PROVE TargetsInv'
  <2> DEFINE p == Pick(picked.groups, Toggled(picked.devices, d))
  <2>1. p \in Picks /\ Ids(p) \subseteq Ids(picked) \cup {d}
    BY <1>1 DEF Toggled, Pick, Picks, Ids
  <2>2. QED
    BY <1>4, <2>1, PickStep DEF PickDevice
<1>5. ASSUME ClearPicks PROVE TargetsInv'
  <2>1. Nothing \in Picks /\ Ids(Nothing) = {}
    BY DEF Nothing, Pick, Picks, Ids
  <2>2. QED
    BY <1>5, <2>1, PickStep DEF ClearPicks
<1>6. ASSUME GoBack PROVE TargetsInv'
  <2>1. Pick(Grp, Dev) \in Picks /\ Ids(Pick(Grp, Dev)) = Grp \cup Dev
    BY DEF Pick, Picks, Ids
  <2>2. QED
    BY <1>1, <1>6, <2>1, SameLists DEF GoBack
<1>7. ASSUME Reload PROVE TargetsInv'
  <2>1. lists' \in Lists /\ ~Ready(lists') /\ \A l \in DOMAIN lists' : lists'[l] = Pending
    BY <1>7 DEF Reload, NothingRead, Lists, Ready
  <2>2. RunTargetsTypeOK'
    BY <1>1, <1>7, <2>1 DEF Reload, TargetsInv, RunTargetsTypeOK
  <2>3. QED
    BY <1>7, <2>1, <2>2 DEF Reload, TargetsInv, UrlIsSelection, NothingUnnamed
<1>8. ASSUME SaveJobTargets PROVE TargetsInv'
  BY <1>1, <1>2, <1>8, SameLists DEF SaveJobTargets
<1>9. ASSUME AskToRun \/ ConfirmRun \/ DismissRun \/ RunEnded PROVE TargetsInv'
  <2>1. /\ UNCHANGED <<page, inventory, lists, picked, kept, goneBack, edits>>
        /\ {dialog', running'} \subseteq {picked, dialog, running, NoRun}
    BY <1>9 DEF AskToRun, ConfirmRun, Confirmed, DismissRun, RunEnded
  <2>2. QED
    BY <1>1, <1>2, <2>1, SameLists DEF UrlIsSelection, NothingUnnamed
<1>10. CASE UNCHANGED targetVars
  BY <1>1, <1>2, <1>10, SameLists DEF targetVars, UrlIsSelection, NothingUnnamed
<1>11. QED
  BY <1>3, <1>4, <1>5, <1>6, <1>7, <1>8, <1>9, <1>10, EditStep, FetchStep DEF RunTargetsNext

\* With current lists, what a group covers is what it covers in the inventory.
LEMMA ResolvedShown == TargetsInv => ShownAreResolved
<1> SUFFICES ASSUME TargetsInv, Current
             PROVE  ShownPicked = ResolvedTo(picked) \cap inventory.devices
  BY DEF ShownAreResolved
<1>1. /\ inventory.devices \in SUBSET Dev /\ inventory.groups \in SUBSET Grp
      /\ inventory.members \in SUBSET (Dev \X Grp)
      /\ inventory.members \subseteq inventory.devices \X inventory.groups
      /\ picked.groups \in SUBSET (Grp \cup {AllGroup}) /\ picked.devices \in SUBSET Dev
  BY DEF TargetsInv, RunTargetsTypeOK, Picks
<1>2. /\ inventory.devices \notin {Pending, Failed} /\ inventory.groups \notin {Pending, Failed}
      /\ inventory.members \notin {Pending, Failed}
  BY <1>1, RunTargetsAssumption
<1>3. /\ Listed(lists) = inventory.devices /\ Read(lists.members) = inventory.members
      /\ Offered(lists) = inventory.groups \cup IF inventory.devices # {} THEN {AllGroup} ELSE {}
  BY <1>2 DEF Current, Listed, Offered, Read
<1>4. \A g \in picked.groups : Covers(g) =
        {d \in inventory.devices : g = AllGroup \/ <<d, g>> \in inventory.members}
  BY <1>3 DEF Covers
<1>5. ASSUME NEW x \in ShownPicked PROVE x \in ResolvedTo(picked) \cap inventory.devices
  <2>1. CASE x \in picked.devices \cap Listed(lists)
    BY <1>3, <2>1 DEF ResolvedTo
  <2>2. CASE x \in Covered
    <3>1. PICK g \in picked.groups : x \in Covers(g)
      BY <2>2 DEF Covered
    <3>2. QED
      BY <1>1, <1>4, <3>1 DEF ResolvedTo
  <2>3. QED
    BY <1>5, <2>1, <2>2 DEF ShownPicked
<1>6. ASSUME NEW x \in ResolvedTo(picked) \cap inventory.devices PROVE x \in ShownPicked
  <2>1. CASE x \in picked.devices
    BY <1>3, <1>6, <2>1 DEF ShownPicked
  <2>2. CASE AllGroup \in picked.groups
    <3>1. AllGroup \in picked.groups \cap Offered(lists) /\ x \in Covers(AllGroup)
      BY <1>3, <1>4, <1>6, <2>2
    <3>2. QED
      BY <3>1 DEF ShownPicked, Covered
  <2>3. CASE \E g \in picked.groups : <<x, g>> \in inventory.members
    <3>1. PICK g \in picked.groups : <<x, g>> \in inventory.members
      BY <2>3
    <3>2. g \in picked.groups \cap Offered(lists) /\ x \in Covers(g)
      BY <1>1, <1>3, <1>4, <1>6, <3>1
    <3>3. QED
      BY <3>2 DEF ShownPicked, Covered
  <2>4. QED
    BY <1>6, <2>1, <2>2, <2>3 DEF ResolvedTo
<1>7. QED
  BY <1>5, <1>6

\* A pick goes by its own action, by one that takes all, or because it is found nowhere.
LEMMA PickGoes ==
  ASSUME TargetsInv, RunTargetsNext, NEW x \in Ids(picked) \ Ids(picked')
  PROVE  \/ (x \in Dev /\ PickDevice(x)) \/ (x \notin Dev /\ PickGroup(x))
         \/ ClearPicks \/ Reload \/ GoBack
         \/ page = "playbook" /\ Ready(lists') /\ x \notin Offered(lists') \cup Listed(lists')
<1>1. picked \in Picks /\ picked' # picked
  BY DEF TargetsInv, RunTargetsTypeOK
<1>2. ASSUME NEW g \in Grp \cup {AllGroup}, PickGroup(g) PROVE x \notin Dev /\ PickGroup(x)
  <2>1. picked' = Pick(Toggled(picked.groups, g), picked.devices)
    BY <1>2 DEF PickGroup, PickNow, ToggleGroup
  <2>2. x = g
    BY <1>1, <2>1 DEF Toggled, Pick, Picks, Ids
  <2>3. QED
    BY <1>2, <2>2, RunTargetsAssumption
<1>3. ASSUME NEW d \in Dev, PickDevice(d) PROVE x \in Dev /\ PickDevice(x)
  <2>1. picked' = Pick(picked.groups, Toggled(picked.devices, d))
    BY <1>3 DEF PickDevice, PickNow
  <2>2. x = d
    BY <1>1, <2>1 DEF Toggled, Pick, Picks, Ids
  <2>3. QED
    BY <1>3, <2>2
<1>4. ASSUME NEW l \in DOMAIN lists, FetchList(l)
      PROVE  page = "playbook" /\ Ready(lists') /\ x \notin Offered(lists') \cup Listed(lists')
  <2>1. /\ lists' \in Lists /\ page = "playbook" /\ Ready(lists')
        /\ picked' = Pruned(picked, lists')
    BY <1>1, <1>4, FetchStep
  <2>2. QED
    BY <1>1, <2>1, PrunedIs
<1>5. ~(EditInventory \/ SaveJobTargets \/ AskToRun \/ ConfirmRun \/ DismissRun \/ RunEnded)
  BY <1>1 DEF EditInventory, SaveJobTargets, AskToRun, ConfirmRun, DismissRun, RunEnded
<1>6. QED
  BY <1>2, <1>3, <1>4, <1>5 DEF RunTargetsNext

\* A run goes to what its page shows as picked, whichever lists come, fail and change
\* behind it: to the devices shown, once the lists are current, and to what its dialog was opened
\* with.  The page of a playbook shows all it has picked, its URL says the same, and a pick goes
\* only by its user or because it is gone (run-selection.ts, use-run-inventory-selection.ts).
THEOREM TargetsAlwaysTrue ==
  RunTargetsSpec =>
    [](RunTargetsTypeOK /\ ShownAreResolved /\ NothingUnnamed /\ UrlIsSelection)
      /\ SentAsAsked /\ PicksStay
<1>1. RunTargetsSpec => []TargetsInv
  <2>1. RunTargetsInit => TargetsInv
    BY TargetsInit
  <2>2. TargetsInv /\ [RunTargetsNext]_targetVars => TargetsInv'
    BY TargetsStep
  <2>3. QED
    BY <2>1, <2>2, PTL DEF RunTargetsSpec
<1>2. TargetsInv => RunTargetsTypeOK /\ ShownAreResolved /\ NothingUnnamed /\ UrlIsSelection
  BY ResolvedShown DEF TargetsInv
<1> DEFINE Sent == running' # running => running' = NoRun \/ (ConfirmRun /\ running' = dialog)
           Kept == \A x \in Ids(picked) \ Ids(picked') :
                     \/ (x \in Dev /\ PickDevice(x)) \/ (x \notin Dev /\ PickGroup(x))
                     \/ ClearPicks \/ Reload \/ GoBack
                     \/ page = "playbook" /\ Ready(lists') /\ x \notin Offered(lists') \cup Listed(lists')
<1>3. [RunTargetsNext]_targetVars => [Sent]_targetVars
  BY DEF RunTargetsNext, EditInventory, FetchList, PickGroup, PickDevice, PickNow, ClearPicks, GoBack,
         Reload, SaveJobTargets, AskToRun, ConfirmRun, Confirmed, DismissRun, RunEnded
<1>4. TargetsInv /\ [RunTargetsNext]_targetVars => [Kept]_targetVars
  BY PickGoes
<1>5. RunTargetsSpec => [][Sent]_targetVars /\ [][Kept]_targetVars
  BY <1>1, <1>3, <1>4, PTL DEF RunTargetsSpec
<1>6. RunTargetsSpec => SentAsAsked /\ PicksStay
  BY <1>5 DEF SentAsAsked, PicksStay
<1>7. QED
  BY <1>1, <1>2, <1>6, PTL

----------------------------------------------------------------------------
(* RunVariables.                                                           *)

\* An environment is set only with a connection in use.
VariablesInv ==
  /\ RunVariablesTypeOK /\ envsRead \in [Connection -> {"pending", "listed", "failed"}]
  /\ FitsConnection
  /\ ~moved /\ environment # None => EffectiveConnection # None

\* What is in use is what the run sets, or else what the playbook declares.
LEMMA InUse ==
  ASSUME NEW p \in Playbook \cup {None}, NEW k \in [Playbook -> Declares \cup {None}],
         NEW c \in Connection \cup {None}, NEW e \in Environment \cup {None}
  PROVE  /\ Declaration(p, k) \in Declares \cup {None}
         /\ Or(c, "conn", Declaration(p, k)) \in Connection \cup {None}
         /\ Or(e, "env", Declaration(p, k)) \in Environment \cup {None}
         /\ c # None => Or(c, "conn", Declaration(p, k)) = c
<1>1. Declaration(p, k) \in Declares \cup {None}
  BY DEF Declaration
<1>2. Declaration(p, k) # None =>
        Declaration(p, k).conn \in Connection \cup {None} /\ Declaration(p, k).env \in Environment \cup {None}
  BY <1>1, RunVariablesAssumption
<1>3. QED
  BY <1>1, <1>2 DEF Or

\* The fields, once the first environment of the connection in use has been put in, if there
\* was none.
LEMMA SetsIs ==
  ASSUME NEW p \in Playbook \cup {None}, NEW k \in [Playbook -> Declares \cup {None}],
         NEW c \in Connection \cup {None}, NEW e \in Environment \cup {None},
         NEW eOf \in Connection \cup {None}, NEW read \in [Connection -> {"pending", "listed", "failed"}],
         Sets(p, k, c, e, eOf, read)
  PROVE  /\ playbook' = p /\ known' = k /\ connection' = c /\ envsRead' = read
         /\ EffectiveConnection' = Or(c, "conn", Declaration(p, k))
         /\ environment' \in Environment \cup {None} /\ envOf' \in Connection \cup {None}
         /\ \/ environment' = e /\ envOf' = eOf
            \/ envOf' = EffectiveConnection' /\ envOf' # None
<1>1. PICK used : used = Or(c, "conn", Declaration(p, k))
  OBVIOUS
<1>2. PICK empty \in BOOLEAN : empty =
        (used # None /\ Or(e, "env", Declaration(p, k)) = None /\ read[used] = "listed" /\ EnvsOf[used] # <<>>)
  OBVIOUS
<1>3. /\ playbook' = p /\ known' = k /\ connection' = c /\ envsRead' = read
      /\ environment' = (IF empty THEN Head(EnvsOf[used]) ELSE e)
      /\ envOf' = (IF empty THEN used ELSE eOf)
  BY <1>1, <1>2 DEF Sets
<1>4. EffectiveConnection' = used
  BY <1>1, <1>3 DEF EffectiveConnection, Declaration, Or
<1>5. used \in Connection \cup {None}
  BY <1>1, InUse
<1>6. empty => Head(EnvsOf[used]) \in Environment
  <2>1. empty => EnvsOf[used] \in Seq(Environment) /\ EnvsOf[used] # <<>>
    BY <1>2, <1>5, RunVariablesAssumption
  <2>2. QED
    BY <2>1
<1>7. QED
  BY <1>1, <1>2, <1>3, <1>4, <1>5, <1>6

\* The elements of a finite set of numbers, counted from the least.
LEMMA Nth ==
  ASSUME NEW n \in Nat, NEW L \in SUBSET (1 .. n), NEW k \in 1 .. Cardinality(L)
  PROVE  /\ IsFiniteSet(L) /\ Cardinality(L) \in Nat /\ Cardinality(L) <= n
         /\ \E i \in L : Cardinality({j \in L : j <= i}) = k
<1> DEFINE Upto(i) == {j \in L : j <= i}
           K == {i \in Nat : Cardinality(Upto(i)) >= k}
<1>1. \A j \in L : j \in Nat /\ 1 <= j /\ j <= n
  OBVIOUS
<1>2. IsFiniteSet(1 .. n) /\ Cardinality(1 .. n) = n
  BY FS_Interval
<1>3. IsFiniteSet(L) /\ Cardinality(L) <= n /\ Cardinality(L) \in Nat
  BY <1>2, FS_Subset, FS_CardinalityType
<1>4. k \in Nat /\ k >= 1
  BY <1>3
<1>5. \A i \in Nat : IsFiniteSet(Upto(i)) /\ Cardinality(Upto(i)) \in Nat
  BY <1>3, FS_Subset, FS_CardinalityType
<1>6. n \in K
  <2>1. Upto(n) = L
    BY <1>1
  <2>2. QED
    BY <1>3, <2>1
<1>7. PICK i \in K : \A j \in K : i <= j
  BY <1>6, LeastOf
<1>8. i # 0
  <2>1. Upto(0) = {}
    <3>1. ASSUME NEW j \in L, j <= 0 PROVE FALSE
      BY <1>1, <3>1
    <3>2. QED
      BY <3>1
  <2>2. Cardinality(Upto(0)) = 0
    BY <2>1, FS_EmptySet
  <2>3. QED
    BY <2>2
<1>9. Cardinality(Upto(i - 1)) < k /\ Cardinality(Upto(i)) >= k /\ i - 1 \in Nat
  <2>1. i \in Nat /\ i - 1 \in Nat /\ ~(i <= i - 1) /\ Cardinality(Upto(i)) >= k
    BY <1>7, <1>8
  <2>2. i - 1 \notin K
    BY <1>7, <2>1
  <2>3. Cardinality(Upto(i - 1)) \in Nat
    BY <1>5, <2>1
  <2>4. QED
    BY <1>4, <2>1, <2>2, <2>3
<1>10. \A j \in L : j <= i <=> j <= i - 1 \/ j = i
  <2>1. ASSUME NEW j \in L PROVE j <= i <=> j <= i - 1 \/ j = i
    <3>1. j \in Nat /\ i \in Nat
      BY <1>1
    <3>2. QED
      BY <3>1
  <2>2. QED
    BY <2>1
<1>11. i \in L
  <2>1. SUFFICES ASSUME i \notin L PROVE FALSE
    OBVIOUS
  <2>2. Upto(i) = Upto(i - 1)
    BY <1>10, <2>1
  <2>3. QED
    BY <1>5, <1>9, <2>2
<1>12. Cardinality(Upto(i)) = Cardinality(Upto(i - 1)) + 1
  <2>1. Upto(i) = Upto(i - 1) \cup {i}
    BY <1>10, <1>11
  <2>2. i \notin Upto(i - 1)
    BY <1>9
  <2>3. QED
    BY <1>5, <1>9, <2>1, <2>2, FS_AddElement
<1>13. Cardinality(Upto(i)) = k
  <2>1. Cardinality(Upto(i - 1)) \in Nat
    BY <1>5, <1>9
  <2>2. QED
    BY <1>4, <1>9, <1>12, <2>1
<1>14. QED
  BY <1>3, <1>11, <1>13

\* What is left of the rows are rows, no more than there were.
LEMMA WithoutIs ==
  ASSUME rows \in Seq(VariableRow), NEW S
  PROVE  /\ Without(S) \in Seq(VariableRow) /\ Len(Without(S)) <= Len(rows)
         /\ \A k \in 1 .. Len(Without(S)) : \E i \in DOMAIN rows : Without(S)[k] = rows[i]
<1> DEFINE left == DOMAIN rows \ S
           At(k) == CHOOSE i \in left : Cardinality({j \in left : j <= i}) = k
<1>1. Len(rows) \in Nat /\ DOMAIN rows = 1 .. Len(rows) /\ left \in SUBSET (1 .. Len(rows))
  OBVIOUS
<1>2. IsFiniteSet(left) /\ Cardinality(left) \in Nat /\ Cardinality(left) <= Len(rows)
  <2>1. PICK n \in Nat : n = Len(rows)
    BY <1>1
  <2>2. IsFiniteSet(1 .. n) /\ Cardinality(1 .. n) = n
    BY FS_Interval
  <2>3. QED
    BY <1>1, <2>1, <2>2, FS_Subset, FS_CardinalityType
<1>3. ASSUME NEW k \in 1 .. Cardinality(left) PROVE At(k) \in left
  <2>1. \E i \in left : Cardinality({j \in left : j <= i}) = k
    BY <1>1, Nth
  <2>2. QED
    BY <2>1
<1>4. Without(S) = [k \in 1 .. Cardinality(left) |-> rows[At(k)]]
  BY DEF Without
<1>5. ASSUME NEW k \in 1 .. Cardinality(left) PROVE rows[At(k)] \in VariableRow
  <2>1. At(k) \in 1 .. Len(rows)
    BY <1>1, <1>3
  <2>2. QED
    BY <2>1
<1>6. Without(S) \in Seq(VariableRow) /\ Len(Without(S)) = Cardinality(left)
  <2> HIDE DEF At, left
  <2> QED
    BY <1>2, <1>4, <1>5
<1>7. \A k \in 1 .. Cardinality(left) : Without(S)[k] = rows[At(k)] /\ At(k) \in DOMAIN rows
  BY <1>3, <1>4
<1>8. QED
  <2> HIDE DEF At
  <2> QED
    BY <1>2, <1>6, <1>7

\* What the invariant says of the kinds of its parts.
LEMMA VariablesTypes ==
  ASSUME VariablesInv
  PROVE  /\ playbook \in Playbook \cup {None} /\ onJob \in BOOLEAN /\ moved \in BOOLEAN
         /\ declared \in [Playbook -> Declares] /\ known \in [Playbook -> Declares \cup {None}]
         /\ connection \in Connection \cup {None} /\ environment \in Environment \cup {None}
         /\ rows \in Seq(VariableRow) /\ Len(rows) <= MaxRows
         /\ envsRead \in [Connection -> {"pending", "listed", "failed"}]
         /\ envOf \in Connection \cup {None}
         /\ EffectiveConnection \in Connection \cup {None}
         /\ EffectiveEnvironment \in Environment \cup {None}
         /\ connection # None => EffectiveConnection = connection
  BY InUse DEF VariablesInv, RunVariablesTypeOK, EffectiveConnection, EffectiveEnvironment

\* A form begins with the rows its job stored, which were chosen elsewhere.
LEMMA VariablesInit == RunVariablesInit => VariablesInv
<1> SUFFICES ASSUME RunVariablesInit PROVE VariablesInv
  OBVIOUS
<1>1. rows \in Seq(VariableRow) /\ Len(rows) <= MaxRows
  <2>1. CASE rows = <<>>
    BY <2>1, RunVariablesAssumption
  <2>2. CASE \E n \in Name, s \in Secret : rows = <<SecretRow(n, s)>>
    <3>1. \A n \in Name, s \in Secret : SecretRow(n, s) \in VariableRow
      BY DEF SecretRow, VariableRow
    <3>2. QED
      BY <2>2, <3>1, RunVariablesAssumption
  <2>3. QED
    BY <2>1, <2>2 DEF RunVariablesInit
<1>2. moved \in BOOLEAN /\ (HasSecrets(rows) => moved)
  BY DEF RunVariablesInit, HasSecrets
<1>3. RunVariablesTypeOK /\ envsRead \in [Connection -> {"pending", "listed", "failed"}]
  BY <1>1, <1>2 DEF RunVariablesInit, RunVariablesTypeOK
<1>4. environment = None
  BY DEF RunVariablesInit
<1>5. QED
  BY <1>2, <1>3, <1>4 DEF VariablesInv, FitsConnection

\* The settings change, and the rows at most lose their secrets.
LEMMA SetsStep ==
  ASSUME VariablesInv, NEW p \in Playbook \cup {None}, NEW k \in [Playbook -> Declares \cup {None}],
         NEW c \in Connection \cup {None}, NEW e \in Environment \cup {None},
         NEW eOf \in Connection \cup {None}, NEW read \in [Connection -> {"pending", "listed", "failed"}],
         Sets(p, k, c, e, eOf, read), UNCHANGED <<onJob, declared>>,
         rows' \in Seq(VariableRow), Len(rows') <= MaxRows, moved' \in BOOLEAN,
         ~moved' /\ e # None =>
           eOf = Or(c, "conn", Declaration(p, k)) /\ Or(c, "conn", Declaration(p, k)) # None,
         ~moved' /\ HasSecrets(rows') => Or(c, "conn", Declaration(p, k)) # None
  PROVE  VariablesInv'
<1>1. /\ playbook' = p /\ known' = k /\ connection' = c /\ envsRead' = read
      /\ EffectiveConnection' = Or(c, "conn", Declaration(p, k))
      /\ environment' \in Environment \cup {None} /\ envOf' \in Connection \cup {None}
      /\ \/ environment' = e /\ envOf' = eOf
         \/ envOf' = EffectiveConnection' /\ envOf' # None
  BY SetsIs
<1>2. RunVariablesTypeOK'
  BY <1>1, VariablesTypes DEF RunVariablesTypeOK
<1>3. FitsConnection' /\ (~moved' /\ environment' # None => EffectiveConnection' # None)
  BY <1>1 DEF FitsConnection
<1>4. QED
  BY <1>1, <1>2, <1>3 DEF VariablesInv

\* Secrets are added to the rows only with a connection in use.
LEMMA RowStep ==
  ASSUME VariablesInv, NEW rs \in Seq(VariableRow), PutRows(rs),
         HasSecrets(rs) => HasSecrets(rows) \/ EffectiveConnection # None
  PROVE  VariablesInv'
<1>1. /\ Len(rs) <= MaxRows /\ rows' = rs
      /\ UNCHANGED <<onJob, playbook, declared, known, connection, environment, envsRead, envOf, moved>>
  BY DEF PutRows
<1>2. RunVariablesTypeOK' /\ envsRead' \in [Connection -> {"pending", "listed", "failed"}]
  BY <1>1, VariablesTypes DEF RunVariablesTypeOK
<1>3. EffectiveConnection' = EffectiveConnection
  BY <1>1 DEF EffectiveConnection, Declaration
<1>4. QED
  BY <1>1, <1>2, <1>3 DEF VariablesInv, FitsConnection

\* One row of the user's own is edited.
LEMMA EditRowStep ==
  ASSUME VariablesInv, NEW i \in DOMAIN rows, NEW row \in VariableRow, EditRow(i, row),
         row.kind = "secret" => rows[i].kind = "secret" \/ EffectiveConnection # None
  PROVE  VariablesInv'
<1>1. rows \in Seq(VariableRow)
  BY VariablesTypes
<1>2. PICK rs : rs = [rows EXCEPT ![i] = row]
  OBVIOUS
<1>3. rs \in Seq(VariableRow) /\ DOMAIN rs = DOMAIN rows
      /\ rs[i] = row /\ \A j \in DOMAIN rows \ {i} : rs[j] = rows[j]
  BY <1>1, <1>2
<1>4. HasSecrets(rs) => HasSecrets(rows) \/ EffectiveConnection # None
  BY <1>3 DEF HasSecrets
<1>5. PutRows(rs)
  BY <1>2 DEF EditRow
<1>6. QED
  BY <1>3, <1>4, <1>5, RowStep

\* A row is appended to what was left of the rows.
LEMMA AppendStep ==
  ASSUME VariablesInv, NEW rs \in Seq(VariableRow), NEW row \in VariableRow,
         PutRows(rs) \/ PutRows(Append(rs, row)),
         \A k \in 1 .. Len(rs) : \E i \in DOMAIN rows : rs[k] = rows[i],
         row.kind = "secret" => EffectiveConnection # None
  PROVE  VariablesInv'
<1>1. HasSecrets(rs) => HasSecrets(rows)
  BY DEF HasSecrets
<1>2. PICK both : both = Append(rs, row)
  OBVIOUS
<1>3. /\ both \in Seq(VariableRow) /\ Len(both) = Len(rs) + 1 /\ both[Len(rs) + 1] = row
      /\ \A k \in 1 .. Len(rs) : both[k] = rs[k]
  BY <1>2
<1>4. HasSecrets(both) => HasSecrets(rs) \/ row.kind = "secret"
  BY <1>3 DEF HasSecrets
<1>5. QED
  BY <1>1, <1>2, <1>3, <1>4, RowStep

LEMMA VariablesStep == VariablesInv /\ [RunVariablesNext]_variableVars => VariablesInv'
<1> SUFFICES ASSUME VariablesInv, [RunVariablesNext]_variableVars PROVE VariablesInv'
  OBVIOUS
<1> USE VariablesTypes
<1>1. /\ ~moved /\ environment # None => envOf = EffectiveConnection /\ EffectiveConnection # None
      /\ ~moved /\ HasSecrets(rows) => EffectiveConnection # None
  BY DEF VariablesInv, FitsConnection
<1>2. EffectiveConnection = Or(connection, "conn", Declaration(playbook, known))
  BY DEF EffectiveConnection
<1>3. ASSUME NEW c \in Connection, ListEnvironments(c) PROVE VariablesInv'
  <2>1. PICK l \in {"listed", "failed"} :
          Sets(playbook, known, connection, environment, envOf, [envsRead EXCEPT ![c] = l])
    BY <1>3 DEF ListEnvironments
  <2>2. PICK read : read = [envsRead EXCEPT ![c] = l]
    OBVIOUS
  <2>3. read \in [Connection -> {"pending", "listed", "failed"}]
    BY <2>2
  <2>4. UNCHANGED <<onJob, declared, rows, moved>>
    BY <1>3 DEF ListEnvironments
  <2>5. QED
    BY <1>1, <1>2, <2>1, <2>2, <2>3, <2>4, SetsStep
<1>4. ASSUME NEW p \in Playbook \cup {None}, ChoosePlaybook(p) PROVE VariablesInv'
  <2>1. /\ Sets(p, known, connection, environment, envOf, envsRead)
        /\ UNCHANGED <<onJob, declared, rows>> /\ moved' = (moved \/ environment # None \/ HasSecrets(rows))
    BY <1>4 DEF ChoosePlaybook, Moved
  <2>2. moved' \in BOOLEAN /\ (~moved' => environment = None /\ ~HasSecrets(rows'))
    BY <2>1
  <2>3. QED
    BY <2>1, <2>2, SetsStep
<1>5. ASSUME NEW p \in Playbook, ReadDeclaration(p) PROVE VariablesInv'
  <2>1. PICK k : k = [known EXCEPT ![p] = declared[p]]
    OBVIOUS
  <2>2. /\ p = playbook /\ Sets(playbook, k, connection, environment, envOf, envsRead)
        /\ UNCHANGED <<onJob, declared, rows>>
        /\ moved' = (IF known[p] \in {None, declared[p]} THEN moved
                     ELSE moved \/ environment # None \/ HasSecrets(rows))
    BY <1>5, <2>1 DEF ReadDeclaration, Moved
  <2>3. k \in [Playbook -> Declares \cup {None}] /\ k[p] = declared[p] /\ p # None
    BY <2>1, RunVariablesAssumption
  <2>4. CASE known[p] = declared[p]
    <3>1. k = known
      BY <2>1, <2>4
    <3>2. QED
      BY <1>1, <1>2, <2>2, <2>4, <3>1, SetsStep
  <2>5. CASE known[p] = None
    <3>1. EffectiveConnection = connection
      BY <1>2, <2>2, <2>3, <2>5 DEF Declaration, Or
    <3>2. connection # None => Or(connection, "conn", Declaration(playbook, k)) = connection
      BY DEF Or
    <3>3. moved' = moved
      BY <2>2, <2>5
    <3>4. PICK used : used = Or(connection, "conn", Declaration(playbook, k))
      OBVIOUS
    <3>5. /\ ~moved' /\ environment # None => envOf = used /\ used # None
          /\ ~moved' /\ HasSecrets(rows') => used # None
      BY <1>1, <2>2, <3>1, <3>2, <3>3, <3>4
    <3>6. QED
      BY <2>2, <2>3, <3>3, <3>4, <3>5, SetsStep
  <2>6. CASE known[p] \notin {None, declared[p]}
    <3>1. moved' \in BOOLEAN /\ (~moved' => environment = None /\ ~HasSecrets(rows'))
      BY <2>2, <2>6
    <3>2. QED
      BY <2>2, <2>3, <3>1, SetsStep
  <2>7. QED
    BY <2>4, <2>5, <2>6
<1>6. ASSUME NEW p \in Playbook, NEW d \in Declares, Redeclare(p, d) PROVE VariablesInv'
  <2>1. /\ UNCHANGED <<onJob, playbook, known, connection, environment, envsRead, rows, envOf, moved>>
        /\ declared' \in [Playbook -> Declares]
    BY <1>6 DEF Redeclare
  <2>2. EffectiveConnection' = EffectiveConnection
    BY <2>1 DEF EffectiveConnection, Declaration
  <2>3. QED
    BY <1>1, <2>1, <2>2 DEF VariablesInv, RunVariablesTypeOK, FitsConnection
<1>7. ASSUME NEW c \in Connection \cup {None}, ChooseConnection(c) PROVE VariablesInv'
  <2> DEFINE without == c = None /\ Or(None, "conn", Declaration(playbook, known)) = None
  <2>1. /\ c = None => without
        /\ rows' = IF without THEN ToText(rows) ELSE rows
        /\ Sets(playbook, known, c, None, None, envsRead)
        /\ moved' = FALSE /\ UNCHANGED <<onJob, declared>>
    BY <1>7 DEF ChooseConnection, SlugKept
  <2>2. /\ ToText(rows) \in Seq(VariableRow) /\ Len(ToText(rows)) = Len(rows)
        /\ ~HasSecrets(ToText(rows))
    <3>1. DOMAIN rows = 1 .. Len(rows) /\ Len(rows) \in Nat /\ \A i \in 1 .. Len(rows) : rows[i] \in VariableRow
      OBVIOUS
    <3>2. \A i \in 1 .. Len(rows) : [rows[i] EXCEPT !.kind = "text"] \in VariableRow
      BY <3>1 DEF VariableRow
    <3>3. ToText(rows) = [i \in 1 .. Len(rows) |-> [rows[i] EXCEPT !.kind = "text"]]
      BY <3>1 DEF ToText
    <3>4. ToText(rows) \in Seq(VariableRow) /\ Len(ToText(rows)) = Len(rows)
      BY <3>1, <3>2, <3>3
    <3>5. \A i \in 1 .. Len(rows) : ToText(rows)[i].kind = "text"
      BY <3>1, <3>3 DEF VariableRow
    <3>6. QED
      BY <3>3, <3>4, <3>5 DEF HasSecrets
  <2>3. /\ rows' \in Seq(VariableRow) /\ Len(rows') <= MaxRows
        /\ HasSecrets(rows') => Or(c, "conn", Declaration(playbook, known)) # None
    BY <2>1, <2>2, InUse
  <2>4. QED
    BY <2>1, <2>3, SetsStep
<1>8. ASSUME NEW e \in Environment, ChooseEnvironment(e) PROVE VariablesInv'
  <2>1. /\ EffectiveConnection # None /\ environment' = e /\ envOf' = EffectiveConnection
        /\ UNCHANGED <<onJob, playbook, declared, known, connection, envsRead, rows, moved>>
    BY <1>8 DEF ChooseEnvironment
  <2>2. EffectiveConnection' = EffectiveConnection
    BY <2>1 DEF EffectiveConnection, Declaration
  <2>3. QED
    BY <2>1, <2>2 DEF VariablesInv, RunVariablesTypeOK, FitsConnection
<1>9. ASSUME AddRow \/ \E n \in Name : OverrideDetected(n) PROVE VariablesInv'
  <2>1. PICK n \in Name \cup {None} : PutRows(Append(rows, TextRow(n)))
    BY <1>9 DEF AddRow, OverrideDetected
  <2>2. TextRow(n) \in VariableRow /\ TextRow(n).kind = "text"
    BY DEF TextRow, VariableRow
  <2>3. \A k \in 1 .. Len(rows) : \E i \in DOMAIN rows : rows[k] = rows[i]
    OBVIOUS
  <2>4. QED
    BY <2>1, <2>2, <2>3, AppendStep
<1>10. ASSUME NEW i \in DOMAIN rows, RemoveRow(i) PROVE VariablesInv'
  <2>1. PutRows(Without({i}))
    BY <1>10 DEF RemoveRow
  <2>2. TextRow(None) \in VariableRow /\ TextRow(None).kind = "text"
    BY DEF TextRow, VariableRow
  <2>3. QED
    BY <2>1, <2>2, WithoutIs, AppendStep
<1>11. ASSUME NEW i \in DOMAIN rows,
              \/ \E n \in Name \cup {None} : NameRow(i, n)
              \/ \E k \in {"text", "secret"} : ChooseKind(i, k)
              \/ \E f \in BOOLEAN : TypeValue(i, f)
              \/ \E s \in Secret : ChooseSecret(i, s)
       PROVE  VariablesInv'
  <2>1. rows[i] \in VariableRow
    OBVIOUS
  <2>2. CASE \E n \in Name \cup {None} : NameRow(i, n)
    <3>1. PICK n \in Name \cup {None} : EditRow(i, [rows[i] EXCEPT !.name = n])
      BY <2>2 DEF NameRow
    <3>2. /\ [rows[i] EXCEPT !.name = n] \in VariableRow
          /\ [rows[i] EXCEPT !.name = n].kind = rows[i].kind
      BY <2>1 DEF VariableRow
    <3>3. QED
      BY <3>1, <3>2, EditRowStep
  <2>3. CASE \E k \in {"text", "secret"} : ChooseKind(i, k)
    <3>1. PICK k \in {"text", "secret"} : EditRow(i, [rows[i] EXCEPT !.kind = k])
      BY <2>3 DEF ChooseKind
    <3>2. [rows[i] EXCEPT !.kind = k] \in VariableRow /\ EffectiveConnection # None
      BY <2>1, <2>3 DEF VariableRow, ChooseKind
    <3>3. QED
      BY <3>1, <3>2, EditRowStep
  <2>4. CASE \E f \in BOOLEAN : TypeValue(i, f)
    <3>1. PICK f \in BOOLEAN : EditRow(i, [rows[i] EXCEPT !.fits = f])
      BY <2>4 DEF TypeValue
    <3>2. /\ [rows[i] EXCEPT !.fits = f] \in VariableRow
          /\ [rows[i] EXCEPT !.fits = f].kind = rows[i].kind
      BY <2>1 DEF VariableRow
    <3>3. QED
      BY <3>1, <3>2, EditRowStep
  <2>5. CASE \E s \in Secret : ChooseSecret(i, s)
    <3>1. PICK s \in Secret : /\ EffectiveConnection # None
                              /\ EditRow(i, [rows[i] EXCEPT !.secret = s, !.name = IF @ = None THEN NameFor[s] ELSE @])
      BY <2>5 DEF ChooseSecret, ShownAsValue
    <3>2. NameFor[s] \in Name
      BY RunVariablesAssumption
    <3>3. [rows[i] EXCEPT !.secret = s, !.name = IF @ = None THEN NameFor[s] ELSE @] \in VariableRow
      BY <2>1, <3>2 DEF VariableRow
    <3>4. QED
      BY <3>1, <3>3, EditRowStep
  <2>6. QED
    BY <1>11, <2>2, <2>3, <2>4, <2>5
<1>12. ASSUME NEW n \in Name, NEW s \in Secret, ChooseDeclared(n, s) PROVE VariablesInv'
  <2>1. /\ EffectiveConnection # None
        /\ \/ PutRows(Without(Overrides(n)))
           \/ PutRows(Append(Without(Overrides(n)), SecretRow(n, s)))
    BY <1>12 DEF ChooseDeclared, Overridden
  <2>2. SecretRow(n, s) \in VariableRow
    BY DEF SecretRow, VariableRow
  <2>3. QED
    BY <2>1, <2>2, WithoutIs, AppendStep
<1>13. CASE UNCHANGED variableVars
  <2>1. EffectiveConnection' = EffectiveConnection
    BY <1>13 DEF variableVars, EffectiveConnection, Declaration
  <2>2. QED
    BY <1>1, <1>13, <2>1 DEF variableVars, VariablesInv, RunVariablesTypeOK, FitsConnection
<1>14. QED
  BY <1>3, <1>4, <1>5, <1>6, <1>7, <1>8, <1>9, <1>10, <1>11, <1>12, <1>13 DEF RunVariablesNext

\* A form that is sent and accepted has one secret row at most for each name.
LEMMA OneSecretRow ==
  ASSUME RunVariablesTypeOK, IsSent, Runs.ok, NEW i \in DOMAIN rows,
         rows[i].kind = "secret", rows[i].name # None
  PROVE  /\ rows[i].secret # None /\ Runs.reads[rows[i].name] = rows[i].secret
         /\ \A j \in DOMAIN rows : rows[j].kind = "secret" /\ rows[j].name = rows[i].name => j = i
<1>1. i \in SentSecrets
  BY DEF SentSecrets, Named, IsSent, Incomplete
<1>2. \A j \in DOMAIN rows : rows[j].kind = "secret" /\ rows[j].name = rows[i].name => j \in SentSecrets
  BY DEF SentSecrets, Named, IsSent, Incomplete
<1>3. \A j, k \in SentSecrets : rows[j].name = rows[k].name => j = k
  BY DEF Runs
<1>4. rows[i].secret # None
  BY <1>1 DEF SentSecrets
<1>5. rows[i] \in VariableRow
  BY DEF RunVariablesTypeOK
<1>6. rows[i].name \in Name
  BY <1>5 DEF VariableRow
<1>7. PICK n \in Name : n = rows[i].name
  BY <1>6
<1>8. {j \in SentSecrets : rows[j].name = n} = {i}
  BY <1>1, <1>3, <1>7
<1>9. (CHOOSE j \in {i} : TRUE) = i
  OBVIOUS
<1>10. Runs.reads[n] = rows[i].secret
  BY <1>4, <1>8, <1>9 DEF Runs, Merged
<1>11. QED
  BY <1>1, <1>2, <1>3, <1>4, <1>7, <1>10

\* What a declared row shows is read.
LEMMA DeclaredRead == VariablesInv => DeclaredIsRead
<1> SUFFICES ASSUME VariablesInv, IsSent, Runs.ok,
                    Declaration(playbook, known) = Declaration(playbook, declared),
                    NEW n \in Name, DeclaredSecret(n) # None
             PROVE  Runs.reads[n] = ShownSecret(n)
  BY DEF DeclaredIsRead
<1>1. RunVariablesTypeOK /\ n # None
  BY RunVariablesAssumption DEF VariablesInv
<1>2. CASE Overrides(n) = {}
  <2>1. {i \in SentSecrets : rows[i].name = n} = {}
    BY <1>2 DEF SentSecrets, Named, Overrides
  <2>2. Runs.reads[n] = DeclaredSecret(n)
    BY <2>1 DEF Runs, Merged, DeclaredSecret
  <2>3. QED
    BY <1>2, <2>2 DEF ShownSecret
<1>3. CASE Overrides(n) # {}
  <2>1. PICK i \in Overrides(n) : TRUE
    BY <1>3
  <2>2. /\ i \in DOMAIN rows /\ rows[i].kind = "secret" /\ rows[i].name = n
        /\ rows \in Seq(VariableRow)
    BY <1>1, <2>1 DEF Overrides, RunVariablesTypeOK
  <2>3. Overrides(n) = {i} /\ i \in Nat /\ Runs.reads[n] = rows[i].secret
    BY <1>1, <2>2, OneSecretRow DEF Overrides
  <2>4. (CHOOSE k \in Overrides(n) : \A j \in Overrides(n) : j <= k) = i
    BY <2>3
  <2>5. QED
    BY <1>3, <2>3, <2>4 DEF ShownSecret
<1>4. QED
  BY <1>2, <1>3

\* The last row of a name.
LEMMA LastRow ==
  ASSUME RunVariablesTypeOK, NEW i \in Named("text")
  PROVE  ValueRow(rows[i].name) >= i /\ ValueRow(rows[i].name) # 0
<1> DEFINE same == {j \in Named("text") : rows[j].name = rows[i].name}
           K == {Len(rows) - j : j \in same}
<1>1. Len(rows) \in Nat /\ DOMAIN rows = 1 .. Len(rows)
  BY DEF RunVariablesTypeOK
<1>2. \A j \in same : j \in Nat /\ 1 <= j /\ j <= Len(rows)
  BY <1>1 DEF Named
<1>3. ASSUME NEW j \in same PROVE Len(rows) - j \in Nat
  <2>1. j \in Nat /\ j <= Len(rows)
    BY <1>2
  <2>2. QED
    BY <1>1, <2>1
<1>4. K \in SUBSET Nat /\ K # {}
  BY <1>3
<1>5. PICK k \in K : \A j \in K : k <= j
  BY <1>4, LeastOf
<1>6. PICK last \in same : k = Len(rows) - last
  BY <1>5
<1>7. ASSUME NEW j \in same PROVE j <= last
  <2>1. k <= Len(rows) - j
    BY <1>5
  <2>2. j \in Nat /\ last \in Nat
    BY <1>2
  <2>3. QED
    BY <1>1, <1>6, <2>1, <2>2
<1>8. \E j \in same : \A m \in same : m <= j
  BY <1>7
<1>9. PICK v : v = CHOOSE j \in same : \A m \in same : m <= j
  OBVIOUS
<1>10. v \in same /\ \A m \in same : m <= v
  BY <1>8, <1>9
<1>11. ValueRow(rows[i].name) = v
  BY <1>9 DEF ValueRow
<1>12. i <= v /\ v \in Nat /\ 1 <= v /\ i \in Nat
  BY <1>2, <1>10
<1>13. QED
  BY <1>11, <1>12

\* A row of the user's own is what the run gets.
LEMMA OwnSent == VariablesInv => OwnIsSent
<1> SUFFICES ASSUME VariablesInv, IsSent, Runs.ok, NEW i \in Own, rows[i].name # None
             PROVE  IF rows[i].kind = "secret"
                    THEN Runs.reads[rows[i].name] = rows[i].secret /\ rows[i].secret # None
                    ELSE ValueRow(rows[i].name) >= i /\ Runs.reads[rows[i].name] = None
  BY DEF OwnIsSent
<1>1. RunVariablesTypeOK /\ i \in DOMAIN rows
  BY DEF VariablesInv, Own
<1>2. CASE rows[i].kind = "secret"
  BY <1>1, <1>2, OneSecretRow
<1>3. CASE rows[i].kind # "secret"
  <2>1. rows[i] \in VariableRow
    BY <1>1 DEF RunVariablesTypeOK
  <2>2. i \in Named("text") /\ rows[i].name \in Name
    BY <1>1, <1>3, <2>1 DEF Named, VariableRow
  <2>3. ValueRow(rows[i].name) >= i /\ ValueRow(rows[i].name) # 0
    BY <1>1, <2>2, LastRow
  <2>4. PICK n \in Name : n = rows[i].name
    BY <2>2
  <2>5. Runs.reads[n] = None
    BY <2>3, <2>4 DEF Runs
  <2>6. QED
    BY <1>3, <2>3, <2>4, <2>5
<1>4. QED
  BY <1>2, <1>3

\* A run that is accepted reads, for each variable its playbook declares, the secret that its row
\* shows, and gets of every other named row its secret or its value; the environment it
\* sets is one of the connection it uses, unless another declaration came since
\* (run-variables.ts, run-variables-fields.tsx).
THEOREM VariablesAlwaysFit ==
  RunVariablesSpec => [](RunVariablesTypeOK /\ DeclaredIsRead /\ OwnIsSent /\ FitsConnection)
<1>1. RunVariablesInit => VariablesInv
  BY VariablesInit
<1>2. VariablesInv /\ [RunVariablesNext]_variableVars => VariablesInv'
  BY VariablesStep
<1>3. VariablesInv => RunVariablesTypeOK /\ DeclaredIsRead /\ OwnIsSent /\ FitsConnection
  BY DeclaredRead, OwnSent DEF VariablesInv
<1>4. QED
  BY <1>1, <1>2, <1>3, PTL DEF RunVariablesSpec

----------------------------------------------------------------------------

\* The pages that start and show a run tell the truth together, whatever each of them does
\* meanwhile.
THEOREM PagesAlwaysTrue ==
  RunPageSpec /\ RunTargetsSpec /\ RunVariablesSpec => PagesAreTrue
<1>1. RunPageSpec => []RunIsShown /\ []NewestIsFollowed /\ ReviewStays
  BY PageAlwaysTrue, PTL
<1>2. RunTargetsSpec =>
        []ShownAreResolved /\ []NothingUnnamed /\ []UrlIsSelection /\ SentAsAsked /\ PicksStay
  BY TargetsAlwaysTrue, PTL
<1>3. RunVariablesSpec => []DeclaredIsRead /\ []OwnIsSent /\ []FitsConnection
  BY VariablesAlwaysFit, PTL
<1>4. QED
  BY <1>1, <1>2, <1>3, PTL DEF PagesAreTrue
=============================================================================
