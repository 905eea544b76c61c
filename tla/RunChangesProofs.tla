-------------------------- MODULE RunChangesProofs --------------------------
(***************************************************************************)
(* RunChangesInv is an inductive invariant of RunChanges for any number of *)
(* changes, streams, losses and visits.  Its core is NothingForgotten: the *)
(* step lemmas show, action by action, that what loses one way for a       *)
(* change to reach the view opens another.                                 *)
(***************************************************************************)
EXTENDS RunChanges, SequenceTheorems, TLAPS

USE RunChangesAssumption
USE DEF serverVars, feedVars, hookVars, viewVars

\* What a queue contains, it contains after an append, and so it does its new
\* message.
LEMMA ContainsAppend ==
  ASSUME NEW S, NEW q \in Seq(S), NEW e \in S
  PROVE  /\ Contains(Append(q, e), e)
         /\ \A d : Contains(q, d) => Contains(Append(q, e), d)
  BY AppendProperties, LenProperties DEF Contains

\* The head and the rest of a queue are messages.
LEMMA HeadTail ==
  ASSUME NEW S, NEW q \in Seq(S), q # <<>>
  PROVE  Head(q) \in S /\ Tail(q) \in Seq(S)
  BY HeadTailProperties, EmptySeq

\* A commit adds its change to the pending ones.
LEMMA CommitStep ==
  ASSUME RunChangesInv, NEW c \in Change, Commit(c)
  PROVE  RunChangesInv'
  <1> USE DEF RunChangesInv
  <1>1. TypeOK'
    BY DEF TypeOK, Commit, MakeAll, TooEarly
  <1>2. StreamInv'
    BY DEF TypeOK, StreamInv, StoppedIsFinal, Commit, MakeAll, TooEarly
  <1>3. ViewInv'
    BY DEF TypeOK, ViewInv, Shown, Commit, MakeAll, TooEarly
  <1>4. StoppedIsFinal'
    BY DEF TypeOK, StreamInv, StoppedIsFinal, Commit, MakeAll, TooEarly
  <1>5. NothingForgotten'
    BY DEF TypeOK, StreamInv, ViewInv, NothingForgotten, OnItsWay,
       WillRead, WillRefresh, Learns, Gone, Shown, Commit, MakeAll, TooEarly
  <1>6. QED
    BY <1>1, <1>2, <1>3, <1>4, <1>5

\* The announced change reaches the queue of a stream that listens; another stream
\* will refresh.
LEMMA PublishRunChangeStep ==
  ASSUME RunChangesInv, NEW c \in Change, PublishRunChange(c)
  PROVE  RunChangesInv'
  <1> USE DEF RunChangesInv
  <1>1. TypeOK'
    BY DEF TypeOK, PublishRunChange
  <1>2. StreamInv'
    BY DEF TypeOK, StreamInv, StoppedIsFinal, PublishRunChange
  <1>3. ViewInv'
    BY DEF TypeOK, ViewInv, Shown, PublishRunChange
  <1>4. StoppedIsFinal'
    BY DEF TypeOK, StreamInv, StoppedIsFinal, PublishRunChange
  <1>5. NothingForgotten'
    <2>1. SUFFICES ASSUME NEW d \in made \ (early \cup overtaken), d \notin Shown, ~Gone
                   PROVE  OnItsWay(d)'
      BY DEF NothingForgotten, Learns, PublishRunChange, Shown, Gone
    <2>2. OnItsWay(d)
      BY <2>1 DEF NothingForgotten, Learns
    <2>3. \A s \in Stream : queue[s] \in Seq(Change \cup {Subscribed})
      BY DEF TypeOK
    <2>4. \A s \in Stream :
            /\ queue'[s] = IF feed[s] = "listening" THEN Append(queue[s], c) ELSE queue[s]
            /\ \A e : Contains(queue[s], e) => Contains(queue'[s], e)
            /\ feed[s] = "listening" => Contains(queue'[s], c)
      BY <2>3, ContainsAppend DEF PublishRunChange, TypeOK
    <2>5. /\ UNCHANGED <<feed, conn, current, subscribedBefore, stale, fetch, answer>>
          /\ pending' = pending \ {c}
      BY DEF PublishRunChange
    <2>6. CASE d # c
      <3>1. WillRefresh => WillRefresh'
        BY <2>4, <2>5 DEF WillRefresh
      <3>2. QED
        BY <2>2, <2>4, <2>5, <2>6, <3>1 DEF OnItsWay, WillRead
    <2>7. CASE d = c
      <3>1. subscribedBefore
        BY <2>1 DEF ViewInv, TypeOK
      <3>2. CASE \E s \in Stream : current = <<s>> /\ feed[s] = "listening"
        BY <2>4, <2>5, <2>7, <3>2 DEF OnItsWay
      <3>3. CASE \A s \in Stream : current = <<s>> => feed[s] # "listening"
        BY <2>5, <3>1, <3>3 DEF OnItsWay, WillRead, WillRefresh
      <3>4. QED
        BY <3>2, <3>3
    <2>8. QED
      BY <2>6, <2>7
  <1>6. QED
    BY <1>1, <1>2, <1>3, <1>4, <1>5

\* A stream that begins to listen will refresh.
LEMMA FollowRunChangesStep ==
  ASSUME RunChangesInv, NEW s \in Stream, FollowRunChanges(s)
  PROVE  RunChangesInv'
  <1> USE DEF RunChangesInv
  <1>1. TypeOK'
    BY DEF TypeOK, FollowRunChanges
  <1>2. StreamInv'
    BY DEF TypeOK, StreamInv, StoppedIsFinal, FollowRunChanges
  <1>3. ViewInv'
    BY DEF TypeOK, ViewInv, Shown, FollowRunChanges
  <1>4. StoppedIsFinal'
    BY DEF TypeOK, StreamInv, StoppedIsFinal, FollowRunChanges
  <1>5. NothingForgotten'
    <2>1. queue[s] = <<>> /\ queue'[s] = <<Subscribed>>
      BY DEF FollowRunChanges, StreamInv, TypeOK
    <2>2. Contains(queue'[s], Subscribed) /\ \A d : ~Contains(queue[s], d)
      BY <2>1 DEF Contains
    <2>3. \A x \in Stream \ {s} : queue'[x] = queue[x] /\ feed'[x] = feed[x]
      BY DEF FollowRunChanges, TypeOK
    <2>4. QED
      BY <2>2, <2>3 DEF FollowRunChanges, NothingForgotten, OnItsWay, WillRead,
         WillRefresh, Learns, Gone, Shown
  <1>6. QED
    BY <1>1, <1>2, <1>3, <1>4, <1>5

\* A refused stream brings nothing, and says so.
LEMMA RefuseStep ==
  ASSUME RunChangesInv, NEW s \in Stream, Refuse(s)
  PROVE  RunChangesInv'
  <1> USE DEF RunChangesInv
  <1>1. TypeOK'
    BY DEF TypeOK, Refuse
  <1>2. StreamInv'
    BY DEF TypeOK, StreamInv, StoppedIsFinal, Refuse
  <1>3. ViewInv'
    BY DEF TypeOK, ViewInv, Shown, Refuse
  <1>4. StoppedIsFinal'
    BY DEF TypeOK, StreamInv, StoppedIsFinal, Refuse
  <1>5. NothingForgotten'
    BY DEF TypeOK, StreamInv, ViewInv, NothingForgotten, OnItsWay,
       WillRead, WillRefresh, Learns, Gone, Shown, Refuse
  <1>6. QED
    BY <1>1, <1>2, <1>3, <1>4, <1>5

\* A released stream was already lost or left.
LEMMA ReleaseStep ==
  ASSUME RunChangesInv, NEW s \in Stream, Release(s)
  PROVE  RunChangesInv'
  <1> USE DEF RunChangesInv
  <1>1. TypeOK'
    BY DEF TypeOK, Release, Aborted
  <1>2. StreamInv'
    BY DEF TypeOK, StreamInv, StoppedIsFinal, Release, Aborted
  <1>3. ViewInv'
    BY DEF TypeOK, ViewInv, Shown, Release, Aborted
  <1>4. StoppedIsFinal'
    BY DEF TypeOK, StreamInv, StoppedIsFinal, Release, Aborted
  <1>5. NothingForgotten'
    BY DEF TypeOK, StreamInv, ViewInv, NothingForgotten, OnItsWay,
       WillRead, WillRefresh, Learns, Gone, Shown, Release, Aborted
  <1>6. QED
    BY <1>1, <1>2, <1>3, <1>4, <1>5

\* Mounting an invalidated query fetches it.
LEMMA MountStep ==
  ASSUME RunChangesInv, Mount
  PROVE  RunChangesInv'
  <1> USE DEF RunChangesInv
  <1>1. TypeOK'
    <2>1. fetch' \in {"idle", "asked", "read"} /\ visits' \in Nat
      BY DEF Mount, TypeOK
    <2>2. /\ mounted' = TRUE /\ stale' = FALSE
          /\ UNCHANGED <<serverVars, feedVars, hookVars, view, answer, drops>>
      BY DEF Mount
    <2>3. QED
      BY <2>1, <2>2 DEF TypeOK
  <1>2. StreamInv'
    BY DEF TypeOK, StreamInv, StoppedIsFinal, Mount
  <1>3. ViewInv'
    BY DEF TypeOK, ViewInv, Shown, Mount
  <1>4. StoppedIsFinal'
    BY DEF TypeOK, StreamInv, StoppedIsFinal, Mount
  <1>5. NothingForgotten'
    BY DEF TypeOK, StreamInv, ViewInv, NothingForgotten, OnItsWay,
       WillRead, WillRefresh, Learns, Gone, Shown, Mount
  <1>6. QED
    BY <1>1, <1>2, <1>3, <1>4, <1>5

\* A cancelled fetch leaves its query stale.
LEMMA UnmountStep ==
  ASSUME RunChangesInv, Unmount
  PROVE  RunChangesInv'
  <1> USE DEF RunChangesInv
  <1>1. TypeOK'
    BY DEF TypeOK, Unmount
  <1>2. StreamInv'
    BY DEF TypeOK, StreamInv, StoppedIsFinal, Unmount
  <1>3. ViewInv'
    BY DEF TypeOK, ViewInv, Shown, Unmount
  <1>4. StoppedIsFinal'
    BY DEF TypeOK, StreamInv, StoppedIsFinal, Unmount
  <1>5. NothingForgotten'
    BY DEF TypeOK, StreamInv, ViewInv, NothingForgotten, OnItsWay,
       WillRead, WillRefresh, Learns, Gone, Shown, Unmount
  <1>6. QED
    BY <1>1, <1>2, <1>3, <1>4, <1>5

\* A read sees every change there is.
LEMMA ReadRowsStep ==
  ASSUME RunChangesInv, ReadRows
  PROVE  RunChangesInv'
  <1> USE DEF RunChangesInv
  <1>1. TypeOK'
    BY DEF TypeOK, ReadRows
  <1>2. StreamInv'
    BY DEF TypeOK, StreamInv, StoppedIsFinal, ReadRows
  <1>3. ViewInv'
    BY DEF TypeOK, ViewInv, Shown, ReadRows
  <1>4. StoppedIsFinal'
    BY DEF TypeOK, StreamInv, StoppedIsFinal, ReadRows
  <1>5. NothingForgotten'
    BY DEF TypeOK, StreamInv, ViewInv, NothingForgotten, OnItsWay,
       WillRead, WillRefresh, Learns, Gone, Shown, ReadRows
  <1>6. QED
    BY <1>1, <1>2, <1>3, <1>4, <1>5

\* An answer saw at least what the view showed.
LEMMA ShowRowsStep ==
  ASSUME RunChangesInv, ShowRows
  PROVE  RunChangesInv'
  <1> USE DEF RunChangesInv
  <1>1. TypeOK'
    BY DEF TypeOK, ShowRows
  <1>2. StreamInv'
    BY DEF TypeOK, StreamInv, StoppedIsFinal, ShowRows
  <1>3. ViewInv'
    BY DEF TypeOK, ViewInv, Shown, ShowRows
  <1>4. StoppedIsFinal'
    BY DEF TypeOK, StreamInv, StoppedIsFinal, ShowRows
  <1>5. NothingForgotten'
    BY DEF TypeOK, StreamInv, ViewInv, NothingForgotten, OnItsWay,
       WillRead, WillRefresh, Learns, Gone, Shown, ShowRows
  <1>6. QED
    BY <1>1, <1>2, <1>3, <1>4, <1>5

\* The first stream is opened before anything can be forgotten.
LEMMA StartStep ==
  ASSUME RunChangesInv, Start
  PROVE  RunChangesInv'
  <1> USE DEF RunChangesInv
  <1>1. TypeOK'
    BY DEF TypeOK, Start, Connect
  <1>2. StreamInv'
    BY DEF TypeOK, StreamInv, StoppedIsFinal, Start, Connect
  <1>3. ViewInv'
    BY DEF TypeOK, ViewInv, Shown, Start, Connect
  <1>4. StoppedIsFinal'
    BY DEF TypeOK, StreamInv, StoppedIsFinal, Start, Connect
  <1>5. NothingForgotten'
    BY DEF TypeOK, StreamInv, ViewInv, NothingForgotten, OnItsWay,
       WillRead, WillRefresh, Learns, Gone, Shown, Start, Connect
  <1>6. QED
    BY <1>1, <1>2, <1>3, <1>4, <1>5

\* Every message that may carry a change refreshes the view.
LEMMA OnEventStep ==
  ASSUME RunChangesInv, NEW s \in Stream, OnEvent(s)
  PROVE  RunChangesInv'
  <1> USE DEF RunChangesInv
  <1>1. TypeOK'
    <2>1. queue'[s] = Tail(queue[s]) /\ Tail(queue[s]) \in Seq(Change \cup {Subscribed})
      BY HeadTail DEF OnEvent, TypeOK
    <2>2. queue' \in [Stream -> Seq(Change \cup {Subscribed})]
      BY <2>1 DEF OnEvent, TypeOK
    <2>3. QED
      BY <2>2 DEF TypeOK, OnEvent, Refreshes, Invalidate, Refetch
  <1>2. StreamInv'
    BY DEF TypeOK, StreamInv, StoppedIsFinal, OnEvent, Refreshes,
       Invalidate, Refetch
  <1>3. ViewInv'
    BY DEF TypeOK, ViewInv, Shown, OnEvent, Refreshes, Invalidate, Refetch
  <1>4. StoppedIsFinal'
    BY DEF TypeOK, StreamInv, StoppedIsFinal, OnEvent, Refreshes,
       Invalidate, Refetch
  <1>5. NothingForgotten'
    BY DEF TypeOK, StreamInv, ViewInv, NothingForgotten, OnItsWay,
       WillRead, WillRefresh, Learns, Gone, Shown, OnEvent, Refreshes, Invalidate, Refetch
  <1>6. QED
    BY <1>1, <1>2, <1>3, <1>4, <1>5

\* A stream that ended is followed by another, unless it was refused.
LEMMA OnEndStep ==
  ASSUME RunChangesInv, NEW s \in Stream, OnEnd(s)
  PROVE  RunChangesInv'
  <1> USE DEF RunChangesInv
  <1>1. TypeOK'
    BY DEF TypeOK, OnEnd, Ignores
  <1>2. StreamInv'
    BY DEF TypeOK, StreamInv, StoppedIsFinal, OnEnd, Ignores
  <1>3. ViewInv'
    BY DEF TypeOK, ViewInv, Shown, OnEnd, Ignores
  <1>4. StoppedIsFinal'
    BY DEF TypeOK, StreamInv, StoppedIsFinal, OnEnd, Ignores
  <1>5. NothingForgotten'
    BY DEF TypeOK, StreamInv, ViewInv, NothingForgotten, OnItsWay,
       WillRead, WillRefresh, Learns, Gone, Shown, OnEnd, Ignores
  <1>6. QED
    BY <1>1, <1>2, <1>3, <1>4, <1>5

\* A new stream will refresh.
LEMMA ReconnectStep ==
  ASSUME RunChangesInv, Reconnect
  PROVE  RunChangesInv'
  <1> USE DEF RunChangesInv
  <1>1. TypeOK'
    BY DEF TypeOK, Reconnect, Connect
  <1>2. StreamInv'
    BY DEF TypeOK, StreamInv, StoppedIsFinal, Reconnect, Connect
  <1>3. ViewInv'
    BY DEF TypeOK, ViewInv, Shown, Reconnect, Connect
  <1>4. StoppedIsFinal'
    BY DEF TypeOK, StreamInv, StoppedIsFinal, Reconnect, Connect
  <1>5. NothingForgotten'
    BY DEF TypeOK, StreamInv, ViewInv, NothingForgotten, OnItsWay,
       WillRead, WillRefresh, Learns, Gone, Shown, Reconnect, Connect
  <1>6. QED
    BY <1>1, <1>2, <1>3, <1>4, <1>5

\* The cleanup closes what is open.
LEMMA StopStep ==
  ASSUME RunChangesInv, Stop
  PROVE  RunChangesInv'
  <1> USE DEF RunChangesInv
  <1>1. TypeOK'
    BY DEF TypeOK, Stop
  <1>2. StreamInv'
    BY DEF TypeOK, StreamInv, StoppedIsFinal, Stop
  <1>3. ViewInv'
    BY DEF TypeOK, ViewInv, Shown, Stop
  <1>4. StoppedIsFinal'
    BY DEF TypeOK, StreamInv, StoppedIsFinal, Stop
  <1>5. NothingForgotten'
    BY DEF TypeOK, StreamInv, ViewInv, NothingForgotten, OnItsWay,
       WillRead, WillRefresh, Learns, Gone, Shown, Stop
  <1>6. QED
    BY <1>1, <1>2, <1>3, <1>4, <1>5

\* A lost stream will be followed by a refresh.
LEMMA LoseStep ==
  ASSUME RunChangesInv, NEW s \in Stream, Lose(s)
  PROVE  RunChangesInv'
  <1> USE DEF RunChangesInv
  <1>1. TypeOK'
    BY DEF TypeOK, Lose, MayLose
  <1>2. StreamInv'
    BY DEF TypeOK, StreamInv, StoppedIsFinal, Lose, MayLose
  <1>3. ViewInv'
    BY DEF TypeOK, ViewInv, Shown, Lose, MayLose
  <1>4. StoppedIsFinal'
    BY DEF TypeOK, StreamInv, StoppedIsFinal, Lose, MayLose
  <1>5. NothingForgotten'
    BY DEF TypeOK, StreamInv, ViewInv, NothingForgotten, OnItsWay,
       WillRead, WillRefresh, Learns, Gone, Shown, Lose, MayLose
  <1>6. QED
    BY <1>1, <1>2, <1>3, <1>4, <1>5

\* What was not announced is covered by the loss of every stream.
LEMMA CrashStep ==
  ASSUME RunChangesInv, Crash
  PROVE  RunChangesInv'
  <1> USE DEF RunChangesInv
  <1>1. TypeOK'
    BY DEF TypeOK, Crash, MayLose
  <1>2. StreamInv'
    BY DEF TypeOK, StreamInv, StoppedIsFinal, Crash, MayLose
  <1>3. ViewInv'
    BY DEF TypeOK, ViewInv, Shown, Crash, MayLose
  <1>4. StoppedIsFinal'
    BY DEF TypeOK, StreamInv, StoppedIsFinal, Crash, MayLose
  <1>5. NothingForgotten'
    BY DEF TypeOK, StreamInv, ViewInv, NothingForgotten, OnItsWay,
       WillRead, WillRefresh, Learns, Gone, Shown, Crash, MayLose
  <1>6. QED
    BY <1>1, <1>2, <1>3, <1>4, <1>5

\* What recovery changes is read, or overtaken.
LEMMA RecoverOrphanedRunsStep ==
  ASSUME RunChangesInv, RecoverOrphanedRuns
  PROVE  RunChangesInv'
  <1> USE DEF RunChangesInv
  <1>1. TypeOK'
    BY DEF TypeOK, RecoverOrphanedRuns, MakeAll, TooEarly
  <1>2. StreamInv'
    BY DEF TypeOK, StreamInv, StoppedIsFinal, RecoverOrphanedRuns, MakeAll,
       TooEarly
  <1>3. ViewInv'
    BY DEF TypeOK, ViewInv, Shown, RecoverOrphanedRuns, MakeAll, TooEarly
  <1>4. StoppedIsFinal'
    BY DEF TypeOK, StreamInv, StoppedIsFinal, RecoverOrphanedRuns, MakeAll,
       TooEarly
  <1>5. NothingForgotten'
    BY DEF TypeOK, StreamInv, ViewInv, NothingForgotten, OnItsWay,
       WillRead, WillRefresh, Learns, Gone, Shown, RecoverOrphanedRuns, MakeAll, TooEarly
  <1>6. QED
    BY <1>1, <1>2, <1>3, <1>4, <1>5
----------------------------------------------------------------------------
(* Theorems.                                                               *)

\* The invariant holds initially.
LEMMA InitInv == Init => RunChangesInv
  <1> SUFFICES ASSUME Init PROVE RunChangesInv
    OBVIOUS
  <1>1. TypeOK
    <2>1. queue \in [Stream -> Seq(Change \cup {Subscribed})]
      <3>1. <<>> \in Seq(Change \cup {Subscribed})
        BY EmptySeq
      <3>2. QED
        BY <3>1 DEF Init
    <2>2. /\ current \in {<<>>} \cup {<<s>> : s \in Stream}
          /\ view \in {<<>>} \cup {<<C>> : C \in SUBSET made}
      BY DEF Init
    <2>3. /\ feed \in [Stream -> {"none", "listening", "released"}]
          /\ conn \in [Stream -> {"unused", "open", "lost", "refused", "closed", "over"}]
      BY DEF Init
    <2>4. /\ phase \in {"up", "booting"} /\ fetch \in {"idle", "asked", "read"}
          /\ made \subseteq Change /\ pending \subseteq made /\ early \subseteq made
          /\ overtaken \subseteq made /\ answer \subseteq made
      BY DEF Init
    <2>5. /\ {retry, subscribedBefore, stopped, refused, mounted, stale} \subseteq BOOLEAN
          /\ drops \in Nat /\ visits \in Nat
      BY DEF Init
    <2>6. QED
      BY <2>1, <2>2, <2>3, <2>4, <2>5 DEF TypeOK
  <1>2. StreamInv
    BY DEF Init, StreamInv
  <1>3. ViewInv
    BY DEF Init, ViewInv
  <1>4. StoppedIsFinal /\ NothingForgotten
    BY DEF Init, StoppedIsFinal, NothingForgotten
  <1>5. QED
    BY <1>1, <1>2, <1>3, <1>4 DEF RunChangesInv

\* No step breaks it.
LEMMA NextInv == RunChangesInv /\ [Next]_vars => RunChangesInv'
  <1>1. SUFFICES ASSUME RunChangesInv, [Next]_vars PROVE RunChangesInv'
    OBVIOUS
  <1>2. CASE UNCHANGED vars
    BY <1>1, <1>2 DEF RunChangesInv, TypeOK, StreamInv, ViewInv,
       StoppedIsFinal, NothingForgotten, OnItsWay, WillRead, WillRefresh, Learns,
       Gone, Shown, vars
  <1>3. CASE \E c \in Change : Commit(c) \/ PublishRunChange(c)
    BY <1>1, <1>3, CommitStep, PublishRunChangeStep
  <1>4. CASE \E s \in Stream : Backend(s) \/ Refuse(s) \/ Hook(s) \/ Lose(s)
    BY <1>1, <1>4, FollowRunChangesStep, ReleaseStep, RefuseStep,
       OnEventStep, OnEndStep, LoseStep DEF Backend, Hook
  <1>5. CASE Query \/ Mount \/ Unmount
    BY <1>1, <1>5, ReadRowsStep, ShowRowsStep, MountStep, UnmountStep DEF
       Query
  <1>6. CASE Start \/ Reconnect \/ Stop
    BY <1>1, <1>6, StartStep, ReconnectStep, StopStep
  <1>7. CASE Crash \/ RecoverOrphanedRuns
    BY <1>1, <1>7, CrashStep, RecoverOrphanedRunsStep
  <1>8. QED
    BY <1>1, <1>2, <1>3, <1>4, <1>5, <1>6, <1>7 DEF Next

\* The invariant always holds, whatever is served before recovery.
THEOREM RunChangesInvariant == Spec => []RunChangesInv
  <1>1. RunChangesInv /\ [Next]_vars => RunChangesInv'
    BY NextInv
  <1>2. QED
    BY <1>1, InitInv, PTL DEF Spec

\* No change made after the page loaded and subscribed is ever forgotten: it is
\* shown, or on its way (use-job-run-changes.ts:38-49), unless recovery made it
\* when the page had already subscribed and read again.
THEOREM RunChangesNothingForgotten == Spec => []NothingForgotten
  <1>1. RunChangesInv => NothingForgotten
    BY DEF RunChangesInv
  <1>2. QED
    BY <1>1, RunChangesInvariant, PTL

\* After the cleanup of useJobRunChanges no stream is open and no timer armed.
THEOREM RunChangesStopped == Spec => []StoppedIsFinal
  <1>1. RunChangesInv => StoppedIsFinal
    BY DEF RunChangesInv
  <1>2. QED
    BY <1>1, RunChangesInvariant, PTL
=============================================================================
