----------------------------- MODULE RunChanges -----------------------------
(***************************************************************************)
(* Views of job runs kept current without polling.  The backend announces  *)
(* every start and finish of a run on `jobs.runs.watchChanges` (changes.ts, *)
(* events.ts); the navbar's useJobRunChanges follows that stream and marks *)
(* the cached run queries stale, which makes a mounted view fetch again.   *)
(*                                                                         *)
(* A change is one committed transition of one run's row; a view holds the *)
(* changes its last fetch saw.  Commit and announcement, announcement and  *)
(* delivery, and a fetch and its answer are apart, and the stream, the     *)
(* backend and the page may go away at any point.  The backend serves      *)
(* before recoverOrphanedRuns has run: a booting one answers, and opens    *)
(* and finishes runs, as any other.                                        *)
(***************************************************************************)
EXTENDS Naturals, Sequences, SequencesExt

CONSTANTS
  Change,       \* transitions of run rows: a start or a finish
  Stream,       \* calls of jobs.runs.watchChanges
  Subscribed,   \* the event that opens a stream
  MaxDrops,     \* bound: connections lost, restarts included
  MaxVisits     \* bound: times the page is opened

ASSUME RunChangesAssumption ==
  /\ Subscribed \notin Change
  /\ MaxDrops \in Nat
  /\ MaxVisits \in Nat

VARIABLES
  \* The backend.
  phase,     \* "up" or "booting"
  made,      \* changes committed to job_runs
  pending,   \* committed by a task that has yet to announce them
  feed,      \* the generator of each stream: "none", "listening", "released"
  queue,     \* what each stream has still to deliver
  \* useJobRunChanges.
  conn,      \* "unused", "open", "lost", "refused", "closed" or "over"
  current,   \* `unsubscribe`: <<>> or <<stream>>
  retry,     \* retryTimer is armed
  subscribedBefore,
  stopped,   \* the effect was cleaned up
  refused,   \* the API refused the stream
  \* One run query of the page's cache.
  mounted,   \* a view of it is on screen
  view,      \* <<>> until loaded, then <<the changes it shows>>
  stale,     \* invalidated while no view of it was mounted
  fetch,     \* "idle", "asked", or "read" and not yet answered
  answer,    \* what the read saw
  \* Bounds, and two history variables.
  drops, visits,
  early,     \* changes made before the first subscription and load
  overtaken  \* changes recovery made when the page had nothing left to read

serverVars == <<phase, made, pending, early, overtaken>>
feedVars == <<feed, queue>>
hookVars == <<conn, current, retry, subscribedBefore, stopped, refused>>
viewVars == <<mounted, view, stale, fetch, answer, visits>>
vars == <<serverVars, feedVars, hookVars, viewVars, drops>>

TypeOK ==
  /\ phase \in {"up", "booting"}
  /\ made \subseteq Change /\ pending \subseteq made
  /\ early \subseteq made /\ overtaken \subseteq made
  /\ feed \in [Stream -> {"none", "listening", "released"}]
  /\ queue \in [Stream -> Seq(Change \cup {Subscribed})]
  /\ conn \in [Stream -> {"unused", "open", "lost", "refused", "closed", "over"}]
  /\ current \in {<<>>} \cup {<<s>> : s \in Stream}
  /\ retry \in BOOLEAN /\ subscribedBefore \in BOOLEAN
  /\ stopped \in BOOLEAN /\ refused \in BOOLEAN
  /\ mounted \in BOOLEAN /\ stale \in BOOLEAN
  /\ view \in {<<>>} \cup {<<C>> : C \in SUBSET made}
  /\ fetch \in {"idle", "asked", "read"}
  /\ answer \subseteq made
  /\ drops \in Nat /\ visits \in Nat

Init ==
  /\ phase = "up"
  /\ made = {} /\ pending = {} /\ early = {} /\ overtaken = {}
  /\ feed = [s \in Stream |-> "none"]
  /\ queue = [s \in Stream |-> <<>>]
  /\ conn = [s \in Stream |-> "unused"]
  /\ current = <<>>
  /\ retry = FALSE /\ subscribedBefore = FALSE
  /\ stopped = FALSE /\ refused = FALSE
  /\ mounted = FALSE /\ view = <<>> /\ stale = FALSE
  /\ fetch = "idle" /\ answer = {}
  /\ drops = 0 /\ visits = 0

----------------------------------------------------------------------------
(* The executor: commit, then announce.                                    *)

\* What the view is never told of, or not again.
TooEarly(C) == IF subscribedBefore /\ view # <<>> THEN {} ELSE C

MakeAll(C) ==
  /\ made' = made \cup C
  /\ early' = early \cup TooEarly(C)

Commit(c) ==
  /\ c \notin made
  /\ MakeAll({c})
  /\ pending' = pending \cup {c}
  /\ UNCHANGED <<phase, overtaken, feedVars, hookVars, viewVars, drops>>

PublishRunChange(c) ==
  /\ c \in pending
  /\ pending' = pending \ {c}
  /\ queue' = [s \in Stream |-> IF feed[s] = "listening"
                               THEN Append(queue[s], c) ELSE queue[s]]
  /\ UNCHANGED <<phase, made, early, overtaken, feed, hookVars, viewVars, drops>>

----------------------------------------------------------------------------
(* followRunChanges.                                                       *)

\* The listener is registered before `subscribed` is yielded.
FollowRunChanges(s) ==
  /\ conn[s] = "open"
  /\ feed[s] = "none"
  /\ feed' = [feed EXCEPT ![s] = "listening"]
  /\ queue' = [queue EXCEPT ![s] = <<Subscribed>>]
  /\ UNCHANGED <<serverVars, hookVars, viewVars, drops>>

\* The session has ended, or is pending.
Refuse(s) ==
  /\ conn[s] = "open"
  /\ feed[s] = "none"
  /\ conn' = [conn EXCEPT ![s] = "refused"]
  /\ UNCHANGED <<serverVars, feedVars, current, retry, subscribedBefore, stopped,
                 refused, viewVars, drops>>

\* mutant: the abort is only noticed with the next message
MutAborted(s) == conn[s] \in {"lost", "closed", "over"} /\ queue[s] # <<>>
Aborted(s) == conn[s] \in {"lost", "closed", "over"}

\* The generator ends and its listener is removed.
Release(s) ==
  /\ feed[s] = "listening"
  /\ Aborted(s)
  /\ feed' = [feed EXCEPT ![s] = "released"]
  /\ UNCHANGED <<serverVars, queue, hookVars, viewVars, drops>>

----------------------------------------------------------------------------
(* The query cache: what invalidateQueries does to a query, and its views. *)

\* A fetch in flight is cancelled and another one asked for.
Refetch == "asked"

\* A loaded query with a mounted view fetches again, and an answer that is on
\* its way is discarded; a first load in flight is left alone.
Invalidate ==
  /\ IF mounted /\ view # <<>>
       THEN fetch' = Refetch /\ UNCHANGED stale
       ELSE UNCHANGED fetch /\ stale' = (stale \/ view # <<>>)
  /\ UNCHANGED <<mounted, view, answer, visits>>

\* Within staleTime a query only fetches if it was invalidated or never loaded.
Mount ==
  /\ ~mounted
  /\ visits < MaxVisits
  /\ visits' = visits + 1
  /\ mounted' = TRUE
  /\ fetch' = IF stale \/ view = <<>> THEN "asked" ELSE fetch
  /\ stale' = FALSE
  /\ UNCHANGED <<serverVars, feedVars, hookVars, view, answer, drops>>

\* Leaving cancels a fetch in flight: the query is as before it.
Unmount ==
  /\ mounted
  /\ mounted' = FALSE
  /\ fetch' = "idle"
  /\ stale' = (view # <<>> /\ fetch # "idle")
  /\ UNCHANGED <<serverVars, feedVars, hookVars, view, answer, visits, drops>>

ReadRows ==
  /\ fetch = "asked"
  /\ fetch' = "read"
  /\ answer' = made
  /\ UNCHANGED <<serverVars, feedVars, hookVars, mounted, view, stale, visits, drops>>

ShowRows ==
  /\ fetch = "read"
  /\ fetch' = "idle"
  /\ view' = <<answer>>
  /\ UNCHANGED <<serverVars, feedVars, hookVars, mounted, stale, answer, visits, drops>>

----------------------------------------------------------------------------
(* useJobRunChanges.                                                       *)

Connect(s) ==
  /\ conn[s] = "unused"
  /\ conn' = [conn EXCEPT ![s] = "open"]
  /\ current' = <<s>>

\* The effect runs; useEffect runs it once.
Start ==
  /\ \A s \in Stream : conn[s] = "unused"
  /\ \E s \in Stream : Connect(s)
  /\ UNCHANGED <<serverVars, feedVars, retry, subscribedBefore, stopped, refused,
                 viewVars, drops>>

\* mutant: a stream that is back only says so
MutRefreshes(m) == m # Subscribed
Refreshes(m) == m # Subscribed \/ subscribedBefore

OnEvent(s) ==
  /\ ~stopped
  /\ conn[s] \in {"open", "lost"}
  /\ queue[s] # <<>>
  /\ queue' = [queue EXCEPT ![s] = Tail(@)]
  /\ LET m == Head(queue[s]) IN
       /\ subscribedBefore' = (subscribedBefore \/ m = Subscribed)
       /\ IF Refreshes(m) THEN Invalidate ELSE UNCHANGED viewVars
  /\ UNCHANGED <<serverVars, feed, conn, current, retry, stopped, refused, drops>>

MutIgnores == FALSE \* mutant: a stream's end does not check `stopped`
Ignores == stopped

\* onSuccess and onError: the stream ended, broke, or was refused.
OnEnd(s) ==
  /\ conn[s] \in {"lost", "refused"}
  /\ conn' = [conn EXCEPT ![s] = "over"]
  /\ IF Ignores
       THEN UNCHANGED <<current, retry, refused>>
       ELSE /\ current' = <<>>
            /\ retry' = (conn[s] = "lost")
            /\ refused' = (conn[s] = "refused")
  /\ UNCHANGED <<serverVars, feedVars, subscribedBefore, stopped, viewVars, drops>>

Reconnect ==
  /\ retry
  /\ retry' = FALSE
  /\ \E s \in Stream : Connect(s)
  /\ UNCHANGED <<serverVars, feedVars, subscribedBefore, stopped, refused, viewVars,
                 drops>>

\* The cleanup: signing out, or the role becoming pending.
Stop ==
  /\ ~stopped
  /\ \E s \in Stream : conn[s] # "unused"
  /\ stopped' = TRUE
  /\ retry' = FALSE
  /\ conn' = [s \in Stream |-> IF current = <<s>> /\ conn[s] = "open"
                                 THEN "closed" ELSE conn[s]]
  /\ UNCHANGED <<serverVars, feedVars, current, subscribedBefore, refused, viewVars,
                 drops>>

----------------------------------------------------------------------------
(* The network and the process.                                            *)

\* Bound: a connection is only lost while a stream is left to connect again.
MayLose == drops < MaxDrops /\ \E s \in Stream : conn[s] = "unused"

Lose(s) ==
  /\ MayLose
  /\ conn[s] = "open"
  /\ conn' = [conn EXCEPT ![s] = "lost"]
  /\ drops' = drops + 1
  /\ UNCHANGED <<serverVars, feedVars, current, retry, subscribedBefore, stopped,
                 refused, viewVars>>

\* Tasks, listeners and connections die; what was not announced never will be.
\* A backend that is booting may die as well.
Crash ==
  /\ MayLose
  /\ phase' = "booting"
  /\ pending' = {}
  /\ feed' = [s \in Stream |-> IF feed[s] = "none" THEN "none" ELSE "released"]
  /\ conn' = [s \in Stream |-> IF conn[s] = "open" THEN "lost" ELSE conn[s]]
  /\ drops' = drops + 1
  /\ UNCHANGED <<made, early, overtaken, queue, current, retry, subscribedBefore, stopped,
                 refused, viewVars>>

\* The stream is down, and will refresh everything once it is back.
WillRefresh ==
  subscribedBefore /\ \A s \in Stream :
    current = <<s>> => \/ conn[s] \in {"lost", "refused"}
                       \/ feed[s] # "listening"
                       \/ Contains(queue[s], Subscribed)

\* The page has yet to read the rows, or to be told to.
WillRead == WillRefresh \/ stale \/ fetch = "asked"

\* Rows left running are failed, those of runs begun since included, without an
\* announcement.
RecoverOrphanedRuns ==
  /\ phase = "booting"
  /\ phase' = "up"
  /\ \E C \in SUBSET (Change \ made) :
       /\ MakeAll(C)
       /\ overtaken' = overtaken \cup (IF WillRead THEN {} ELSE C)
  /\ UNCHANGED <<pending, feedVars, hookVars, viewVars, drops>>

----------------------------------------------------------------------------

Query == ReadRows \/ ShowRows
Hook(s) == OnEvent(s) \/ OnEnd(s)
Backend(s) == FollowRunChanges(s) \/ Release(s)

Next ==
  \/ \E c \in Change : Commit(c) \/ PublishRunChange(c)
  \/ \E s \in Stream : Backend(s) \/ Refuse(s) \/ Hook(s) \/ Lose(s)
  \/ Query \/ Mount \/ Unmount
  \/ Start \/ Reconnect \/ Stop
  \/ Crash \/ RecoverOrphanedRuns

Spec == Init /\ [][Next]_vars

\* Queries, timers and callbacks run; the backend boots, answers, announces what
\* it committed and releases the streams nobody reads.  Nobody has to do
\* anything to a job, visit the page or stay on it.
Fairness ==
  /\ WF_vars(RecoverOrphanedRuns) /\ WF_vars(Query)
  /\ WF_vars(Start) /\ WF_vars(Reconnect)
  /\ \A c \in Change : WF_vars(PublishRunChange(c))
  /\ \A s \in Stream : WF_vars(Hook(s)) /\ WF_vars(Backend(s))

FairSpec == Spec /\ Fairness

----------------------------------------------------------------------------
(* Properties.                                                             *)

Shown == IF view = <<>> THEN {} ELSE view[1]

\* Nobody follows the changes any more: signed out, or refused.
Gone == stopped \/ refused

\* Something will still bring change c to the view.
OnItsWay(c) ==
  \/ c \in pending
  \/ WillRead
  \/ \E s \in Stream : current = <<s>> /\ Contains(queue[s], c)
  \/ fetch = "read" /\ c \in answer

Learns(c) == c \in Shown \/ Gone \/ OnItsWay(c)

\* No change is forgotten: once the page has loaded and been subscribed, a
\* change the view does not show is on its way to it, through restarts, lost
\* streams, fetches that cross the change and visits to other pages
\* (use-job-run-changes.ts:38-49).  The exception is what recoverOrphanedRuns
\* changes after the stream is back and the rows were read again.
NothingForgotten == \A c \in made \ (early \cup overtaken) : Learns(c)

\* "Each run starting or finishing invalidates the queries it can have changed"
\* and "once it is listening again, every run query is refreshed so nothing that
\* changed meanwhile is missed" (use-job-run-changes.ts:39-48), with no
\* exception.  It fails: a booting backend already serves the stream, and what
\* its recovery then fails is announced to nobody.
NothingMissed == \A c \in made \ early : Learns(c)

\* A view that stays on screen ends up showing every change that is not
\* forgotten by that exception.
CatchesUp ==
  <>[]mounted =>
    \A c \in Change : c \in made \ (early \cup overtaken) ~> c \in Shown \/ Gone

\* "After the subscription is (re)established it SHALL refresh all of these
\* views once" (job-run-history/spec.md:103): what happened between the load of
\* a view and the subscription is shown too.  It fails, as the first
\* subscription refreshes nothing.
FirstSubscriptionRefreshes ==
  <>[]mounted =>
    \A c \in Change :
      view # <<>> /\ ~subscribedBefore /\ c \in made \ Shown ~> c \in Shown \/ Gone

\* After the cleanup nothing is left to open a stream, and none stays open.
StoppedIsFinal ==
  stopped => ~retry /\ \A s \in Stream : conn[s] # "open"

\* The backend drops the listener of a stream its client has left.
StreamsReleased ==
  \A s \in Stream : conn[s] \in {"closed", "over"} ~> feed[s] # "listening"

\* A page that goes leaves no stream behind, in the browser or in the backend.
NothingLeftBehind == []StoppedIsFinal /\ StreamsReleased

----------------------------------------------------------------------------
(* The inductive invariant.                                                *)

StreamInv ==
  /\ retry => current = <<>>
  /\ stopped \/ retry => \E s \in Stream : conn[s] # "unused"
  /\ ~stopped =>
       \A s \in Stream : conn[s] \in {"open", "lost", "refused"} => current = <<s>>
  /\ \A s \in Stream : conn[s] = "unused" => feed[s] = "none"
  /\ \A s \in Stream : feed[s] = "none" => queue[s] = <<>>

ViewInv ==
  /\ mounted => ~stale
  /\ fetch = "read" => Shown \subseteq answer
  /\ made # early => subscribedBefore /\ view # <<>>

RunChangesInv == TypeOK /\ StreamInv /\ ViewInv /\ NothingForgotten /\ StoppedIsFinal
=============================================================================
