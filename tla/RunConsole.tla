----------------------------- MODULE RunConsole -----------------------------
(***************************************************************************)
(* A job run console on top of the live registry: useJobRunWatch of        *)
(* apps/frontend/src/features/jobs/hooks/use-jobs.ts.  The hook shows one  *)
(* run at a time.  When the connection is lost it attaches again, and the  *)
(* new watch replays the run from its first event, so what is on screen    *)
(* already is skipped.  Callbacks of a watch the hook has left may still   *)
(* be delivered.                                                           *)
(***************************************************************************)
EXTENDS LiveRuns, FiniteSets

CONSTANTS
  MaxAttempts, \* MAX_REATTACH_ATTEMPTS
  MaxMoves,    \* bound: start, stopWatching and reset
  MaxDrops,    \* bound: connections lost, restarts included
  MayRefuse    \* does the API ever refuse a watch?

ASSUME RunConsoleAssumption ==
  /\ MaxAttempts \in Nat \ {0}
  /\ MaxMoves \in Nat
  /\ MaxDrops \in Nat
  /\ MayRefuse \in BOOLEAN

VARIABLES
  \* The hook's state and refs.
  watching,    \* watchingRunId: <<>> or <<run>>
  phase,
  screen,      \* `events`
  shownResult, \* `result`
  retry,       \* retryTimerRef is armed
  current,     \* unsubscribeRef: <<>> or <<watch>>
  generation,
  \* The closure of `start`.
  shown, attempt,
  \* Each stream, from the browser's side.
  conn,        \* "unused", "open", "closed" (by the hook), "lost", "refused", "over"
  genOf,       \* the generation that attached it
  answered,    \* the promise of the call has resolved
  received,    \* messages delivered to onEvent
  drops

hookVars   == <<watching, phase, screen, shownResult, retry, current, generation>>
streamVars == <<conn, genOf, answered, received>>
consoleVars == <<hookVars, shown, attempt, streamVars, drops>>
allVars == <<vars, consoleVars>>

ConsoleTypeOK ==
  /\ watching \in {<<>>} \cup {<<r>> : r \in Run}
  /\ phase \in {"idle", "running", "done", "error", "cancelled"}
  /\ screen \in Seq(Event)
  /\ shownResult \in Status \cup {None}
  /\ retry \in BOOLEAN
  /\ current \in {<<>>} \cup {<<w>> : w \in Watch}
  /\ generation \in Nat /\ shown \in Nat /\ attempt \in Nat /\ drops \in Nat
  /\ conn \in [Watch -> {"unused", "open", "closed", "lost", "refused", "over"}]
  /\ genOf \in [Watch -> Nat]
  /\ answered \in [Watch -> BOOLEAN]
  /\ received \in [Watch -> Nat]

\* (runOf means nothing before the first attach.)
ConsoleInit ==
  /\ Init
  /\ \E r \in Run : runOf = [w \in Watch |-> r]
  /\ watching = <<>>
  /\ phase = "idle"
  /\ screen = <<>>
  /\ shownResult = None
  /\ retry = FALSE
  /\ current = <<>>
  /\ generation = 0
  /\ shown = 0
  /\ attempt = 0
  /\ conn = [w \in Watch |-> "unused"]
  /\ genOf = [w \in Watch |-> 0]
  /\ answered = [w \in Watch |-> FALSE]
  /\ received = [w \in Watch |-> 0]
  /\ drops = 0

----------------------------------------------------------------------------
(* The hook's operations.                                                  *)

MutIsCurrent(w) == TRUE \* mutant: callbacks do not check their generation
IsCurrent(w) == genOf[w] = generation

\* mutant: an armed retry survives the detach
MutRetryAfterDetach == retry
RetryAfterDetach == FALSE

MutCloses(w) == FALSE \* mutant: detaching forgets the stream without closing it
Closes(w) == current = <<w>>

\* A call to jobs.runs.watch.
Attach1(w, r, g) ==
  /\ conn[w] = "unused"
  /\ conn' = [x \in Watch |-> IF x = w THEN "open"
                              ELSE IF Closes(x) THEN "closed" ELSE conn[x]]
  /\ runOf' = [runOf EXCEPT ![w] = r]
  /\ genOf' = [genOf EXCEPT ![w] = g]
  /\ current' = <<w>>

Detach ==
  /\ generation < MaxMoves
  /\ generation' = generation + 1
  /\ retry' = RetryAfterDetach

CloseCurrent ==
  /\ conn' = [x \in Watch |-> IF Closes(x) THEN "closed" ELSE conn[x]]
  /\ current' = <<>>

Start(r) ==
  /\ Detach
  /\ watching' = <<r>>
  /\ screen' = <<>>
  /\ shownResult' = None
  /\ phase' = "running"
  /\ shown' = 0
  /\ attempt' = 0
  /\ \E w \in Watch : Attach1(w, r, generation')
  /\ UNCHANGED <<execVars, liveVars, watch, replay, doneBefore, queue, aborted,
                 out, end, crashes, answered, received, drops>>

StopWatching ==
  /\ watching # <<>>
  /\ Detach
  /\ CloseCurrent
  /\ phase' = IF phase = "running" THEN "cancelled" ELSE phase
  /\ UNCHANGED <<vars, watching, screen, shownResult, shown, attempt, genOf,
                 answered, received, drops>>

Reset ==
  /\ watching # <<>>
  /\ Detach
  /\ CloseCurrent
  /\ watching' = <<>>
  /\ phase' = "idle"
  /\ screen' = <<>>
  /\ shownResult' = None
  /\ UNCHANGED <<vars, shown, attempt, genOf, answered, received, drops>>

\* The timer of a lost connection.
Reattach ==
  /\ retry
  /\ retry' = FALSE
  /\ watching # <<>>
  /\ \E w \in Watch : Attach1(w, watching[1], generation)
  /\ UNCHANGED <<execVars, liveVars, watch, replay, doneBefore, queue, aborted,
                 out, end, crashes, watching, phase, screen, shownResult,
                 generation, shown, attempt, answered, received, drops>>

----------------------------------------------------------------------------
(* The callbacks of a stream.                                              *)

MutAttemptOnAnswer == attempt \* mutant: the count only ever grows
AttemptOnAnswer == 0

\* The call's promise resolves: the backend has answered.
Answer(w) ==
  /\ conn[w] \in {"open", "closed", "lost"}
  /\ watch[w] # "free"
  /\ ~answered[w]
  /\ answered' = [answered EXCEPT ![w] = TRUE]
  /\ attempt' = IF IsCurrent(w) THEN AttemptOnAnswer ELSE attempt
  /\ UNCHANGED <<vars, hookVars, shown, conn, genOf, received, drops>>

\* mutant: the replay of a reattach is drawn again
MutIsReplay(n) == FALSE
IsReplay(n) == n <= shown

OnEvent(w) ==
  /\ conn[w] \in {"open", "closed", "lost"}
  /\ answered[w]
  /\ received[w] < Len(out[w])
  /\ received' = [received EXCEPT ![w] = @ + 1]
  /\ LET n == received'[w] IN
       IF ~IsCurrent(w) \/ IsReplay(n)
         THEN UNCHANGED <<shown, screen>>
         ELSE /\ shown' = n
              /\ screen' = Append(screen, out[w][n])
  /\ UNCHANGED <<vars, watching, phase, shownResult, retry, current, generation,
                 attempt, conn, genOf, answered, drops>>

\* mutant: a run that is no longer live counts as done
MutPhaseAtEnd(v) == "done"
PhaseAtEnd(v) == IF v = None THEN "idle" ELSE "done"

OnSuccess(w) ==
  /\ conn[w] \in {"open", "closed"}
  /\ answered[w]
  /\ received[w] = Len(out[w])
  /\ end[w] # <<>> /\ ~aborted[w]
  /\ conn' = [conn EXCEPT ![w] = "over"]
  /\ IF IsCurrent(w)
       THEN /\ current' = <<>>
            /\ shownResult' = IF end[w][1] = None THEN shownResult ELSE end[w][1]
            /\ phase' = PhaseAtEnd(end[w][1])
       ELSE UNCHANGED <<current, shownResult, phase>>
  /\ UNCHANGED <<vars, watching, screen, retry, generation, shown, attempt, genOf,
                 answered, received, drops>>

\* A transport error is retried with backoff; an answer of the API is not.
OnError(w) ==
  /\ conn[w] \in {"lost", "refused"}
  /\ conn' = [conn EXCEPT ![w] = "over"]
  /\ IF ~IsCurrent(w)
       THEN UNCHANGED <<current, attempt, retry, phase>>
       ELSE /\ current' = <<>>
            /\ IF conn[w] = "lost" /\ attempt < MaxAttempts
                 THEN attempt' = attempt + 1 /\ retry' = TRUE /\ UNCHANGED phase
                 ELSE phase' = "error" /\ UNCHANGED <<attempt, retry>>
  /\ UNCHANGED <<vars, watching, screen, shownResult, generation, shown, genOf,
                 answered, received, drops>>

----------------------------------------------------------------------------
(* The network and the backend.                                            *)

\* The request reaches the backend, which may refuse it.
Request(w) ==
  /\ conn[w] \in {"open", "closed"}
  /\ WatchRun(w, runOf[w])
  /\ UNCHANGED consoleVars

Refuse(w) ==
  /\ MayRefuse
  /\ conn[w] = "open"
  /\ watch[w] = "free"
  /\ conn' = [conn EXCEPT ![w] = "refused"]
  /\ UNCHANGED <<vars, hookVars, shown, attempt, genOf, answered, received, drops>>

\* Bound: a connection is only lost while a stream is left to attach again.
MayLose == drops < MaxDrops /\ \E w \in Watch : conn[w] = "unused"

Drop(w) ==
  /\ conn[w] = "open"
  /\ MayLose
  /\ drops' = drops + 1
  /\ conn' = [conn EXCEPT ![w] = "lost"]
  /\ UNCHANGED <<vars, hookVars, shown, attempt, genOf, answered, received>>

\* The backend notices that nobody reads the stream.
Disconnect(w) ==
  /\ conn[w] \in {"closed", "lost", "over"}
  /\ Abort(w)
  /\ UNCHANGED consoleVars

\* Every open connection is lost at once.
Restart ==
  /\ Crash
  /\ MayLose
  /\ drops' = drops + 1
  /\ conn' = [w \in Watch |-> IF conn[w] = "open" THEN "lost" ELSE conn[w]]
  /\ UNCHANGED <<hookVars, shown, attempt, genOf, answered, received>>

Backend ==
  /\ RunStep \/ \E w \in Watch : ReadWatch(w)
  /\ UNCHANGED consoleVars

Callback(w) == Answer(w) \/ OnEvent(w) \/ OnSuccess(w) \/ OnError(w)

User == StopWatching \/ Reset \/ \E r \in Run : Start(r)

Network == \E w \in Watch : Request(w) \/ Refuse(w) \/ Drop(w) \/ Disconnect(w)

ConsoleNext ==
  User \/ Reattach \/ (\E w \in Watch : Callback(w)) \/ Network \/ Restart \/ Backend

ConsoleSpec == ConsoleInit /\ [][ConsoleNext]_allVars

\* Timers fire, callbacks run, requests arrive, a stream nobody reads any more is
\* noticed, and generators are read.
ConsoleFairness ==
  /\ WF_allVars(Reattach)
  /\ \A w \in Watch :
       /\ WF_allVars(Callback(w))
       /\ WF_allVars(Request(w))
       /\ WF_allVars(Disconnect(w))
       /\ WF_allVars(ReadWatch(w) /\ UNCHANGED consoleVars)

\* Nothing is assumed of the run, which may stay silent for ever.
FairConsoleSpec == ConsoleSpec /\ ConsoleFairness

----------------------------------------------------------------------------
(* Properties.                                                             *)

\* Across reattaches and changes of run, the screen shows the watched run's
\* events in order, each once (run-lifecycle/spec.md, "Network drop during a
\* live run"; use-jobs.ts:347-350).
ScreenInOrder == watching # <<>> => Prefix(screen, collected[watching[1]])

\* A console that says "done" shows the whole run and its own result, however
\* often it was reattached.
DoneIsComplete ==
  phase = "done" =>
    /\ watching # <<>>
    /\ screen = collected[watching[1]]
    /\ shownResult = result[watching[1]]

\* What a console shows is its run, in order, and whole when it says so.
ScreenIsTrue == ScreenInOrder /\ DoneIsComplete

\* One stream at a time: a watch that was left is closed, whatever the order of
\* its errors, its timer and the next start.
OneStream ==
  \A w \in Watch : conn[w] = "open" => current = <<w>> /\ genOf[w] = generation

Silent(g) == {w \in Watch : genOf[w] = g /\ conn[w] = "over" /\ ~answered[w]}

\* The hook only gives up on an attach that was never answered: refused by the API, or
\* the last of MaxAttempts of one start; never because of many short interruptions.
GivesUpOnlyWhenUnreachable ==
  phase = "error" =>
    \E g \in 1 .. generation :
      Silent(g) # {} /\ (MayRefuse \/ Cardinality(Silent(g)) >= MaxAttempts)

\* A console does not stay "running" after its run: it shows the result, falls
\* back to the stored one, or gives up.
ConsoleSettles ==
  phase = "running" /\ exec[watching[1]] # "running"
    ~> phase # "running" \/ exec[watching[1]] = "running"

\* Changing run, stopping or leaving the page releases the previous watch in the
\* backend, also while its run is silent.
LeftWatchesReleased ==
  \A w \in Watch :
    conn[w] # "unused" /\ genOf[w] # generation ~> watch[w] \in {"free", "ended"}

\* Whoever stays learns how the run ended: a watcher from the registry, the console from
\* its stream, the row, or by giving up.
StayersLearnTheEnd == WatchersGetResult /\ ConsoleSettles

\* Whatever is left is released, the watcher in the backend and the stream of the hook.
LeaversLeaveNothing == LeaversAreReleased /\ LeftWatchesReleased

(* The inductive invariant.                                                *)

\* The stream of the present generation, if there is one, is `current`; an answer
\* resets the count of attempts.
StreamInv ==
  /\ retry => current = <<>> /\ watching # <<>>
  /\ watching # <<>> => generation >= 1
  /\ \A w \in Watch :
       /\ genOf[w] <= generation
       /\ current = <<w>> => conn[w] \in {"open", "lost", "refused"} /\ genOf[w] = generation
       /\ conn[w] \in {"open", "lost", "refused"} /\ genOf[w] = generation => current = <<w>>
       /\ conn[w] = "open" => genOf[w] = generation
       /\ conn[w] = "closed" => genOf[w] < generation
       /\ conn[w] = "unused" => watch[w] = "free" /\ received[w] = 0
       /\ conn[w] = "refused" => ~answered[w] /\ MayRefuse
       /\ answered[w] => watch[w] # "free"
       /\ conn[w] # "unused" /\ genOf[w] = generation =>
            /\ watching = <<runOf[w]>> /\ received[w] <= shown
            /\ answered[w] /\ conn[w] \in {"open", "lost"} => attempt = 0

\* What is on screen is the first `shown` events of the run.
ScreenInv ==
  /\ watching # <<>> => Len(screen) = shown /\ Prefix(screen, collected[watching[1]])
  /\ phase = "done" => DoneIsComplete /\ result[watching[1]] # None

\* At most one attempt more than attaches that went unanswered.
SilentInv ==
  /\ retry \/ current # <<>> =>
       /\ IsFiniteSet(Silent(generation))
       /\ Cardinality(Silent(generation)) + 1 >= attempt
  /\ phase = "error" =>
       \E g \in 1 .. generation :
         /\ IsFiniteSet(Silent(g)) /\ Silent(g) # {}
         /\ MayRefuse \/ Cardinality(Silent(g)) >= MaxAttempts

ConsoleInv == ConsoleTypeOK /\ LiveRunsInv /\ StreamInv /\ ScreenInv /\ SilentInv
=============================================================================
