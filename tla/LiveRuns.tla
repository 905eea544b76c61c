------------------------------ MODULE LiveRuns ------------------------------
(***************************************************************************)
(* The live registry of packages/api/src/v1/jobs/live.ts: every run in     *)
(* progress keeps its events in memory, so that `jobs.runs.watch` replays  *)
(* what it missed to a late watcher and then streams the rest.             *)
(*                                                                         *)
(* Watchers read at their own pace.  The run's frame loop publishes        *)
(* between any two reads; a watcher may leave, and the process may crash,  *)
(* at any point.  The publisher of events.ts is a queue per listener.      *)
(***************************************************************************)
EXTENDS Naturals, Sequences

CONSTANTS
  Run,        \* run ids
  Watch,      \* calls of jobs.runs.watch
  Status,     \* the terminal statuses a result carries
  None,       \* no result yet, and the `null` a watch may return
  MaxEvents,  \* bound: task events of a run
  MaxCrashes  \* bound: restarts of the backend

ASSUME LiveRunsAssumption ==
  /\ None \notin Status
  /\ Status \cap (Run \X Nat) = {}
  /\ MaxEvents \in Nat
  /\ MaxCrashes \in Nat

VARIABLES
  \* The executor of each run, and what streamRun has collected to store.
  exec,       \* "idle", "running" or "over"
  collected,  \* the events pushed by the frame loop, in order
  result,     \* the terminal status, once the run has finished
  \* The registry.
  entry,      \* "absent", "live" or "done" (LiveRun.done is set)
  events,     \* LiveRun.events
  \* Each watch: a suspended generator and its subscription.
  watch,      \* "free", "called", "attached" or "ended"
  runOf,      \* the run it was called for
  replay,     \* what is left of the copied buffer
  doneBefore, \* LiveRun.done at the moment of the copy
  queue,      \* messages queued by the publisher for this listener
  aborted,    \* its request's signal
  out,        \* the events it has yielded
  end,        \* <<>> until the generator returns, then <<value>>
  crashes

execVars  == <<exec, collected, result>>
liveVars  == <<entry, events>>
watchVars == <<watch, runOf, replay, doneBefore, queue, aborted, out, end>>
vars == <<execVars, liveVars, watchVars, crashes>>

\* The n-th task event of run r.
Event == Run \X Nat

\* What a watch has returned.
Ending == {<<>>} \cup {<<v>> : v \in Status \cup {None}}

TypeOK ==
  /\ exec \in [Run -> {"idle", "running", "over"}]
  /\ collected \in [Run -> Seq(Event)]
  /\ result \in [Run -> Status \cup {None}]
  /\ entry \in [Run -> {"absent", "live", "done"}]
  /\ events \in [Run -> Seq(Event)]
  /\ watch \in [Watch -> {"free", "called", "attached", "ended"}]
  /\ runOf \in [Watch -> Run]
  /\ replay \in [Watch -> Seq(Event)]
  /\ doneBefore \in [Watch -> Status \cup {None}]
  /\ queue \in [Watch -> Seq(Event \cup Status)]
  /\ aborted \in [Watch -> BOOLEAN]
  /\ out \in [Watch -> Seq(Event)]
  /\ end \in [Watch -> Ending]
  /\ crashes \in Nat

Init ==
  /\ exec = [r \in Run |-> "idle"]
  /\ collected = [r \in Run |-> <<>>]
  /\ result = [r \in Run |-> None]
  /\ entry = [r \in Run |-> "absent"]
  /\ events = [r \in Run |-> <<>>]
  /\ watch = [w \in Watch |-> "free"]
  /\ runOf \in [Watch -> Run]
  /\ replay = [w \in Watch |-> <<>>]
  /\ doneBefore = [w \in Watch |-> None]
  /\ queue = [w \in Watch |-> <<>>]
  /\ aborted = [w \in Watch |-> FALSE]
  /\ out = [w \in Watch |-> <<>>]
  /\ end = [w \in Watch |-> <<>>]
  /\ crashes = 0

----------------------------------------------------------------------------
(* The publisher (events.ts): a listener is registered with its first read *)
(* and removed in the generator's `finally`.                               *)

\* mutant: the watcher only subscribes once it has replayed the buffer
MutListening(w, r) == watch[w] = "attached" /\ runOf[w] = r /\ replay[w] = <<>>
Listening(w, r) == watch[w] = "attached" /\ runOf[w] = r

MutEnqueue(q, m) == <<m>> \* mutant: a bounded buffer that drops the oldest
Enqueue(q, m) == Append(q, m)

PublishRunMessage(r, m) ==
  queue' = [w \in Watch |-> IF Listening(w, r) THEN Enqueue(queue[w], m)
                                               ELSE queue[w]]

----------------------------------------------------------------------------
(* The run (executor.ts and the registry's begin, publish and finish).     *)

BeginLiveRun(r) ==
  /\ exec[r] = "idle"
  /\ exec' = [exec EXCEPT ![r] = "running"]
  /\ entry' = [entry EXCEPT ![r] = "live"]
  /\ events' = [events EXCEPT ![r] = <<>>]
  /\ UNCHANGED <<collected, result, watchVars, crashes>>

\* A task frame: collected, then published.
TaskFrame(r) ==
  /\ exec[r] = "running"
  /\ Len(collected[r]) < MaxEvents
  /\ LET e == <<r, Len(collected[r]) + 1>> IN
       /\ collected' = [collected EXCEPT ![r] = Append(@, e)]
       /\ IF entry[r] = "absent"
            THEN UNCHANGED <<events, queue>>
            ELSE /\ events' = [events EXCEPT ![r] = Append(@, e)]
                 /\ PublishRunMessage(r, e)
  /\ UNCHANGED <<exec, result, entry, watch, runOf, replay, doneBefore, aborted,
                 out, end, crashes>>

FinishLiveRun(r, s) ==
  /\ exec[r] = "running"
  /\ exec' = [exec EXCEPT ![r] = "over"]
  /\ result' = [result EXCEPT ![r] = s]
  /\ IF entry[r] = "absent"
       THEN UNCHANGED <<entry, queue>>
       ELSE /\ entry' = [entry EXCEPT ![r] = "done"]
            /\ PublishRunMessage(r, s)
  /\ UNCHANGED <<collected, events, watch, runOf, replay, doneBefore, aborted,
                 out, end, crashes>>

\* FINISHED_RUN_TTL_MS later.
ForgetLiveRun(r) ==
  /\ entry[r] = "done"
  /\ entry' = [entry EXCEPT ![r] = "absent"]
  /\ events' = [events EXCEPT ![r] = <<>>]
  /\ UNCHANGED <<execVars, watchVars, crashes>>

----------------------------------------------------------------------------
(* watchLiveRun.  The handler returns a generator whose body only starts   *)
(* with the first read.                                                    *)

WatchRun(w, r) ==
  /\ watch[w] = "free"
  /\ watch' = [watch EXCEPT ![w] = "called"]
  /\ runOf' = [runOf EXCEPT ![w] = r]
  /\ UNCHANGED <<execVars, liveVars, replay, doneBefore, queue, aborted, out, end,
                 crashes>>

Return(w, v) ==
  /\ watch' = [watch EXCEPT ![w] = "ended"]
  /\ end' = [end EXCEPT ![w] = <<v>>]

\* mutant: a run that had already finished is followed like a live one
MutDoneAtCopy(r) == None
DoneAtCopy(r) == result[r]

\* Subscribing and copying the buffer happen with no await in between.
Attach(w) ==
  /\ watch[w] = "called"
  /\ IF entry[runOf[w]] = "absent" \/ aborted[w]
       THEN Return(w, None) /\ UNCHANGED <<replay, doneBefore>>
       ELSE /\ watch' = [watch EXCEPT ![w] = "attached"]
            /\ replay' = [replay EXCEPT ![w] = events[runOf[w]]]
            /\ doneBefore' = [doneBefore EXCEPT ![w] = DoneAtCopy(runOf[w])]
            /\ UNCHANGED end
  /\ UNCHANGED <<execVars, liveVars, runOf, queue, aborted, out, crashes>>

YieldReplay(w) ==
  /\ watch[w] = "attached"
  /\ replay[w] # <<>>
  /\ replay' = [replay EXCEPT ![w] = Tail(@)]
  /\ out' = [out EXCEPT ![w] = Append(@, Head(replay[w]))]
  /\ UNCHANGED <<execVars, liveVars, watch, runOf, doneBefore, queue, aborted, end,
                 crashes>>

ReturnDoneBefore(w) ==
  /\ watch[w] = "attached"
  /\ replay[w] = <<>>
  /\ doneBefore[w] # None
  /\ Return(w, doneBefore[w])
  /\ UNCHANGED <<execVars, liveVars, runOf, replay, doneBefore, queue, aborted, out,
                 crashes>>

\* The next queued message: an event, or the end marker.  Once the signal has
\* aborted, reading throws instead.
ReadLive(w) ==
  /\ watch[w] = "attached"
  /\ ~aborted[w]
  /\ replay[w] = <<>>
  /\ doneBefore[w] = None
  /\ queue[w] # <<>>
  /\ queue' = [queue EXCEPT ![w] = Tail(@)]
  /\ LET m == Head(queue[w]) IN
       IF m \in Status
         THEN Return(w, m) /\ UNCHANGED out
         ELSE out' = [out EXCEPT ![w] = Append(@, m)] /\ UNCHANGED <<watch, end>>
  /\ UNCHANGED <<execVars, liveVars, runOf, replay, doneBefore, aborted, crashes>>

\* The client closes the stream, or its connection is lost.
Abort(w) ==
  /\ watch[w] \in {"called", "attached"}
  /\ ~aborted[w]
  /\ aborted' = [aborted EXCEPT ![w] = TRUE]
  /\ UNCHANGED <<execVars, liveVars, watch, runOf, replay, doneBefore, queue, out,
                 end, crashes>>

\* mutant: the abort is only noticed with the run's next message
MutReleased(w) == aborted[w] /\ queue[w] # <<>>
Released(w) == aborted[w]

\* The subscription throws the abort reason, or the transport returns the
\* generator: it ends without waiting for the run.
Leave(w) ==
  /\ watch[w] = "attached"
  /\ Released(w)
  /\ Return(w, None)
  /\ UNCHANGED <<execVars, liveVars, runOf, replay, doneBefore, queue, aborted, out,
                 crashes>>

\* The process restarts: registry and generators are gone, and so are the
\* runs it was executing.
Crash ==
  /\ crashes < MaxCrashes
  /\ crashes' = crashes + 1
  /\ exec' = [r \in Run |-> IF exec[r] = "running" THEN "over" ELSE exec[r]]
  /\ entry' = [r \in Run |-> "absent"]
  /\ events' = [r \in Run |-> <<>>]
  /\ watch' = [w \in Watch |-> IF watch[w] = "free" THEN "free" ELSE "ended"]
  /\ aborted' = [w \in Watch |-> aborted[w] \/ watch[w] \in {"called", "attached"}]
  /\ UNCHANGED <<collected, result, runOf, replay, doneBefore, queue, out, end>>

----------------------------------------------------------------------------

RunStep ==
  \E r \in Run :
    \/ BeginLiveRun(r) \/ TaskFrame(r) \/ ForgetLiveRun(r)
    \/ \E s \in Status : FinishLiveRun(r, s)

\* What one read of the generator can do.
ReadWatch(w) ==
  Attach(w) \/ YieldReplay(w) \/ ReturnDoneBefore(w) \/ ReadLive(w) \/ Leave(w)

WatchStep ==
  \E w \in Watch :
    \/ ReadWatch(w) \/ Abort(w)
    \/ \E r \in Run : WatchRun(w, r)

Next == RunStep \/ WatchStep \/ Crash
Spec == Init /\ [][Next]_vars

\* The client keeps reading the stream it opened.  Nothing is assumed of the
\* run, which may stay silent for ever.
FairSpec == Spec /\ \A w \in Watch : WF_vars(ReadWatch(w))

----------------------------------------------------------------------------
(* Properties.                                                             *)

Prefix(s, t) == Len(s) <= Len(t) /\ \A i \in 1 .. Len(s) : s[i] = t[i]

\* Every watcher has received a prefix of what the run stores: its events, in
\* order, none twice and none of another run, however late it attached and
\* however slowly it reads (live.ts:112-115).
ExactlyOnceInOrder == \A w \in Watch : Prefix(out[w], collected[runOf[w]])

\* A watch that ends with a result ends with that of its run, after the last
\* event: the console shows what the row will (live.ts:105-110).
EndIsComplete ==
  \A w \in Watch : \A s \in Status :
    end[w] = <<s>> => /\ s = result[runOf[w]]
                      /\ out[w] = collected[runOf[w]]

\* A watch tells its run as it was, from the first event to the result.
ToldAsItWas == ExactlyOnceInOrder /\ EndIsComplete

\* A watcher that attached and stays receives the result of its run once there
\* is one, even if the run had finished before it attached and is forgotten
\* while it reads.
WatchersGetResult ==
  \A w \in Watch :
    watch[w] = "attached" /\ result[runOf[w]] # None
      ~> aborted[w] \/ \E s \in Status : end[w] = <<s>>

\* A watcher that leaves is released even if its run stays silent for ever
\* (live.ts:115, run-lifecycle/spec.md:163).
LeaversAreReleased == \A w \in Watch : aborted[w] ~> watch[w] = "ended"

----------------------------------------------------------------------------
(* The inductive invariant.                                                *)

\* Everything a listener present from the start would have been sent.
Log(r) == IF result[r] = None THEN collected[r] ELSE Append(collected[r], result[r])

EntryInv ==
  \A r \in Run :
    /\ exec[r] = "idle" => collected[r] = <<>>
    /\ result[r] # None => exec[r] = "over"
    /\ entry[r] # "absent" =>
         /\ events[r] = collected[r]
         /\ entry[r] = "live" <=> exec[r] = "running"
         /\ entry[r] = "done" <=> result[r] # None
    /\ exec[r] = "running" => entry[r] = "live"

\* Sent, left to replay and queued make up the log.
Balanced(w) ==
  IF doneBefore[w] = None
    THEN out[w] \o (replay[w] \o queue[w]) = Log(runOf[w])
    ELSE /\ doneBefore[w] = result[runOf[w]]
         /\ out[w] \o replay[w] = collected[runOf[w]]

WatchInv ==
  \A w \in Watch :
    /\ watch[w] \in {"free", "called"} =>
         out[w] = <<>> /\ queue[w] = <<>> /\ replay[w] = <<>> /\ end[w] = <<>>
    /\ watch[w] = "attached" => /\ exec[runOf[w]] # "idle"
                                /\ end[w] = <<>>
                                /\ Balanced(w)

LiveRunsInv == TypeOK /\ EntryInv /\ WatchInv /\ ExactlyOnceInOrder /\ EndIsComplete
=============================================================================
