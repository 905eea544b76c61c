------------------------------ MODULE RunStream ------------------------------
(***************************************************************************)
(* Interactive runs, which nothing records: the page's stream              *)
(* (features/run/hooks/use-run-stream.ts), the procedure that feeds it     *)
(* (packages/api/src/v1/run/stream-handler.ts) and the call of the ansible *)
(* service under it (run/proto.ts, packages/grpc/src/client.ts).  Pings,   *)
(* commands, scripts and playbooks differ in what they resolve only.       *)
(***************************************************************************)
EXTENDS Naturals, Sequences, FiniteSets

CONSTANTS
  MaxAttempts,  \* bound: streams a page starts
  MaxEvents,    \* bound: events of a run
  Slots         \* runs the service takes at once

ASSUME RunStreamAssumption == {MaxAttempts, MaxEvents, Slots} \subseteq Nat

VARIABLES
  started,   \* streams started so far; the last one is the page's
  watching,  \* the page's generation is still that of its stream
  screen,    \* phase, events, result, error
  open,      \* per stream: the browser has not closed it, nor lost it
  wire,      \* what is on its way to the browser
  served,    \* "none", "resolving", "streaming" or "closed": the procedure
  aborted,   \* its signal
  remote,    \* "none", "running" or "ended": the run in the ansible service
  emitted    \* events the run has sent

pageSide == <<started, watching, screen, open>>
procedureSide == <<served, aborted>>
remoteSide == <<remote, emitted>>
streamVars == <<pageSide, wire, procedureSide, remoteSide>>

Attempt == 1 .. MaxAttempts
Failure == {"refused", "busy", "lost", "failed", "internal", "connection"}
Message == [is : {"event"}, n : 1 .. MaxEvents] \cup [is : {"done"}] \cup [is : Failure]

RunStreamTypeOK ==
  /\ started \in 0 .. MaxAttempts /\ watching \in BOOLEAN
  /\ screen \in [phase : {"idle", "running", "done", "error", "cancelled"},
                 events : Seq(Attempt \X (1 .. MaxEvents)), error : Failure \cup {"none"}]
  /\ open \in [Attempt -> BOOLEAN] /\ wire \in [Attempt -> Seq(Message)]
  /\ served \in [Attempt -> {"none", "resolving", "streaming", "closed"}]
  /\ aborted \in [Attempt -> BOOLEAN]
  /\ remote \in [Attempt -> {"none", "running", "ended"}]
  /\ emitted \in [Attempt -> 0 .. MaxEvents]

Blank(phase) == [phase |-> phase, events |-> <<>>, error |-> "none"]

RunStreamInit ==
  /\ started = 0 /\ watching = FALSE /\ screen = Blank("idle")
  /\ open = [a \in Attempt |-> FALSE] /\ wire = [a \in Attempt |-> <<>>]
  /\ served = [a \in Attempt |-> "none"] /\ aborted = [a \in Attempt |-> FALSE]
  /\ remote = [a \in Attempt |-> "none"] /\ emitted = [a \in Attempt |-> 0]

----------------------------------------------------------------------------
(* The hook.                                                               *)

\* mutant: the stream is left open
MutDetach == open
\* detach: the generation moves on, and the stream is closed.
Detach == [a \in Attempt |-> IF watching /\ a = started THEN FALSE ELSE open[a]]

\* start and retry.
StartStream ==
  /\ started < MaxAttempts /\ started' = started + 1 /\ watching' = TRUE
  /\ screen' = Blank("running")
  /\ open' = [Detach EXCEPT ![started'] = TRUE]
  /\ served' = [served EXCEPT ![started'] = "resolving"]
  /\ UNCHANGED <<wire, aborted, remoteSide>>

\* stopWatching may come long after the click: a run that finished keeps its result.
StopWatching ==
  /\ watching /\ watching' = FALSE /\ open' = Detach
  /\ screen' = [screen EXCEPT !.phase = IF @ = "running" THEN "cancelled" ELSE @]
  /\ UNCHANGED <<started, wire, procedureSide, remoteSide>>

\* reset, and leaving the page.
ResetStream ==
  /\ watching' = FALSE /\ open' = Detach /\ screen' = Blank("idle")
  /\ UNCHANGED <<started, wire, procedureSide, remoteSide>>

\* mutant: callbacks of an earlier stream are taken too
MutCurrent(a) == TRUE
\* generation === generationRef.current
Current(a) == watching /\ a = started

\* The callbacks, which a closed stream may still call.
Callback(a) ==
  LET m == Head(wire[a]) IN
  /\ wire[a] # <<>> /\ wire' = [wire EXCEPT ![a] = Tail(@)]
  /\ open' = IF m.is = "event" THEN open ELSE [open EXCEPT ![a] = FALSE]
  /\ screen' = IF ~Current(a) THEN screen
               ELSE CASE m.is = "event" -> [screen EXCEPT !.events = Append(@, <<a, m.n>>)]
                      [] m.is = "done"  -> [screen EXCEPT !.phase = "done"]
                      [] OTHER          -> [screen EXCEPT !.phase = "error", !.error = m.is]
  /\ UNCHANGED <<started, watching, procedureSide, remoteSide>>

\* The connection to the backend goes.
Disconnect(a) ==
  /\ open[a] /\ open' = [open EXCEPT ![a] = FALSE]
  /\ wire' = [wire EXCEPT ![a] = <<[is |-> "connection"]>>]
  /\ UNCHANGED <<started, watching, screen, procedureSide, remoteSide>>

----------------------------------------------------------------------------
(* The procedure.                                                          *)

Says(a, m) == wire' = [wire EXCEPT ![a] = IF open[a] THEN Append(@, m) ELSE @]

CloseWith(a, m) == served' = [served EXCEPT ![a] = "closed"] /\ Says(a, m)

\* A closed stream aborts the procedure's signal; a call in flight is cancelled.
AbortSignal(a) ==
  /\ ~open[a] /\ served[a] \in {"resolving", "streaming"} /\ ~aborted[a]
  /\ aborted' = [aborted EXCEPT ![a] = TRUE]
  /\ served' = [served EXCEPT ![a] = IF @ = "streaming" THEN "closed" ELSE @]
  /\ UNCHANGED <<pageSide, wire, remoteSide>>

RefuseRun(a) ==
  /\ served[a] = "resolving" /\ CloseWith(a, [is |-> "refused"])
  /\ UNCHANGED <<pageSide, aborted, remoteSide>>

\* mutant: the signal is only looked at between events
MutMayOpen(a) == TRUE
\* serverStream: an aborted signal never opens a call.
MayOpen(a) == ~aborted[a]

Busy == Cardinality({a \in Attempt : remote[a] = "running"}) >= Slots

OpenCall(a) ==
  /\ served[a] = "resolving"
  /\ IF MayOpen(a) /\ ~Busy
       THEN /\ served' = [served EXCEPT ![a] = "streaming"]
            /\ remote' = [remote EXCEPT ![a] = "running"] /\ UNCHANGED wire
       ELSE CloseWith(a, [is |-> "busy"]) /\ UNCHANGED remote
  /\ UNCHANGED <<pageSide, aborted, emitted>>

\* mutant: a lost stream is told like a run that failed
MutLostAs == "failed"
\* interactive: which error the page is told.
LostAs == "lost"

\* The call breaks (INTERNAL, UNAVAILABLE, CANCELLED), or its deadline passes, which the
\* page is told as an internal error.
BreakCall(a) ==
  /\ served[a] = "streaming"
  /\ \E why \in {LostAs, "internal"} : CloseWith(a, [is |-> why])
  /\ UNCHANGED <<pageSide, aborted, remoteSide>>

----------------------------------------------------------------------------
(* The ansible service.                                                    *)

EmitEvent(a) ==
  /\ remote[a] = "running" /\ served[a] = "streaming" /\ emitted[a] < MaxEvents
  /\ emitted' = [emitted EXCEPT ![a] = @ + 1]
  /\ Says(a, [is |-> "event", n |-> emitted'[a]])
  /\ UNCHANGED <<pageSide, procedureSide, remote>>

EndRemote(a) ==
  /\ remote[a] = "running" /\ served[a] = "streaming"
  /\ remote' = [remote EXCEPT ![a] = "ended"]
  /\ \E how \in {"done", "failed"} : CloseWith(a, [is |-> how])
  /\ UNCHANGED <<pageSide, aborted, emitted>>

\* The service notices that its call is gone.
StopRemote(a) ==
  /\ remote[a] = "running" /\ served[a] = "closed"
  /\ remote' = [remote EXCEPT ![a] = "ended"]
  /\ UNCHANGED <<pageSide, wire, procedureSide, emitted>>

RunStreamNext ==
  \/ StartStream \/ StopWatching \/ ResetStream
  \/ \E a \in Attempt :
       \/ Callback(a) \/ Disconnect(a)
       \/ AbortSignal(a) \/ RefuseRun(a) \/ OpenCall(a) \/ BreakCall(a)
       \/ EmitEvent(a) \/ EndRemote(a) \/ StopRemote(a)

RunStreamSpec == RunStreamInit /\ [][RunStreamNext]_streamVars

----------------------------------------------------------------------------
(* Properties.                                                             *)

\* The console shows the events of its last stream alone, in order and without gaps,
\* however late those of earlier streams come (use-run-stream.ts:63-77).
ConsoleShowsOneRun == \A i \in DOMAIN screen.events : screen.events[i] = <<started, i>>

\* A run is shown as done only when it is, with all its events; as refused or busy only
\* when it never reached the hosts, and as failed only when it has ended
\* (stream-handler.ts:59-69).
OutcomeIsTrue ==
  LET a == started IN
  /\ screen.phase = "done" => remote[a] = "ended" /\ Len(screen.events) = emitted[a]
  /\ screen.error \in {"refused", "busy"} => remote[a] = "none"
  /\ screen.error = "failed" => remote[a] = "ended"

\* No run goes on that no page watches and nothing will stop: its stream is closed, which
\* aborts the procedure, or the procedure has ended, which cancels the call.
NoRunLeftAlone ==
  \A a \in Attempt : remote[a] = "running" =>
    \/ Current(a) /\ screen.phase = "running"
    \/ ~open[a] /\ ~aborted[a]
    \/ served[a] = "closed"

\* What a person stopped stays as it was: nothing arrives until another stream starts.
StoppedStays ==
  [][screen.phase = "cancelled" /\ screen' # screen =>
       started' # started \/ screen'.phase = "idle"]_streamVars

\* What the page shows of its run is so, and what it has left is stopped.
StreamsAreTrue ==
  [](ConsoleShowsOneRun /\ OutcomeIsTrue /\ NoRunLeftAlone) /\ StoppedStays
=============================================================================
