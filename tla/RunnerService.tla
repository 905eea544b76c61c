---------------------------- MODULE RunnerService ----------------------------
(***************************************************************************)
(* The run RPCs of the ansible service (apps/ansible/app/grpc/services/    *)
(* runner.py): a call takes a run slot, writes its key files, runs Ansible *)
(* in a worker thread, forwards its frames, removes the files and gives    *)
(* the slot back.                                                          *)
(*                                                                         *)
(* One call is three parties: the RPC's own task, which takes frames from  *)
(* a queue of one place and writes them to the client; the pump task,      *)
(* which drives the nested generators _run_bundle, _serve, _stream_runner  *)
(* and AnsibleRunner.stream; and the thread of ansible-runner.  A client   *)
(* may cancel, or its deadline pass, at any of their steps.                *)
(***************************************************************************)
EXTENDS Naturals, FiniteSets

CONSTANTS
  Calls,       \* calls of RunBundle, RunPing, RunCommand, RunScript
  MaxRuns,     \* max_concurrent_runs: the slots, and the threads of RUN_EXECUTOR
  MaxFrames    \* frames of a run, the terminal one included: a bound

ASSUME RunnerServiceAssumption ==
  /\ IsFiniteSet(Calls)
  /\ MaxRuns \in Nat \ {0}
  /\ MaxFrames \in Nat \ {0}

VARIABLES
  rpc,      \* the RPC's task: taking a frame, writing one, cancelled, over
  queue,    \* frames in the queue between the pump and the RPC: 0 or 1
  pump,     \* where the pump, inside the generators, is
  left,     \* frames of the run the pump has not put yet
  files,    \* the run directory, and the thread that writes or removes it
  worker,   \* the job of ansible-runner in RUN_EXECUTOR
  stop,     \* cancel_event of the run is set
  dropped,  \* the generator of stream() awaits the event loop's finalizer
  hasty,    \* calls cleaned up while the generator of stream() is dropped
  late,     \* calls cleaned up because CANCEL_WAIT_S passed
  leaky     \* calls whose `materialized` nobody holds

callVars == <<rpc, queue>>
runVars == <<left, worker, stop, dropped>>
histVars == <<hasty, late, leaky>>
runnerVars == <<callVars, pump, runVars, files, histVars>>

RunnerTypeOK ==
  /\ rpc \in [Calls -> {"none", "taking", "writing", "cancelled", "over"}]
  /\ queue \in [Calls -> 0..1]
  /\ pump \in [Calls -> {"entry", "preparing", "next", "putting", "stopping",
                         "cleaning", "ended"}]
  /\ left \in [Calls -> 0..MaxFrames]
  /\ files \in [Calls -> {"none", "writing", "present", "removing", "removed"}]
  /\ worker \in [Calls -> {"none", "queued", "running", "exited"}]
  /\ stop \in [Calls -> BOOLEAN]
  /\ dropped \in [Calls -> BOOLEAN]
  /\ hasty \subseteq Calls
  /\ late \subseteq Calls
  /\ leaky \subseteq Calls

RunnerInit ==
  /\ rpc = [c \in Calls |-> "none"]
  /\ queue = [c \in Calls |-> 0]
  /\ pump = [c \in Calls |-> "entry"]
  /\ left = [c \in Calls |-> 0]
  /\ files = [c \in Calls |-> "none"]
  /\ worker = [c \in Calls |-> "none"]
  /\ stop = [c \in Calls |-> FALSE]
  /\ dropped = [c \in Calls |-> FALSE]
  /\ hasty = {}
  /\ late = {}
  /\ leaky = {}

\* Calls between RUN_SLOTS.acquire and release
Holding == {c \in Calls : pump[c] \notin {"entry", "ended"}}

\* Calls whose thread is, or will be, executing Ansible
Working == {c \in Calls : worker[c] \in {"queued", "running"}}

\* Calls that did not wait for the end of their thread
Abandoned == hasty \cup late

IsOpen(c) == rpc[c] \in {"taking", "writing", "cancelled"}

-----------------------------------------------------------------------------
(* Admission and materialization *)

Call(c) ==
  /\ rpc[c] = "none"
  /\ rpc' = [rpc EXCEPT ![c] = "taking"]
  /\ UNCHANGED <<queue, pump, runVars, files, histVars>>

MutSlotFree == Cardinality(Holding) <= MaxRuns

SlotFree == Cardinality(Holding) < MaxRuns

\* RUN_SLOTS.locked() and acquire(), which does not suspend when a slot is free,
\* then the thread of `prepare` is started.
Admit(c) ==
  /\ pump[c] = "entry" /\ IsOpen(c)
  /\ SlotFree
  /\ pump' = [pump EXCEPT ![c] = "preparing"]
  /\ files' = [files EXCEPT ![c] = "writing"]
  /\ UNCHANGED <<callVars, runVars, histVars>>

\* RESOURCE_EXHAUSTED, or an error frame before a slot is asked for.
Reject(c) ==
  /\ pump[c] = "entry" /\ IsOpen(c)
  /\ pump' = [pump EXCEPT ![c] = "ended"]
  /\ UNCHANGED <<callVars, runVars, files, histVars>>

\* materialize returns: stream() submits the run to RUN_EXECUTOR.
Prepared(c) ==
  /\ pump[c] = "preparing"
  /\ files' = [files EXCEPT ![c] = "present"]
  /\ pump' = [pump EXCEPT ![c] = "next"]
  /\ worker' = [worker EXCEPT ![c] = "queued"]
  /\ \E n \in 1..MaxFrames : left' = [left EXCEPT ![c] = n]
  /\ UNCHANGED <<callVars, stop, dropped, histVars>>

\* materialize raises and has removed its directory; materialize_hosts raises
\* and has not.
PrepareFails(c) ==
  /\ pump[c] = "preparing"
  /\ pump' = [pump EXCEPT ![c] = "ended"]
  /\ \/ files' = [files EXCEPT ![c] = "removed"] /\ UNCHANGED leaky
     \/ files' = [files EXCEPT ![c] = "present"] /\ leaky' = leaky \cup {c}
  /\ UNCHANGED <<callVars, runVars, hasty, late>>

\* The thread of `prepare` of a call that no longer awaits it returns.
PreparedForNobody(c) ==
  /\ files[c] = "writing" /\ pump[c] # "preparing"
  /\ files' = [files EXCEPT ![c] = "present"]
  /\ UNCHANGED <<callVars, pump, runVars, histVars>>

-----------------------------------------------------------------------------
(* The worker thread *)

Start(c) ==
  /\ worker[c] = "queued"
  /\ Cardinality({d \in Calls : worker[d] = "running"}) < MaxRuns
  /\ worker' = [worker EXCEPT ![c] = "running"]
  /\ UNCHANGED <<callVars, pump, left, stop, dropped, files, histVars>>

Exit(c) ==
  /\ worker[c] = "running"
  /\ worker' = [worker EXCEPT ![c] = "exited"]
  /\ UNCHANGED <<callVars, pump, left, stop, dropped, files, histVars>>

\* ansible-runner polls cancel_callback.
ExitOnStop(c) == stop[c] /\ Exit(c)

-----------------------------------------------------------------------------
(* The pump *)

\* The terminal frame without the `await task` before it.
MutFrame(c) ==
  /\ pump[c] = "next"
  /\ left[c] > 0
  /\ left' = [left EXCEPT ![c] = @ - 1]
  /\ IF queue[c] = 0
       THEN queue' = [queue EXCEPT ![c] = 1] /\ UNCHANGED pump
       ELSE pump' = [pump EXCEPT ![c] = "putting"] /\ UNCHANGED queue
  /\ UNCHANGED <<rpc, worker, stop, dropped, files, histVars>>

\* A frame reaches the pump's queue.put; the terminal one only after the end of
\* the worker.
Frame(c) ==
  /\ pump[c] = "next"
  /\ left[c] > 0
  /\ left[c] = 1 => worker[c] = "exited"
  /\ left' = [left EXCEPT ![c] = @ - 1]
  /\ IF queue[c] = 0
       THEN queue' = [queue EXCEPT ![c] = 1] /\ UNCHANGED pump
       ELSE pump' = [pump EXCEPT ![c] = "putting"] /\ UNCHANGED queue
  /\ UNCHANGED <<rpc, worker, stop, dropped, files, histVars>>

Put(c) ==
  /\ pump[c] = "putting"
  /\ queue[c] = 0
  /\ queue' = [queue EXCEPT ![c] = 1]
  /\ pump' = [pump EXCEPT ![c] = "next"]
  /\ UNCHANGED <<rpc, runVars, files, histVars>>

\* The inner finally of _serve: cleanup in a thread
Clean(c) ==
  /\ pump' = [pump EXCEPT ![c] = "cleaning"]
  /\ files' = [files EXCEPT ![c] = "removing"]

Finish(c) ==
  /\ pump[c] = "next"
  /\ left[c] = 0
  /\ Clean(c)
  /\ UNCHANGED <<callVars, runVars, histVars>>

Removed(c) ==
  /\ files[c] = "removing"
  /\ files' = [files EXCEPT ![c] = "removed"]
  /\ UNCHANGED <<callVars, pump, runVars, histVars>>

\* The release outside a finally.
MutRelease(c) ==
  /\ pump[c] = "cleaning"
  /\ files[c] = "removed"
  /\ rpc[c] # "over"
  /\ pump' = [pump EXCEPT ![c] = "ended"]
  /\ UNCHANGED <<callVars, runVars, files, histVars>>

\* The outer finally of _serve: RUN_SLOTS.release()
Release(c) ==
  /\ pump[c] = "cleaning"
  /\ files[c] = "removed"
  /\ pump' = [pump EXCEPT ![c] = "ended"]
  /\ UNCHANGED <<callVars, runVars, files, histVars>>

-----------------------------------------------------------------------------
(* The RPC's task *)

Take(c) ==
  /\ rpc[c] = "taking"
  /\ queue[c] = 1
  /\ queue' = [queue EXCEPT ![c] = 0]
  /\ rpc' = [rpc EXCEPT ![c] = "writing"]
  /\ UNCHANGED <<pump, runVars, files, histVars>>

\* Nothing to take for the interval: a heartbeat
Heartbeat(c) ==
  /\ rpc[c] = "taking"
  /\ queue[c] = 0
  /\ pump[c] # "ended"
  /\ rpc' = [rpc EXCEPT ![c] = "writing"]
  /\ UNCHANGED <<queue, pump, runVars, files, histVars>>

Written(c) ==
  /\ rpc[c] = "writing"
  /\ rpc' = [rpc EXCEPT ![c] = "taking"]
  /\ UNCHANGED <<queue, pump, runVars, files, histVars>>

Return(c) ==
  /\ rpc[c] = "taking"
  /\ queue[c] = 0
  /\ pump[c] = "ended"
  /\ rpc' = [rpc EXCEPT ![c] = "over"]
  /\ UNCHANGED <<queue, pump, runVars, files, histVars>>

-----------------------------------------------------------------------------
(* Cancellation: the client goes away or the deadline passes.  The RPC's task is
   cancelled while it takes or writes a frame, and _with_heartbeats, in its own
   finally, cancels the pump wherever that is. *)

Cancel(c) ==
  /\ rpc[c] \in {"taking", "writing"}
  /\ rpc' = [rpc EXCEPT ![c] = "cancelled"]
  /\ UNCHANGED <<queue, pump, runVars, files, histVars>>

PumpCancelled(c) ==
  /\ rpc[c] = "cancelled"
  /\ rpc' = [rpc EXCEPT ![c] = "over"]
  /\ UNCHANGED <<queue, left, worker>>

\* Before a slot is taken, or after everything.
CancelIdle(c) ==
  /\ PumpCancelled(c)
  /\ pump[c] \in {"entry", "ended"}
  /\ pump' = [pump EXCEPT ![c] = "ended"]
  /\ UNCHANGED <<stop, dropped, files, histVars>>

\* In the await of prepare, outside the try whose finally cleans up: the slot is
\* released, and the thread writes on.
CancelPreparing(c) ==
  /\ PumpCancelled(c)
  /\ pump[c] = "preparing"
  /\ pump' = [pump EXCEPT ![c] = "ended"]
  /\ leaky' = leaky \cup {c}
  /\ UNCHANGED <<stop, dropped, files, hasty, late>>

\* Inside stream(): its finally stops the run and waits for the thread, unless
\* it has ended.
CancelNext(c) ==
  /\ PumpCancelled(c)
  /\ pump[c] = "next"
  /\ IF worker[c] = "exited"
       THEN Clean(c) /\ UNCHANGED stop
       ELSE /\ stop' = [stop EXCEPT ![c] = TRUE]
            /\ pump' = [pump EXCEPT ![c] = "stopping"]
            /\ UNCHANGED files
  /\ UNCHANGED <<dropped, histVars>>

\* In queue.put, with the generators suspended at their yields: aclose reaches
\* only the outermost.  What it iterates over is dropped and finalized by the
\* event loop, each in a task of its own, so the finally of _serve does not wait
\* for that of stream().
CancelPutting(c) ==
  /\ PumpCancelled(c)
  /\ pump[c] = "putting"
  /\ Clean(c)
  /\ IF worker[c] = "exited"
       THEN UNCHANGED <<dropped, hasty>>
       ELSE /\ dropped' = [dropped EXCEPT ![c] = TRUE]
            /\ hasty' = hasty \cup {c}
  /\ UNCHANGED <<stop, late, leaky>>

\* In the await of cleanup: the slot is released, and the thread goes on.
CancelCleaning(c) ==
  /\ PumpCancelled(c)
  /\ pump[c] = "cleaning"
  /\ pump' = [pump EXCEPT ![c] = "ended"]
  /\ UNCHANGED <<stop, dropped, files, histVars>>

\* A finally that only waits.
MutFinalize(c) ==
  /\ dropped[c]
  /\ dropped' = [dropped EXCEPT ![c] = FALSE]
  /\ UNCHANGED <<callVars, pump, left, worker, stop, files, histVars>>

\* The finalizer of stream(): its finally
Finalize(c) ==
  /\ dropped[c]
  /\ dropped' = [dropped EXCEPT ![c] = FALSE]
  /\ stop' = [stop EXCEPT ![c] = TRUE]
  /\ UNCHANGED <<callVars, pump, left, worker, files, histVars>>

MutWorkerEnded(c) == TRUE

WorkerEnded(c) == worker[c] = "exited"

\* wait_for(shield(task)) returns.
Stopped(c) ==
  /\ pump[c] = "stopping"
  /\ WorkerEnded(c)
  /\ Clean(c)
  /\ UNCHANGED <<callVars, runVars, histVars>>

\* The files left to a thread that may still read them.
MutStopTimesOut(c) ==
  /\ pump[c] = "stopping"
  /\ worker[c] # "exited"
  /\ pump' = [pump EXCEPT ![c] = "ended"]
  /\ UNCHANGED files
  /\ late' = late \cup {c}
  /\ UNCHANGED <<callVars, runVars, hasty, leaky>>

\* CANCEL_WAIT_S passes: the processes are killed, and their thread may still run.
StopTimesOut(c) ==
  /\ pump[c] = "stopping"
  /\ worker[c] # "exited"
  /\ Clean(c)
  /\ late' = late \cup {c}
  /\ UNCHANGED <<callVars, runVars, hasty, leaky>>

-----------------------------------------------------------------------------
Prepare(c) == Admit(c) \/ Reject(c) \/ Prepared(c) \/ PrepareFails(c)
Forward(c) == Frame(c) \/ Put(c) \/ Finish(c) \/ Release(c)
Serve(c) == Take(c) \/ Written(c) \/ Return(c)
Unwind(c) == \/ CancelIdle(c) \/ CancelPreparing(c) \/ CancelNext(c)
             \/ CancelPutting(c) \/ CancelCleaning(c)
Stopping(c) == Stopped(c) \/ StopTimesOut(c)

Step(c) ==
  \/ Call(c) \/ Prepare(c) \/ PreparedForNobody(c) \/ Start(c) \/ Exit(c)
  \/ Forward(c) \/ Removed(c) \/ Serve(c) \/ Heartbeat(c) \/ Cancel(c)
  \/ Unwind(c) \/ Finalize(c) \/ Stopping(c)

RunnerNext == \E c \in Calls : Step(c)

RunnerSpec == RunnerInit /\ [][RunnerNext]_runnerVars

(* Tasks and threads go on; the backend gives every call a deadline, so each is
   cancelled unless it ends; a playbook ends when it is told to, and need not
   end of itself. *)
RunnerFairness ==
  \A c \in Calls :
    /\ WF_runnerVars(Prepare(c)) /\ WF_runnerVars(PreparedForNobody(c))
    /\ WF_runnerVars(Start(c)) /\ WF_runnerVars(ExitOnStop(c))
    /\ WF_runnerVars(Forward(c)) /\ WF_runnerVars(Removed(c))
    /\ WF_runnerVars(Cancel(c)) /\ WF_runnerVars(Unwind(c)) /\ WF_runnerVars(Finalize(c))
    /\ WF_runnerVars(Stopping(c))

FairRunnerSpec == RunnerSpec /\ RunnerFairness

-----------------------------------------------------------------------------
(* Properties *)

(* What a call holds at each point: a slot of the MaxRuns; its directory, whole,
   while stream() is open; no thread of Ansible outside stream(), but one left
   behind, which has been or is about to be told to stop; and no terminal frame
   before the thread has ended. *)
HeldBy(c) ==
  /\ pump[c] = "entry" => files[c] = "none" /\ worker[c] = "none"
  /\ pump[c] = "preparing" => files[c] = "writing" /\ worker[c] = "none"
  /\ pump[c] \in {"next", "putting", "stopping"} =>
       files[c] = "present" /\ worker[c] # "none"
  /\ pump[c] \in {"next", "putting"} /\ left[c] = 0 => worker[c] = "exited"
  /\ pump[c] = "stopping" => stop[c]
  /\ pump[c] = "cleaning" => files[c] \in {"removing", "removed"}
  /\ files[c] = "removing" => pump[c] \in {"cleaning", "ended"}
  /\ worker[c] \in {"queued", "running"} =>
       \/ pump[c] \in {"next", "putting", "stopping"}
       \/ c \in Abandoned /\ (dropped[c] \/ stop[c])
  /\ dropped[c] => c \in hasty

RunnerInv ==
  /\ RunnerTypeOK
  /\ Cardinality(Holding) <= MaxRuns
  /\ \A c \in Calls : HeldBy(c)

(* A run's key files are there for as long as Ansible may read them: they are
   removed under a run only when it was cancelled with its pump in queue.put, or
   outlived CANCEL_WAIT_S (runner.py:212-215, services/ansible/runner.py:249-270). *)
FilesOutliveWorker ==
  \A c \in Working \ Abandoned : files[c] \notin {"removing", "removed"}

(* The same of every run that stops within CANCEL_WAIT_S: "The Ansible service SHALL delete a run's scratch
   directory [...] only after the ansible-runner worker has exited, on success,
   failure, and cancellation alike" (run-lifecycle/spec.md:23). *)
FilesOutliveStoppedWorker ==
  \A c \in Working \ late : files[c] \notin {"removing", "removed"}

(* An admitted run finds a thread: when its job waits in RUN_EXECUTOR though
   every thread is taken, one is taken by a run that was cleaned up too early.
   Slots and threads are counted apart, and agree only as far as a slot is kept
   to the end of the thread ("SHALL NOT be queued silently"). *)
NoSilentQueueing ==
  \A c \in Calls :
    /\ worker[c] = "queued"
    /\ Cardinality({d \in Calls : worker[d] = "running"}) >= MaxRuns
    => \E d \in Abandoned : worker[d] = "running" \/ d = c

(* Every call gives its slot back. *)
SlotsReturn == \A c \in Calls : pump[c] = "preparing" ~> pump[c] = "ended"

(* A run whose call is gone stops, wherever the cancellation found it: by the
   finally of stream(), or by that of its finalizer. *)
CancelledRunsStop ==
  \A c \in Calls : rpc[c] = "cancelled" ~> c \notin Working

(* The key files of every run are removed in the end, except those of a call
   cancelled while they were being written, or that failed to write them
   (runner.py:224-230). *)
FilesRemoved ==
  \A c \in Calls : files[c] = "present" /\ c \notin leaky ~> files[c] = "removed"

(* A call gives back all it took. *)
CallsCleanUp == SlotsReturn /\ FilesRemoved
=============================================================================
