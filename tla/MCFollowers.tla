------------------------------ MODULE MCFollowers ------------------------------
(***************************************************************************)
(* What a browser is eventually told of runs: who watches one learns its   *)
(* end, and the pages that show its row catch up.  RunConsole and          *)
(* RunChanges, each on a small instance and with its own fairness: a       *)
(* behaviour is one of either.  Changes are alike and so are streams: they *)
(* are taken in one order, in place of a SYMMETRY.                         *)
(***************************************************************************)
EXTENDS RunChanges

CONSTANTS
  Run, Watch, Status, None,   \* of RunConsole
  MaxEvents, MaxCrashes, MaxAttempts, MaxMoves, MayRefuse,
  c1, c2, s1, s2, w1, w2

----------------------------------------------------------------------------
(* The console of a run over the registry of live runs.                    *)

VARIABLES
  exec, collected, result, entry, events, watch, runOf, replay, doneBefore,
  messages, aborted, out, end, restarts, watching, showing, screen,
  shownResult, timer, subscription, generation, shown, attempt, stream, genOf,
  answered, received, losses

Console == INSTANCE RunConsole WITH
  queue <- messages, crashes <- restarts, phase <- showing,
  retry <- timer, current <- subscription, conn <- stream, drops <- losses

registryVars == <<exec, collected, result, entry, events, watch, runOf, replay,
                  doneBefore, messages, aborted, out, end, restarts>>
screenVars == <<watching, showing, screen, shownResult, timer, subscription,
                generation, shown, attempt, stream, genOf, answered, received,
                losses>>
consoleVars == <<registryVars, screenVars>>

----------------------------------------------------------------------------
VARIABLE part

allVars == <<part, vars, consoleVars>>

Watching(A) == part = "console" /\ A /\ UNCHANGED <<part, vars>>
Following(A) == part = "changes" /\ A /\ UNCHANGED <<part, consoleVars>>

MCInit ==
  /\ part \in {"console", "changes"}
  /\ Init /\ Console!ConsoleInit

InOrder ==
  /\ stream[w2] # "unused" => stream[w1] # "unused"
  /\ conn[s2] # "unused" => conn[s1] # "unused"
  /\ c2 \in made => c1 \in made

MCNext == (Watching(Console!ConsoleNext) \/ Following(Next)) /\ InOrder'

\* RunConsole's ConsoleFairness and RunChanges' Fairness, each of its own part.
MCFairness ==
  /\ WF_allVars(Watching(Console!Reattach))
  /\ \A w \in Watch :
       /\ WF_allVars(Watching(Console!Callback(w)))
       /\ WF_allVars(Watching(Console!Request(w)))
       /\ WF_allVars(Watching(Console!Disconnect(w)))
       /\ WF_allVars(Watching(Console!ReadWatch(w) /\ UNCHANGED screenVars))
  /\ WF_allVars(Following(RecoverOrphanedRuns)) /\ WF_allVars(Following(Query))
  /\ WF_allVars(Following(Start)) /\ WF_allVars(Following(Reconnect))
  /\ \A c \in Change : WF_allVars(Following(PublishRunChange(c)))
  /\ \A s \in Stream : /\ WF_allVars(Following(Hook(s)))
                       /\ WF_allVars(Following(Backend(s)))

MCSpec == MCInit /\ [][MCNext]_allVars /\ MCFairness

----------------------------------------------------------------------------
(* The properties of RunConsole.                                           *)

\* Who stays with a run is told its end (RunConsole.StayersLearnTheEnd).
StayersLearnTheEnd == Console!StayersLearnTheEnd

\* Who leaves a run leaves nothing behind (RunConsole.LeaversLeaveNothing).
LeaversLeaveNothing == Console!LeaversLeaveNothing
=============================================================================
