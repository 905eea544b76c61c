----------------------------- MODULE MCJobRuns -----------------------------
(***************************************************************************)
(* Instances of JobRuns for TLC.                                           *)
(***************************************************************************)
EXTENDS JobRuns, TLC

\* Every job hashes to the same key: the lock of one job delays another.
MCKeyOf == [j \in Job |-> CHOOSE k \in Key : TRUE]

\* Runs, jobs and users are only compared for equality.
Symmetry == Permutations(Run) \cup Permutations(Job) \cup Permutations(User)

\* One run is begun by a person and the other by the scheduler.
LiveInit ==
  /\ Init
  /\ LET first == CHOOSE r \in Run : TRUE
     IN \A r \in Run : trigger[r] = "manual" <=> r = first

LiveSpec == LiveInit /\ [][Next]_vars /\ Fairness
=============================================================================
