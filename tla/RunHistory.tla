----------------------------- MODULE RunHistory -----------------------------
(***************************************************************************)
(* The rows of job runs as pages show them: the feed of all runs by keyset *)
(* cursor (jobs.runs.listAll), the runs of one job by offset               *)
(* (jobs.runs.list), each an infinite query that loads, reloads and grows  *)
(* while runs start, finish and go, and the jobs' rates on the dashboard   *)
(* (jobs.runs.rollups).                                                    *)
(***************************************************************************)
EXTENDS Integers, Sequences, FiniteSets

CONSTANTS
  Run,        \* natural numbers, in the order of the random ids
  RunJob,
  PageSize,
  Recent,     \* the runs a job's rate counts
  MaxClock    \* bound: microseconds, two to a millisecond

ASSUME RunHistoryAssumption ==
  /\ Run \subseteq Nat /\ IsFiniteSet(Run) /\ PageSize \in Nat \ {0} /\ Recent \in Nat /\ MaxClock \in Nat

VARIABLES
  clock,
  ofJob,      \* the job of each run
  runRow,     \* "new", "opening", a status, or "gone"
  stamp,      \* created_at: now() of the transaction that opens the run
  deletedJob,
  \* An infinite query.
  feedOf,     \* the job whose runs it lists, or "all"
  pages,      \* its data, sets of runs
  coming,     \* the pages of the fetch under way
  wanted,     \* how many it fetches; 0 is no fetch
  \* History: the runs there were when the first page was read.
  found, foundComing

historyRows == <<clock, ofJob, runRow, stamp, deletedJob>>
pageVars == <<feedOf, pages, coming, wanted, found, foundComing>>
historyVars == <<historyRows, pageVars>>

Finished == {"ok", "failed", "cancelled"}

RunHistoryTypeOK ==
  /\ clock \in 0 .. MaxClock /\ ofJob \in [Run -> RunJob]
  /\ runRow \in [Run -> {"new", "opening", "running", "gone"} \cup Finished]
  /\ stamp \in [Run -> 0 .. MaxClock] /\ deletedJob \subseteq RunJob
  /\ feedOf \in RunJob \cup {"all"}
  /\ pages \in Seq(SUBSET Run) /\ coming \in Seq(SUBSET Run) /\ wanted \in Nat
  /\ found \subseteq Run /\ foundComing \subseteq Run

RunHistoryInit ==
  /\ clock = 0 /\ ofJob \in [Run -> RunJob]
  /\ runRow = [r \in Run |-> "new"] /\ stamp = [r \in Run |-> 0] /\ deletedJob = {}
  /\ feedOf \in RunJob \cup {"all"}
  /\ pages = <<>> /\ coming = <<>> /\ wanted = 0 /\ found = {} /\ foundComing = {}

----------------------------------------------------------------------------
(* Rows.  A run is seen once the transaction that opens it has committed.  *)

Tick == clock < MaxClock /\ clock' = clock + 1 /\ UNCHANGED <<ofJob, runRow, stamp, deletedJob>>

OpenRow(r) ==
  /\ runRow[r] = "new" /\ ofJob[r] \notin deletedJob
  /\ runRow' = [runRow EXCEPT ![r] = "opening"] /\ stamp' = [stamp EXCEPT ![r] = clock]
  /\ UNCHANGED <<clock, ofJob, deletedJob>>

CommitRow(r) ==
  /\ runRow[r] = "opening"
  /\ runRow' = [runRow EXCEPT ![r] = IF ofJob[r] \in deletedJob THEN "gone" ELSE "running"]
  /\ UNCHANGED <<clock, ofJob, stamp, deletedJob>>

FinishRow(r, s) ==
  /\ runRow[r] = "running" /\ runRow' = [runRow EXCEPT ![r] = s]
  /\ UNCHANGED <<clock, ofJob, stamp, deletedJob>>

\* ON DELETE CASCADE.
Visible == {r \in Run : runRow[r] \in {"running"} \cup Finished}

DeleteRunJob(j) ==
  /\ deletedJob' = deletedJob \cup {j}
  /\ runRow' = [r \in Run |-> IF r \in Visible /\ ofJob[r] = j THEN "gone" ELSE runRow[r]]
  /\ UNCHANGED <<clock, ofJob, stamp>>

HistoryEdit ==
  \/ Tick
  \/ \E r \in Run : OpenRow(r) \/ CommitRow(r) \/ \E s \in Finished : FinishRow(r, s)
  \/ \E j \in RunJob : DeleteRunJob(j)

----------------------------------------------------------------------------
(* The two queries.  Both order by created_at, then id, newest first.      *)

Before(r, s) == stamp[r] > stamp[s] \/ (stamp[r] = stamp[s] /\ r > s)
Rank(r, S) == Cardinality({s \in S : Before(s, r)})
Oldest(P) == CHOOSE r \in P : \A s \in P \ {r} : Before(s, r)
Millisecond(t) == t \div 2

\* mutant: the row of the cursor is read again
MutPast(r, last) == stamp[r] <= 2 * Millisecond(stamp[last])
\* mutant: both columns of the cursor must be smaller
MutPastBoth(r, last) == stamp[r] <= 2 * Millisecond(stamp[last]) /\ r < last
\* The cursor is the last row's id and created_at, in whole milliseconds.
Past(r, last) ==
  LET c == 2 * Millisecond(stamp[last]) IN
  stamp[r] < c \/ (stamp[r] = c /\ r < last)

ListAll(last) ==
  LET S == {r \in Visible : last = <<>> \/ Past(r, last[1])} IN
  {r \in S : Rank(r, S) < PageSize}

\* mutant: the offset counts one batch more than was loaded
MutOffset(P) == (Len(P) + 1) * PageSize
Offset(P) == Len(P) * PageSize

List(j, P) ==
  LET S == {r \in Visible : ofJob[r] = j} IN
  {r \in S : Offset(P) <= Rank(r, S) /\ Rank(r, S) < Offset(P) + PageSize}

\* getNextPageParam: a page that is not full is the last one.
HasNext(P) == P = <<>> \/ Cardinality(P[Len(P)]) = PageSize

NextPage(P) ==
  IF feedOf = "all" THEN ListAll(IF P = <<>> THEN <<>> ELSE <<Oldest(P[Len(P)])>>)
  ELSE List(feedOf, P)

----------------------------------------------------------------------------
(* The infinite query.  A new fetch replaces the one under way.            *)

\* First load, or a change of a run: every page again, one after the other.
Reload ==
  /\ wanted' = IF pages = <<>> THEN 1 ELSE Len(pages)
  /\ coming' = <<>> /\ foundComing' = {} /\ UNCHANGED <<feedOf, pages, found>>

\* The end of the list scrolls into view.
LoadMore ==
  /\ pages # <<>> /\ HasNext(pages) /\ ~(wanted > Len(pages))
  /\ wanted' = Len(pages) + 1 /\ coming' = pages /\ foundComing' = found
  /\ UNCHANGED <<feedOf, pages, found>>

Complete == Len(coming) = wanted \/ ~HasNext(coming)

ReadPage ==
  /\ wanted > 0 /\ ~Complete
  /\ coming' = Append(coming, NextPage(coming))
  /\ foundComing' = IF coming = <<>> THEN Visible ELSE foundComing
  /\ UNCHANGED <<feedOf, pages, wanted, found>>

EndFetch == wanted' = 0 /\ coming' = <<>> /\ foundComing' = {} /\ UNCHANGED feedOf

ShowPages == wanted > 0 /\ Complete /\ pages' = coming /\ found' = foundComing /\ EndFetch
FetchFails == wanted > 0 /\ EndFetch /\ UNCHANGED <<pages, found>>

RunHistoryNext ==
  \/ HistoryEdit /\ UNCHANGED pageVars
  \/ UNCHANGED historyRows /\ (Reload \/ LoadMore \/ ReadPage \/ ShowPages \/ FetchFails)

RunHistorySpec == RunHistoryInit /\ [][RunHistoryNext]_historyVars

----------------------------------------------------------------------------
(* Rates.                                                                  *)

Rate(S) == [ok |-> Cardinality({r \in S : runRow[r] = "ok"}),
            of |-> Cardinality(S) - Cardinality({r \in S : runRow[r] = "cancelled"})]

OfJob(j) == {r \in Visible : ofJob[r] = j}

\* mutant: the last runs of all jobs together
MutLatest(j) == {r \in OfJob(j) : Rank(r, Visible) < Recent}
Latest(j) == {r \in OfJob(j) : Rank(r, OfJob(j)) < Recent}

\* A job's rate on the dashboard; runs stopped by hand do not count.
Rollup(j) == Rate(Latest(j))

----------------------------------------------------------------------------
(* Properties.                                                             *)

Shown == UNION {pages[i] : i \in DOMAIN pages}

\* The feed shows no run twice and every page after the one before, whatever starts,
\* commits late or is deleted between its requests (handler.ts:395-398).
FeedInOrder ==
  feedOf = "all" =>
    \A i, k \in DOMAIN pages : i < k => \A r \in pages[i], s \in pages[k] : Before(r, s)

\* The feed leaves out no run that it found and that is still there, above the last one it
\* shows or, at its end, anywhere, but for runs opened within the millisecond of the
\* last run of a page, which its cursor skips.
FeedSkipsOnlyMilliseconds ==
  feedOf = "all" /\ pages # <<>> =>
    \A r \in (found \cap Visible) \ Shown :
      \/ HasNext(pages) /\ \A s \in Shown : Before(s, r)
      \/ \E i \in DOMAIN pages :
           /\ pages[i] # {} /\ Before(Oldest(pages[i]), r)
           /\ Millisecond(stamp[Oldest(pages[i])]) = Millisecond(stamp[r])

\* A job's list by offset leaves out none: runs that land between two requests only push
\* rows into the next page, where the page drops what it has seen (handler.ts:359).
ListLeavesOutNone ==
  feedOf # "all" /\ pages # <<>> =>
    \A r \in (found \cap OfJob(feedOf)) \ Shown :
      HasNext(pages) /\ \A s \in Shown \cap found : Before(s, r)

\* Whatever starts, finishes or goes of other jobs, even in the same microsecond, a job's
\* rate on the dashboard stays what its own runs make it (handler.ts:482-484).
RatesAreOwn ==
  [][\A j \in RunJob :
       (\A r \in Run : ofJob[r] = j => runRow'[r] = runRow[r]) => Rollup(j)' = Rollup(j)]_historyVars

\* Lists of runs that load while runs come and go are in order and complete, and the
\* rates beside them are those of their jobs.
HistoryIsTold ==
  [](FeedInOrder /\ FeedSkipsOnlyMilliseconds /\ ListLeavesOutNone) /\ RatesAreOwn
=============================================================================
