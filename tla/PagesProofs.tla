----------------------------- MODULE PagesProofs -----------------------------
(***************************************************************************)
(* Proofs about what the pages show.                                       *)
(*                                                                         *)
(* A cached query, for every set of mutations, of whichever hooks.         *)
(* FreshWhenSettled speaks of moments when no mutation is under way and is *)
(* not inductive: FreshInv says what holds in between.  A mutation that    *)
(* has not begun left no trace anywhere (a row can only come from its      *)
(* patch or from a read of the database); one whose refresh came is in     *)
(* every answer that is still on its way, unless it joined a fetch that    *)
(* began before it, and in fresh data, unless a patch of another mutation  *)
(* hides that the data is old: then that other one will invalidate it.     *)
(*                                                                         *)
(* The stream of an interactive run, for any number of streams, events and *)
(* slots.  StreamInv says what the messages on the wire of each stream     *)
(* still may tell the page: events that follow those on the screen, one    *)
(* end after the last of them, and an end that is true of the run.         *)
(*                                                                         *)
(* The pages of the inventory, for any devices, groups, calls and dialogs. *)
(* InventoryPageInv says of each list apart when what it shows, and what   *)
(* an answer on its way tells, is what is stored: a list of devices or     *)
(* groups unless the page waits for a delete of it, one of memberships for *)
(* each pair of which both ends are there, unless the page is yet to hear  *)
(* of a change of that pair.                                               *)
(*                                                                         *)
(* Lists of runs, for any runs and any times of requests.  HistoryInv says *)
(* the same of the pages shown and of those that come: which rows they may *)
(* have passed over, and, by offset, that a run not yet shown has as many  *)
(* before it as were asked for, whatever landed since.                     *)
(***************************************************************************)
EXTENDS ResourceCache, RunStream, InventoryPage, RunHistory, PageListsProofs,
        SequenceTheorems, FiniteSetTheorems, TLAPS

----------------------------------------------------------------------------
(* ResourceCache.                                                          *)

\* The mutation patches the query before its answer, and is not settled.
Patching(m) ==
  /\ step[m] \in {"calling", "committed", "rejected"}
  /\ query = hook[m].list /\ hook[m].does # "assign"

NoTrace(m) ==
  /\ data # NoData => m \notin data
  /\ before # NoData => m \notin before
  /\ \A n \in Mutation : snapshot[n] # NoData => m \notin snapshot[n]
  /\ m \notin answer

HasRefreshed(m) ==
  step[m] \in {"ok", "error"} /\ query \in Refreshed(hook[m], step[m] = "ok")

FreshData(m) ==
  data # NoData /\ ~stale /\ (\A n \in Mutation : ~Patching(n)) => m \in data \/ m \in passed
FreshAnswer(m) == fetch = "read" => m \in answer \/ m \in passed

FetchedIsStale == fetch # "idle" => (data # NoData => stale)

FreshInv ==
  /\ ResourceCacheTypeOK
  /\ FetchedIsStale
  /\ \A m \in Mutation : step[m] = "idle" => NoTrace(m)
  /\ \A m \in Mutation : HasRefreshed(m) => FreshData(m) /\ FreshAnswer(m)

(* A mutation that patches the query refreshes it when it settles. *)
LEMMA PatchedIsRefreshed ==
  ASSUME NEW m \in Mutation, Patching(m), NEW ok \in BOOLEAN
  PROVE  query \in Refreshed(hook[m], ok)
BY DEF Patching, Refreshed

LEMMA CacheTypes == CacheInit => ResourceCacheTypeOK
<1> SUFFICES ASSUME CacheInit PROVE ResourceCacheTypeOK
  OBVIOUS
<1>1. hook \in [Mutation -> Hooks]
  BY DEF CacheInit
<1> QED
  BY <1>1 DEF CacheInit, ResourceCacheTypeOK, Content

LEMMA CacheTypesStep ==
  ASSUME ResourceCacheTypeOK, [CacheNext]_cacheVars
  PROVE  ResourceCacheTypeOK'
<1> USE DEF ResourceCacheTypeOK, Content
<1>1. Stored \subseteq Mutation
  BY DEF Stored
<1>2. CASE UNCHANGED <<hook, query>> /\ QueryClient /\ UNCHANGED mutationVars
  <2>1. UNCHANGED <<hook, query, step, snapshot>>
    BY <1>2 DEF mutationVars
  <2>2. CASE Use \/ Refocus \/ Prefetch
    BY <2>1, <2>2 DEF Use, Refocus, Prefetch, Load, Fetch
  <2>3. CASE Leave
    BY <2>1, <2>3 DEF Leave, NoFetch, Cancel
  <2>4. CASE Forget \/ Age
    BY <2>1, <2>4 DEF Forget, Age
  <2>5. CASE Read
    BY <1>1, <2>1, <2>5 DEF Read
  <2>6. CASE Answer
    BY <2>1, <2>6 DEF Answer, NoFetch
  <2> QED
    BY <1>2, <2>2, <2>3, <2>4, <2>5, <2>6 DEF QueryClient
<1>3. ASSUME UNCHANGED <<hook, query>>, NEW m \in Mutation, Mutate(m)
      PROVE  ResourceCacheTypeOK'
  <2>1. Cancel \in (SUBSET Mutation) \cup {NoData}
    BY DEF Cancel
  <2>2. Cancel # NoData => Cancel \cup {m} \in SUBSET Mutation
    BY <1>3, <2>1
  <2>3. step' \in [Mutation -> {"idle", "calling", "committed", "rejected",
                               "ok", "error", "lost", "late"}]
    BY <1>3 DEF Mutate, Goes
  <2>4. CASE query = hook[m].list /\ hook[m].does # "assign"
    BY <1>3, <2>1, <2>2, <2>3, <2>4 DEF Mutate, NoFetch
  <2>5. CASE ~(query = hook[m].list /\ hook[m].does # "assign")
    BY <1>3, <2>3, <2>5 DEF Mutate, entryVars
  <2> QED
    BY <2>4, <2>5
<1>4. ASSUME UNCHANGED <<hook, query>>, NEW m \in Mutation, Commit(m),
             UNCHANGED <<snapshot, entryVars>>
      PROVE  ResourceCacheTypeOK'
  BY <1>4 DEF Commit, Goes, entryVars
<1>5. ASSUME UNCHANGED <<hook, query>>, NEW m \in Mutation, NEW ok \in BOOLEAN, Settle(m, ok)
      PROVE  ResourceCacheTypeOK'
  <2> DEFINE kept == IF ~ok /\ query = hook[m].list /\ snapshot[m] # NoData
                        THEN snapshot[m] ELSE data
  <2>1. step' \in [Mutation -> {"idle", "calling", "committed", "rejected",
                               "ok", "error", "lost", "late"}]
        /\ snapshot' \in [Mutation -> Content]
    BY <1>5 DEF Settle, Goes
  <2>2. kept \in Content
    BY <1>5
  <2> HIDE DEF kept
  <2>3. \/ UNCHANGED entryVars
        \/ data' = NoData /\ stale' = FALSE /\ NoFetch /\ UNCHANGED <<seen, passed>>
        \/ Invalidate(m, kept)
    BY <1>5 DEF Settle, kept
  <2> QED
    BY <1>5, <2>1, <2>2, <2>3 DEF Invalidate, NoFetch, entryVars
<1>6. CASE UNCHANGED cacheVars
  BY <1>6 DEF cacheVars, mutationVars, entryVars
<1> QED
  BY <1>2, <1>3, <1>4, <1>5, <1>6 DEF CacheNext

LEMMA FreshStart == CacheInit => FreshInv
BY CacheTypes DEF CacheInit, FreshInv, FetchedIsStale, NoTrace, HasRefreshed, FreshData, FreshAnswer

(* What the query client does on its own. *)
LEMMA FreshClientStep ==
  ASSUME FreshInv, UNCHANGED <<hook, query>>, QueryClient, UNCHANGED mutationVars,
         ResourceCacheTypeOK'
  PROVE  FreshInv'
<1>1. UNCHANGED <<hook, query, step, snapshot>>
  BY DEF mutationVars
<1>2. FetchedIsStale'
  BY DEF FreshInv, FetchedIsStale, QueryClient, Use, Refocus, Prefetch, Leave, Forget, Age, Read,
     Answer, Load, Fetch, NoFetch
<1>3. ASSUME NEW m \in Mutation, step'[m] = "idle"
      PROVE  NoTrace(m)'
  <2>1. NoTrace(m) /\ m \notin Stored
    BY <1>1, <1>3 DEF FreshInv, Stored, Committed
  <2> QED
    BY <1>1, <2>1 DEF NoTrace, QueryClient, Use, Refocus, Prefetch, Leave, Forget, Age, Read, Answer,
       Load, Fetch, NoFetch, Cancel
<1>4. ASSUME NEW m \in Mutation, HasRefreshed(m)'
      PROVE  FreshData(m)' /\ FreshAnswer(m)'
  <2>1. HasRefreshed(m) /\ FreshData(m) /\ FreshAnswer(m) /\ FetchedIsStale
    BY <1>1, <1>4 DEF FreshInv, HasRefreshed
  <2>2. m \in Stored
    BY <2>1 DEF HasRefreshed, Stored, Committed
  <2>3. \A n \in Mutation : Patching(n)' <=> Patching(n)
    BY <1>1 DEF Patching
  <2> QED
    BY <2>1, <2>2, <2>3 DEF FreshData, FreshAnswer, FetchedIsStale, QueryClient, Use, Refocus,
       Prefetch, Leave, Forget, Age, Read, Answer, Load, Fetch, NoFetch, Cancel
<1> QED
  BY <1>2, <1>3, <1>4 DEF FreshInv

(* A mutation begins: it patches the query, or leaves the entry as it is. *)
LEMMA FreshMutateStep ==
  ASSUME FreshInv, UNCHANGED <<hook, query>>, NEW m \in Mutation, Mutate(m), ResourceCacheTypeOK'
  PROVE  FreshInv'
<1> DEFINE patches == query = hook[m].list /\ hook[m].does # "assign"
<1>1. step' = [step EXCEPT ![m] = "calling"] /\ step[m] = "idle"
  BY DEF Mutate, Goes
<1>2. step \in [Mutation -> {"idle", "calling", "committed", "rejected",
                            "ok", "error", "lost", "late"}]
      /\ snapshot \in [Mutation -> Content]
  BY DEF FreshInv, ResourceCacheTypeOK
<1>3. FetchedIsStale'
  BY DEF FreshInv, FetchedIsStale, Mutate, NoFetch, entryVars
<1>4. ASSUME NEW n \in Mutation, step'[n] = "idle"
      PROVE  NoTrace(n)'
  <2>1. n # m /\ NoTrace(n)
    BY <1>1, <1>2, <1>4 DEF FreshInv
  <2>2. CASE patches
    <3>1. Cancel # NoData => n \notin Cancel
      BY <2>1 DEF NoTrace, Cancel
    <3>2. /\ snapshot' = [snapshot EXCEPT ![m] = Cancel] /\ before' = NoData /\ answer' = {}
          /\ \/ data' = Cancel
             \/ data' = Cancel \cup {m} /\ Cancel # NoData
      BY <2>2 DEF Mutate, NoFetch
    <3> QED
      BY <1>2, <2>1, <3>1, <3>2 DEF NoTrace
  <2>3. CASE ~patches
    BY <2>1, <2>3 DEF Mutate, NoTrace, entryVars
  <2> QED
    BY <2>2, <2>3
<1>5. ASSUME NEW n \in Mutation, HasRefreshed(n)'
      PROVE  FreshData(n)' /\ FreshAnswer(n)'
  <2>1. n # m /\ HasRefreshed(n) /\ FreshData(n) /\ FreshAnswer(n)
    BY <1>1, <1>2, <1>5 DEF FreshInv, HasRefreshed
  <2>2. CASE patches
    <3>1. Patching(m)' /\ fetch' = "idle"
      BY <1>1, <1>2, <2>2 DEF Patching, Mutate, NoFetch
    <3> QED
      BY <3>1 DEF FreshData, FreshAnswer
  <2>3. CASE ~patches
    <3>1. \A k \in Mutation : Patching(k) => Patching(k)'
      BY <1>1, <1>2, <2>3 DEF Patching
    <3> QED
      BY <2>1, <2>3, <3>1 DEF Mutate, FreshData, FreshAnswer, entryVars
  <2> QED
    BY <2>2, <2>3
<1> QED
  BY <1>3, <1>4, <1>5 DEF FreshInv

(* The database takes a call, or refuses it. *)
LEMMA FreshCommitStep ==
  ASSUME FreshInv, UNCHANGED <<hook, query>>, NEW m \in Mutation, Commit(m),
         UNCHANGED <<snapshot, entryVars>>, ResourceCacheTypeOK'
  PROVE  FreshInv'
<1>1. PICK s \in {"committed", "rejected", "late"} :
        /\ step' = [step EXCEPT ![m] = s] /\ step[m] \in {"calling", "lost"}
        /\ step[m] = "calling" => s # "late"
  BY DEF Commit, Goes
<1>2. step \in [Mutation -> {"idle", "calling", "committed", "rejected",
                            "ok", "error", "lost", "late"}]
  BY DEF FreshInv, ResourceCacheTypeOK
<1>3. \A n \in Mutation : (step'[n] = "idle" => step[n] = "idle")
                       /\ (HasRefreshed(n)' => HasRefreshed(n))
                       /\ (Patching(n) => Patching(n)')
  BY <1>1, <1>2 DEF HasRefreshed, Patching
<1> QED
  BY <1>3 DEF FreshInv, FetchedIsStale, NoTrace, FreshData, FreshAnswer, entryVars

(* A mutation is answered, or given up. *)
LEMMA FreshSettleStep ==
  ASSUME FreshInv, UNCHANGED <<hook, query>>, NEW m \in Mutation, NEW ok \in BOOLEAN, Settle(m, ok),
         ResourceCacheTypeOK'
  PROVE  FreshInv'
<1> DEFINE kept == IF ~ok /\ query = hook[m].list /\ snapshot[m] # NoData
                      THEN snapshot[m] ELSE data
<1>1. PICK s \in {"ok", "error", "lost"} :
        /\ step' = [step EXCEPT ![m] = s] /\ (s = "ok") = ok
        /\ step[m] \in {"calling", "committed", "rejected"}
  BY DEF Settle, Goes
<1>2. step \in [Mutation -> {"idle", "calling", "committed", "rejected",
                            "ok", "error", "lost", "late"}]
      /\ snapshot \in [Mutation -> Content]
  BY DEF FreshInv, ResourceCacheTypeOK
<1>3. snapshot' = [snapshot EXCEPT ![m] = NoData]
  BY DEF Settle
<1>4. \/ query \notin Refreshed(hook[m], ok) /\ UNCHANGED entryVars
      \/ /\ data' = NoData /\ NoFetch
      \/ Invalidate(m, kept)
  BY DEF Settle
<1>5. FetchedIsStale'
  BY <1>4 DEF FreshInv, FetchedIsStale, NoFetch, Invalidate, entryVars
<1>6. ASSUME NEW n \in Mutation, step'[n] = "idle"
      PROVE  NoTrace(n)'
  <2>1. n # m /\ NoTrace(n)
    BY <1>1, <1>2, <1>6 DEF FreshInv
  <2>2. kept # NoData => n \notin kept
    BY <2>1 DEF NoTrace
  <2>3. \A k \in Mutation : snapshot'[k] # NoData => n \notin snapshot'[k]
    BY <1>2, <1>3, <2>1 DEF NoTrace
  <2> HIDE DEF kept
  <2> QED
    BY <1>4, <2>1, <2>2, <2>3 DEF NoTrace, NoFetch, Invalidate, entryVars
<1>7. ASSUME NEW n \in Mutation, HasRefreshed(n)'
      PROVE  FreshData(n)' /\ FreshAnswer(n)'
  <2> HIDE DEF kept
  <2>1. CASE Invalidate(m, kept)
    <3>1. n # m => FreshAnswer(n)
      BY <1>1, <1>2, <1>7 DEF FreshInv, HasRefreshed
    <3>2. ~(data' # NoData /\ ~stale')
      BY <2>1 DEF Invalidate
    <3> QED
      BY <2>1, <3>1, <3>2 DEF Invalidate, FreshData, FreshAnswer
  <2>2. CASE data' = NoData /\ NoFetch
    BY <2>2 DEF NoFetch, FreshData, FreshAnswer
  <2>3. CASE query \notin Refreshed(hook[m], ok) /\ UNCHANGED entryVars
    <3>1. n # m
      BY <1>1, <1>2, <1>7, <2>3 DEF HasRefreshed
    <3>2. HasRefreshed(n) /\ FreshData(n) /\ FreshAnswer(n)
      BY <1>1, <1>2, <1>7, <3>1 DEF FreshInv, HasRefreshed
    <3>3. ~Patching(m)
      BY <2>3, PatchedIsRefreshed
    <3>4. \A k \in Mutation : Patching(k) => Patching(k)'
      BY <1>1, <1>2, <3>3 DEF Patching
    <3> QED
      BY <2>3, <3>2, <3>4 DEF FreshData, FreshAnswer, entryVars
  <2> QED
    BY <1>4, <2>1, <2>2, <2>3
<1> QED
  BY <1>5, <1>6, <1>7 DEF FreshInv

LEMMA FreshStep ==
  ASSUME FreshInv, [CacheNext]_cacheVars
  PROVE  FreshInv'
<1>1. ResourceCacheTypeOK'
  BY CacheTypesStep DEF FreshInv
<1>2. CASE CacheNext
  BY <1>1, <1>2, FreshClientStep, FreshMutateStep, FreshCommitStep, FreshSettleStep DEF CacheNext
<1>3. CASE UNCHANGED cacheVars
  BY <1>3 DEF FreshInv, ResourceCacheTypeOK, Content, FetchedIsStale, NoTrace, HasRefreshed,
     FreshData, FreshAnswer, Patching, cacheVars, mutationVars, entryVars
<1> QED
  BY <1>2, <1>3

LEMMA FreshEnough == FreshInv => FreshWhenSettled
<1> SUFFICES ASSUME FreshInv, Settled, data # NoData, ~stale, NEW m \in Mutation, ~Excused(m)
             PROVE  m \in data <=> m \in Stored
  BY DEF FreshWhenSettled
<1>1. step[m] \in {"idle", "ok", "error"} /\ query \in Refreshed(hook[m], step[m] = "ok")
      /\ m \notin passed
  BY DEF Settled, Excused, FreshInv, ResourceCacheTypeOK
<1>2. CASE step[m] = "idle"
  BY <1>2 DEF FreshInv, NoTrace, Stored, Committed
<1>3. CASE step[m] # "idle"
  <2>1. m \in Stored /\ HasRefreshed(m)
    BY <1>1, <1>3 DEF Stored, Committed, HasRefreshed
  <2>2. \A n \in Mutation : ~Patching(n)
    BY DEF Settled, Patching
  <2> QED
    BY <1>1, <2>1, <2>2 DEF FreshInv, FreshData
<1> QED
  BY <1>2, <1>3

(* However mutations of every hook, fetches and pages overlap, a query that is shown as *)
(* fresh when no mutation is under way holds what the database does.                    *)
THEOREM FreshAlways == CacheSpec => []FreshWhenSettled
<1>1. CacheInit => FreshInv
  BY FreshStart
<1>2. FreshInv /\ [CacheNext]_cacheVars => FreshInv'
  BY FreshStep
<1>3. FreshInv => FreshWhenSettled
  BY FreshEnough
<1> QED
  BY <1>1, <1>2, <1>3, PTL DEF CacheSpec

----------------------------------------------------------------------------
(* RunStream.                                                              *)

NotStarted(a) ==
  a > started => /\ ~open[a] /\ wire[a] = <<>> /\ served[a] = "none" /\ ~aborted[a]
                 /\ remote[a] = "none" /\ emitted[a] = 0

Serves(a) ==
  /\ served[a] = "resolving" => remote[a] = "none"
  /\ served[a] = "streaming" => remote[a] = "running" /\ ~aborted[a]
  /\ remote[a] = "running" => served[a] \in {"streaming", "closed"}
  /\ served[a] = "none" => a > started

\* Only the stream that is watched is open, and all that its run sent is shown or on its way.
Opens(a) ==
  /\ open[a] => Current(a) /\ screen.phase = "running"
  /\ open[a] /\ served[a] # "closed" => emitted[a] = Len(screen.events) + Len(wire[a])
  /\ Current(a) /\ screen.phase # "running" => wire[a] = <<>>

Carries(a) ==
  \A i \in 1 .. Len(wire[a]) :
    LET m == wire[a][i] IN
    /\ m.is # "event" => i = Len(wire[a]) /\ (open[a] => served[a] = "closed")
    /\ m.is = "event" /\ Current(a) => m.n = Len(screen.events) + i
    /\ m.is = "done" => /\ remote[a] = "ended"
                        /\ Current(a) => emitted[a] = Len(screen.events) + i - 1
    /\ m.is = "failed" => remote[a] = "ended"
    /\ m.is \in {"refused", "busy"} => remote[a] = "none" /\ served[a] = "closed"

StreamOf(a) == NotStarted(a) /\ Serves(a) /\ Opens(a) /\ Carries(a)

OnScreen ==
  /\ watching => started > 0 /\ screen.phase \in {"running", "done", "error"}
  /\ screen.phase = "running" => watching
  /\ screen.phase # "idle" => started > 0
  /\ screen.error # "none" => started > 0
  /\ screen.error \in {"refused", "busy"} => served[started] = "closed"

ScreenInv == OnScreen /\ ConsoleShowsOneRun /\ OutcomeIsTrue

StreamInv == RunStreamTypeOK /\ ScreenInv /\ \A a \in Attempt : StreamOf(a)

LEMMA Messages ==
  /\ \A m \in Message : m.is \in {"event", "done"} \cup Failure
  /\ \A m \in Message : m.is = "event" => m.n \in 1 .. MaxEvents
  /\ \A n \in 1 .. MaxEvents : [is |-> "event", n |-> n] \in Message
  /\ \A why \in {"done"} \cup Failure : [is |-> why] \in Message
BY DEF Message, Failure

(* A step of one stream leaves the others as they were. *)
LEMMA OtherStreams ==
  ASSUME NEW a \in Attempt, StreamOf(a), UNCHANGED <<started, watching, screen>>,
         open'[a] = open[a], wire'[a] = wire[a], served'[a] = served[a], aborted'[a] = aborted[a],
         remote'[a] = remote[a], emitted'[a] = emitted[a]
  PROVE  StreamOf(a)'
BY DEF StreamOf, NotStarted, Serves, Opens, Carries, Current

(* What the screen tells stays true while streams go on: an ended run sends nothing more, *)
(* and a procedure that refused it never starts it.                                       *)
LEMMA ScreenStill ==
  ASSUME StreamInv, UNCHANGED <<started, watching, screen>>,
         \A a \in Attempt :
           /\ served[a] = "closed" => served'[a] = "closed"
           /\ remote[a] = "ended" => remote'[a] = "ended" /\ emitted'[a] = emitted[a]
           /\ served[a] = "closed" /\ remote[a] = "none" => remote'[a] = "none"
  PROVE  ScreenInv'
<1>1. OnScreen /\ ConsoleShowsOneRun /\ OutcomeIsTrue
  BY DEF StreamInv, ScreenInv
<1>2. started > 0 => started \in Attempt
  BY DEF StreamInv, RunStreamTypeOK, Attempt
<1>3. OnScreen'
  BY <1>1, <1>2 DEF OnScreen
<1>4. ConsoleShowsOneRun'
  BY <1>1 DEF ConsoleShowsOneRun
<1>5. OutcomeIsTrue'
  BY <1>1, <1>2 DEF OutcomeIsTrue, OnScreen
<1> QED
  BY <1>3, <1>4, <1>5 DEF ScreenInv

(* The procedure ends and says why. *)
LEMMA ClosedStream ==
  ASSUME StreamInv, NEW a \in Attempt, served[a] \in {"resolving", "streaming"},
         NEW m \in Message, m.is # "event", CloseWith(a, m),
         UNCHANGED <<pageSide, aborted, emitted>>,
         remote' = remote \/ (remote[a] = "running" /\ remote' = [remote EXCEPT ![a] = "ended"]),
         m.is \in {"done", "failed"} => remote'[a] = "ended",
         m.is \in {"refused", "busy"} => remote'[a] = "none"
  PROVE  /\ wire' \in [Attempt -> Seq(Message)]
         /\ served' \in [Attempt -> {"none", "resolving", "streaming", "closed"}]
         /\ remote' \in [Attempt -> {"none", "running", "ended"}]
         /\ ScreenInv' /\ \A x \in Attempt : StreamOf(x)'
<1>1. /\ wire \in [Attempt -> Seq(Message)] /\ remote \in [Attempt -> {"none", "running", "ended"}]
      /\ served \in [Attempt -> {"none", "resolving", "streaming", "closed"}]
      /\ screen.events \in Seq(Attempt \X (1 .. MaxEvents)) /\ started \in Nat
      /\ emitted \in [Attempt -> 0 .. MaxEvents] /\ open \in [Attempt -> BOOLEAN]
  BY DEF StreamInv, RunStreamTypeOK
<1>2. /\ served' = [served EXCEPT ![a] = "closed"]
      /\ wire' = [wire EXCEPT ![a] = IF open[a] THEN Append(wire[a], m) ELSE wire[a]]
      /\ UNCHANGED <<started, watching, screen, open>>
  BY DEF CloseWith, Says, pageSide
<1>3. wire[a] \in Seq(Message) /\ Len(wire[a]) \in Nat /\ Len(screen.events) \in Nat
  BY <1>1
<1>4. StreamOf(a)
  BY DEF StreamInv
<1>5. Opens(a)' /\ Carries(a)'
  <2>1. CASE open[a]
    <3>1. /\ wire'[a] = Append(wire[a], m) /\ Len(wire'[a]) = Len(wire[a]) + 1
          /\ wire'[a][Len(wire[a]) + 1] = m
          /\ \A i \in 1 .. Len(wire[a]) : wire'[a][i] = wire[a][i]
      BY <1>1, <1>2, <1>3, <2>1
    <3>2. \A i \in 1 .. Len(wire[a]) : wire[a][i].is = "event"
      BY <1>4, <2>1 DEF StreamOf, Carries
    <3>3. Current(a) /\ screen.phase = "running" /\ emitted[a] = Len(screen.events) + Len(wire[a])
      BY <1>4, <2>1 DEF StreamOf, Opens
    <3>4. Opens(a)'
      BY <1>1, <1>2, <3>3 DEF Opens, Current
    <3>5. ASSUME NEW i \in 1 .. Len(wire'[a])
          PROVE  /\ wire'[a][i].is # "event" => i = Len(wire'[a]) /\ served'[a] = "closed"
                 /\ wire'[a][i].is = "event" => wire'[a][i].n = Len(screen.events) + i
                 /\ wire'[a][i].is = "done" => remote'[a] = "ended" /\ emitted[a] = Len(screen.events) + i - 1
                 /\ wire'[a][i].is = "failed" => remote'[a] = "ended"
                 /\ wire'[a][i].is \in {"refused", "busy"} => remote'[a] = "none" /\ served'[a] = "closed"
      <4>1. CASE i \in 1 .. Len(wire[a])
        BY <1>4, <3>1, <3>2, <3>3, <4>1 DEF StreamOf, Carries
      <4>2. CASE i = Len(wire[a]) + 1
        <5>1. wire'[a][i] = m /\ i = Len(wire'[a]) /\ served'[a] = "closed"
          BY <1>1, <1>2, <3>1, <4>2
        <5>2. emitted[a] = Len(screen.events) + i - 1
          BY <1>3, <3>3, <4>2
        <5> QED
          BY <5>1, <5>2
      <4> QED
        BY <1>3, <3>1, <3>5, <4>1, <4>2
    <3>6. Carries(a)'
      BY <1>2, <3>5 DEF Carries, Current
    <3> QED
      BY <3>4, <3>6
  <2>2. CASE ~open[a]
    <3>1. wire'[a] = wire[a] /\ ~open'[a] /\ served'[a] = "closed" /\ emitted' = emitted
          /\ (remote[a] \in {"none", "ended"} => remote'[a] = remote[a])
      BY <1>1, <1>2, <2>2
    <3>2. Current(a)' <=> Current(a)
      BY <1>2 DEF Current
    <3>3. Opens(a)'
      BY <1>2, <1>4, <3>1, <3>2 DEF StreamOf, Opens
    <3>4. ASSUME NEW i \in 1 .. Len(wire[a])
          PROVE  /\ wire[a][i].is # "event" => i = Len(wire[a])
                 /\ wire[a][i].is = "event" /\ Current(a) => wire[a][i].n = Len(screen.events) + i
                 /\ wire[a][i].is = "done" =>
                      remote'[a] = "ended" /\ (Current(a) => emitted[a] = Len(screen.events) + i - 1)
                 /\ wire[a][i].is = "failed" => remote'[a] = "ended"
                 /\ wire[a][i].is \in {"refused", "busy"} => remote'[a] = "none"
      BY <1>4, <3>1 DEF StreamOf, Carries
    <3>5. Carries(a)'
      BY <1>2, <3>1, <3>2, <3>4 DEF Carries
    <3> QED
      BY <3>3, <3>5
  <2> QED
    BY <2>1, <2>2
<1>6. NotStarted(a)' /\ Serves(a)'
  BY <1>1, <1>2, <1>4 DEF StreamOf, NotStarted, Serves
<1>7. ASSUME NEW x \in Attempt, x # a PROVE StreamOf(x)'
  <2>1. StreamOf(x)
    BY <1>7 DEF StreamInv
  <2> QED
    BY <1>1, <1>2, <1>7, <2>1, OtherStreams
<1>8. ScreenInv'
  BY <1>1, <1>2, ScreenStill
<1>9. \A x \in Attempt : StreamOf(x)'
  BY <1>5, <1>6, <1>7 DEF StreamOf
<1>10. wire' \in [Attempt -> Seq(Message)]
  BY <1>1, <1>2, <1>3
<1> QED
  BY <1>1, <1>2, <1>8, <1>9, <1>10

(* The run sends an event: it follows those that are shown or on their way. *)
LEMMA EmitStep ==
  ASSUME StreamInv, NEW a \in Attempt, EmitEvent(a)
  PROVE  StreamInv'
<1>1. /\ wire \in [Attempt -> Seq(Message)] /\ screen.events \in Seq(Attempt \X (1 .. MaxEvents))
      /\ emitted \in [Attempt -> 0 .. MaxEvents] /\ MaxEvents \in Nat
  BY RunStreamAssumption DEF StreamInv, RunStreamTypeOK
<1> DEFINE m == [is |-> "event", n |-> emitted[a] + 1]
<1>2. /\ emitted' = [emitted EXCEPT ![a] = emitted[a] + 1]
      /\ wire' = [wire EXCEPT ![a] = IF open[a] THEN Append(wire[a], m) ELSE wire[a]]
      /\ UNCHANGED <<started, watching, screen, open, served, aborted, remote>>
      /\ remote[a] = "running" /\ served[a] = "streaming"
  BY <1>1 DEF EmitEvent, Says, pageSide, procedureSide
<1>3. emitted[a] + 1 \in 1 .. MaxEvents /\ m \in Message
  BY <1>1, Messages DEF EmitEvent
<1>4. /\ wire[a] \in Seq(Message) /\ Len(wire[a]) \in Nat /\ Len(screen.events) \in Nat
      /\ emitted[a] \in Nat
  BY <1>1
<1>5. StreamOf(a)
  BY DEF StreamInv
<1>6. StreamOf(a)'
  <2>1. NotStarted(a)' /\ Serves(a)'
    BY <1>2, <1>5 DEF StreamOf, NotStarted, Serves
  <2>2. CASE open[a]
    <3> HIDE DEF m
    <3>1. /\ wire'[a] = Append(wire[a], m) /\ Len(wire'[a]) = Len(wire[a]) + 1
          /\ wire'[a][Len(wire[a]) + 1] = m
          /\ \A i \in 1 .. Len(wire[a]) : wire'[a][i] = wire[a][i]
      BY <1>1, <1>2, <1>3, <1>4, <2>2
    <3>2. /\ Current(a) /\ screen.phase = "running" /\ emitted[a] = Len(screen.events) + Len(wire[a])
          /\ \A i \in 1 .. Len(wire[a]) : wire[a][i].is = "event"
                                          /\ wire[a][i].n = Len(screen.events) + i
      BY <1>2, <1>5, <2>2 DEF StreamOf, Opens, Carries
    <3> DEFINE shown == Len(screen.events)
               sent == Len(wire[a])
               all == emitted[a]
    <3>6. all + 1 = shown + (sent + 1)
      <4>1. shown \in Nat /\ sent \in Nat /\ all \in Nat
        BY <1>4
      <4>2. all = shown + sent
        BY <3>2
      <4> HIDE DEF shown, sent, all
      <4> QED
        BY <4>1, <4>2
    <3>3. Opens(a)'
      <4>1. emitted'[a] = emitted[a] + 1 /\ remote'[a] = "running" /\ served'[a] = "streaming"
        BY <1>1, <1>2
      <4>2. emitted'[a] = Len(screen.events) + Len(wire'[a])
        BY <3>1, <3>6, <4>1
      <4>3. Current(a)' /\ screen' = screen
        BY <1>2, <3>2 DEF Current
      <4> QED
        BY <1>2, <1>5, <2>2, <3>2, <4>1, <4>2, <4>3 DEF Opens, StreamOf
    <3>4. ASSUME NEW i \in 1 .. Len(wire'[a])
          PROVE  wire'[a][i].is = "event" /\ wire'[a][i].n = Len(screen.events) + i
      <4>1. CASE i \in 1 .. Len(wire[a])
        BY <3>1, <3>2, <4>1
      <4>2. CASE i = Len(wire[a]) + 1
        <5>1. wire'[a][i] = m
          BY <3>1, <4>2
        <5>2. m.is = "event" /\ m.n = emitted[a] + 1
          BY DEF m
        <5>3. emitted[a] + 1 = Len(screen.events) + i
          BY <3>6, <4>2
        <5> QED
          BY <5>1, <5>2, <5>3
      <4> QED
        BY <1>4, <3>1, <3>4, <4>1, <4>2
    <3>5. Carries(a)'
      BY <1>2, <3>4 DEF Carries
    <3> QED
      BY <2>1, <3>3, <3>5 DEF StreamOf
  <2>3. CASE ~open[a]
    <3>1. wire'[a] = wire[a] /\ ~open'[a] /\ (Current(a)' <=> Current(a))
      BY <1>1, <1>2, <2>3 DEF Current
    <3>2. Opens(a)'
      BY <1>2, <1>5, <3>1 DEF StreamOf, Opens
    <3>3. Carries(a)'
      BY <1>2, <1>5, <3>1 DEF StreamOf, Carries
    <3> QED
      BY <2>1, <3>2, <3>3 DEF StreamOf
  <2> QED
    BY <2>2, <2>3
<1>7. ASSUME NEW x \in Attempt, x # a PROVE StreamOf(x)'
  <2>1. StreamOf(x)
    BY <1>7 DEF StreamInv
  <2> QED
    BY <1>1, <1>2, <1>7, <2>1, OtherStreams
<1>8. ScreenInv'
  BY <1>1, <1>2, ScreenStill
<1>9. RunStreamTypeOK'
  <2>1. wire' \in [Attempt -> Seq(Message)] /\ emitted' \in [Attempt -> 0 .. MaxEvents]
    BY <1>1, <1>2, <1>3
  <2> QED
    BY <1>2, <2>1 DEF StreamInv, RunStreamTypeOK
<1> QED
  BY <1>6, <1>7, <1>8, <1>9 DEF StreamInv

(* The steps that say nothing. *)
LEMMA SilentStep ==
  ASSUME StreamInv, NEW a \in Attempt,
         AbortSignal(a) \/ StopRemote(a) \/ (OpenCall(a) /\ MayOpen(a) /\ ~Busy)
  PROVE  StreamInv'
<1>1. /\ served \in [Attempt -> {"none", "resolving", "streaming", "closed"}]
      /\ aborted \in [Attempt -> BOOLEAN] /\ remote \in [Attempt -> {"none", "running", "ended"}]
      /\ wire \in [Attempt -> Seq(Message)]
  BY DEF StreamInv, RunStreamTypeOK
<1>2. UNCHANGED <<started, watching, screen, open, wire, emitted>>
  BY DEF AbortSignal, StopRemote, OpenCall, pageSide, remoteSide, procedureSide
<1>3. \/ /\ ~open[a] /\ served[a] \in {"resolving", "streaming"} /\ remote' = remote
         /\ aborted' = [aborted EXCEPT ![a] = TRUE]
         /\ served' = [served EXCEPT ![a] = IF served[a] = "streaming" THEN "closed" ELSE served[a]]
      \/ /\ remote[a] = "running" /\ served[a] = "closed" /\ UNCHANGED <<served, aborted>>
         /\ remote' = [remote EXCEPT ![a] = "ended"]
      \/ /\ served[a] = "resolving" /\ ~aborted[a] /\ aborted' = aborted
         /\ served' = [served EXCEPT ![a] = "streaming"] /\ remote' = [remote EXCEPT ![a] = "running"]
  BY DEF AbortSignal, StopRemote, OpenCall, remoteSide, procedureSide, MayOpen
<1>4. StreamOf(a)
  BY DEF StreamInv
<1>5. NotStarted(a)' /\ Serves(a)'
  BY <1>1, <1>2, <1>3, <1>4 DEF StreamOf, NotStarted, Serves
<1>6. Opens(a)'
  BY <1>1, <1>2, <1>3, <1>4 DEF StreamOf, Opens, Serves, Current
<1>7. Carries(a)'
  <2>1. /\ remote[a] = "ended" => remote'[a] = "ended"
        /\ remote[a] = "none" /\ served[a] = "closed" => remote'[a] = "none"
        /\ served[a] = "closed" => served'[a] = "closed"
        /\ Current(a)' <=> Current(a)
        /\ wire'[a] = wire[a] /\ open'[a] = open[a] /\ emitted'[a] = emitted[a] /\ screen' = screen
    BY <1>1, <1>2, <1>3, <1>4 DEF StreamOf, Serves, Current
  <2> QED
    BY <1>4, <2>1 DEF StreamOf, Carries
<1>8. ASSUME NEW x \in Attempt, x # a PROVE StreamOf(x)'
  <2>1. StreamOf(x)
    BY <1>8 DEF StreamInv
  <2>2. served'[x] = served[x] /\ aborted'[x] = aborted[x] /\ remote'[x] = remote[x]
    BY <1>1, <1>3, <1>8
  <2> QED
    BY <1>2, <1>8, <2>1, <2>2, OtherStreams
<1>9. ScreenInv'
  BY <1>1, <1>2, <1>3, <1>4, ScreenStill DEF StreamOf, Serves
<1>10. RunStreamTypeOK'
  BY <1>1, <1>2, <1>3 DEF StreamInv, RunStreamTypeOK
<1> QED
  BY <1>5, <1>6, <1>7, <1>8, <1>9, <1>10 DEF StreamInv, StreamOf

(* The procedure's and the service's steps. *)
LEMMA ServiceStep ==
  ASSUME StreamInv, NEW a \in Attempt,
         \/ AbortSignal(a) \/ RefuseRun(a) \/ OpenCall(a) \/ BreakCall(a)
         \/ EmitEvent(a) \/ EndRemote(a) \/ StopRemote(a)
  PROVE  StreamInv'
<1>1. StreamOf(a) /\ RunStreamTypeOK /\ remote \in [Attempt -> {"none", "running", "ended"}]
  BY DEF StreamInv, RunStreamTypeOK
<1>2. ASSUME NEW m \in Message, m.is # "event", served[a] \in {"resolving", "streaming"},
             CloseWith(a, m), UNCHANGED <<pageSide, aborted, emitted>>,
             remote' = remote \/ (remote[a] = "running" /\ remote' = [remote EXCEPT ![a] = "ended"]),
             m.is \in {"done", "failed"} => remote'[a] = "ended",
             m.is \in {"refused", "busy"} => remote'[a] = "none"
      PROVE  StreamInv'
  <2>1. /\ wire' \in [Attempt -> Seq(Message)]
        /\ served' \in [Attempt -> {"none", "resolving", "streaming", "closed"}]
        /\ remote' \in [Attempt -> {"none", "running", "ended"}]
        /\ ScreenInv' /\ \A x \in Attempt : StreamOf(x)'
    BY <1>2, ClosedStream
  <2>2. RunStreamTypeOK'
    BY <1>1, <1>2, <2>1 DEF RunStreamTypeOK, pageSide
  <2> QED
    BY <2>1, <2>2 DEF StreamInv
<1>3. CASE RefuseRun(a) \/ (OpenCall(a) /\ ~(MayOpen(a) /\ ~Busy))
  <2>1. PICK m \in {[is |-> "refused"], [is |-> "busy"]} :
          /\ CloseWith(a, m) /\ served[a] = "resolving"
          /\ UNCHANGED <<pageSide, aborted, remote, emitted>>
    BY <1>3 DEF RefuseRun, OpenCall, remoteSide
  <2>2. m \in Message /\ m.is \in {"refused", "busy"}
    BY Messages DEF Failure
  <2>3. remote[a] = "none"
    BY <1>1, <2>1 DEF StreamOf, Serves
  <2> QED
    BY <1>2, <2>1, <2>2, <2>3
<1>4. CASE BreakCall(a)
  <2>1. PICK why \in {"lost", "internal"} :
          /\ CloseWith(a, [is |-> why]) /\ served[a] = "streaming"
          /\ UNCHANGED <<pageSide, aborted, remote, emitted>>
    BY <1>4 DEF BreakCall, LostAs, remoteSide
  <2>2. [is |-> why] \in Message
    BY Messages DEF Failure
  <2> QED
    BY <1>2, <2>1, <2>2
<1>5. CASE EndRemote(a)
  <2>1. PICK how \in {"done", "failed"} :
          /\ CloseWith(a, [is |-> how]) /\ served[a] = "streaming" /\ remote[a] = "running"
          /\ remote' = [remote EXCEPT ![a] = "ended"]
          /\ UNCHANGED <<pageSide, aborted, emitted>>
    BY <1>5 DEF EndRemote
  <2>2. [is |-> how] \in Message
    BY Messages DEF Failure
  <2> QED
    BY <1>1, <1>2, <2>1, <2>2
<1> QED
  BY <1>3, <1>4, <1>5, EmitStep, SilentStep

(* The page leaves the stream it had, if any: no stream is open, none is the page's. *)
LEMMA LeftStreams ==
  ASSUME StreamInv, ~watching', open' = Detach,
         UNCHANGED <<started, wire, served, aborted, remote, emitted>>
  PROVE  \A a \in Attempt : StreamOf(a)'
<1> SUFFICES ASSUME NEW a \in Attempt PROVE StreamOf(a)'
  OBVIOUS
<1>1. StreamOf(a)
  BY DEF StreamInv
<1>2. ~open'[a] /\ ~Current(a)'
  BY <1>1 DEF StreamOf, Opens, Current, Detach
<1>3. NotStarted(a)' /\ Serves(a)' /\ Opens(a)'
  BY <1>1, <1>2 DEF StreamOf, NotStarted, Serves, Opens
<1>4. Carries(a)'
  BY <1>1, <1>2 DEF StreamOf, Carries
<1> QED
  BY <1>3, <1>4 DEF StreamOf

LEMMA StopStep == StreamInv /\ StopWatching => StreamInv'
<1> SUFFICES ASSUME StreamInv, StopWatching PROVE StreamInv'
  OBVIOUS
<1>1. /\ watching /\ ~watching' /\ watching' \in BOOLEAN /\ open' = Detach
      /\ screen' = [screen EXCEPT !.phase = IF screen.phase = "running" THEN "cancelled" ELSE screen.phase]
      /\ UNCHANGED <<started, wire, served, aborted, remote, emitted>>
  BY DEF StopWatching, procedureSide, remoteSide
<1>2. RunStreamTypeOK /\ OnScreen /\ ConsoleShowsOneRun /\ OutcomeIsTrue
  BY DEF StreamInv, ScreenInv
<1>3. \A a \in Attempt : StreamOf(a)'
  BY <1>1, LeftStreams
<1>4. /\ screen'.phase = (IF screen.phase = "running" THEN "cancelled" ELSE screen.phase)
      /\ screen'.events = screen.events /\ screen'.error = screen.error
  BY <1>1, <1>2 DEF RunStreamTypeOK
<1>5. OnScreen'
  BY <1>1, <1>2, <1>4 DEF OnScreen
<1>6. ConsoleShowsOneRun' /\ OutcomeIsTrue'
  BY <1>1, <1>2, <1>4 DEF ConsoleShowsOneRun, OutcomeIsTrue
<1>7. RunStreamTypeOK'
  <2>1. open' \in [Attempt -> BOOLEAN]
    BY <1>1, <1>2 DEF RunStreamTypeOK, Detach
  <2>2. screen' \in [phase : {"idle", "running", "done", "error", "cancelled"},
                     events : Seq(Attempt \X (1 .. MaxEvents)), error : Failure \cup {"none"}]
    BY <1>1, <1>2 DEF RunStreamTypeOK
  <2> QED
    BY <1>1, <1>2, <2>1, <2>2 DEF RunStreamTypeOK
<1> QED
  BY <1>3, <1>5, <1>6, <1>7 DEF StreamInv, ScreenInv

LEMMA BlankScreen ==
  ASSUME NEW p \in {"idle", "running"}
  PROVE  /\ Blank(p).phase = p /\ Blank(p).error = "none" /\ Blank(p).events = <<>>
         /\ DOMAIN Blank(p).events = {} /\ Len(Blank(p).events) = 0
         /\ Blank(p) \in [phase : {"idle", "running", "done", "error", "cancelled"},
                          events : Seq(Attempt \X (1 .. MaxEvents)),
                          error : Failure \cup {"none"}]
<1>1. <<>> \in Seq(Attempt \X (1 .. MaxEvents))
  OBVIOUS
<1> QED
  BY <1>1 DEF Blank

LEMMA ResetStep == StreamInv /\ ResetStream => StreamInv'
<1> SUFFICES ASSUME StreamInv, ResetStream PROVE StreamInv'
  OBVIOUS
<1>1. /\ ~watching' /\ watching' \in BOOLEAN /\ open' = Detach /\ screen' = Blank("idle")
      /\ UNCHANGED <<started, wire, served, aborted, remote, emitted>>
  BY DEF ResetStream, procedureSide, remoteSide
<1>2. \A a \in Attempt : StreamOf(a)'
  BY <1>1, LeftStreams
<1>3. screen'.phase = "idle" /\ screen'.error = "none" /\ DOMAIN screen'.events = {}
  BY <1>1, BlankScreen
<1>4. ScreenInv'
  BY <1>1, <1>3 DEF ScreenInv, OnScreen, ConsoleShowsOneRun, OutcomeIsTrue
<1>5. RunStreamTypeOK'
  <2>1. open' \in [Attempt -> BOOLEAN]
    BY <1>1 DEF StreamInv, RunStreamTypeOK, Detach
  <2> QED
    BY <1>1, <2>1, BlankScreen DEF StreamInv, RunStreamTypeOK
<1> QED
  BY <1>2, <1>4, <1>5 DEF StreamInv

(* A new stream starts with nothing sent, while those before it are closed. *)
LEMMA StartStep == StreamInv /\ StartStream => StreamInv'
<1> SUFFICES ASSUME StreamInv, StartStream PROVE StreamInv'
  OBVIOUS
<1> DEFINE b == started + 1
<1>1. /\ started \in 0 .. MaxAttempts /\ MaxAttempts \in Nat
      /\ open \in [Attempt -> BOOLEAN] /\ wire \in [Attempt -> Seq(Message)]
      /\ served \in [Attempt -> {"none", "resolving", "streaming", "closed"}]
  BY RunStreamAssumption DEF StreamInv, RunStreamTypeOK
<1>2. /\ started < MaxAttempts /\ started' = b /\ watching' /\ watching' \in BOOLEAN
      /\ screen' = Blank("running")
      /\ open' = [Detach EXCEPT ![b] = TRUE] /\ served' = [served EXCEPT ![b] = "resolving"]
      /\ UNCHANGED <<wire, aborted, remote, emitted>>
  BY DEF StartStream, remoteSide
<1>3. b \in Attempt /\ b > started /\ b > 0 /\ b \in 0 .. MaxAttempts
  BY <1>1, <1>2 DEF Attempt
<1>4. screen'.phase = "running" /\ screen'.error = "none"
      /\ DOMAIN screen'.events = {} /\ Len(screen'.events) = 0
  BY <1>2, BlankScreen
<1>5. ScreenInv'
  BY <1>2, <1>3, <1>4 DEF ScreenInv, OnScreen, ConsoleShowsOneRun, OutcomeIsTrue
<1>6. /\ \A a \in Attempt : a > b => a > started
      /\ \A a \in Attempt : a # b /\ a > started => a > b
  BY <1>1 DEF Attempt
<1> HIDE DEF b
<1>7. ASSUME NEW a \in Attempt PROVE StreamOf(a)'
  <2>1. StreamOf(a)
    BY DEF StreamInv
  <2>2. CASE a = b
    <3>1. /\ wire[a] = <<>> /\ remote[a] = "none" /\ emitted[a] = 0 /\ ~aborted[a]
      BY <1>3, <2>1, <2>2 DEF StreamOf, NotStarted
    <3>2. /\ wire'[a] = <<>> /\ remote'[a] = "none" /\ emitted'[a] = 0 /\ served'[a] = "resolving"
          /\ Len(wire'[a]) = 0
      BY <1>1, <1>2, <2>2, <3>1
    <3>3. ~(a > started')
      BY <1>2, <1>3, <2>2
    <3>4. NotStarted(a)' /\ Serves(a)'
      BY <3>2, <3>3 DEF NotStarted, Serves
    <3>5. Opens(a)'
      BY <1>2, <1>4, <2>2, <3>2 DEF Opens, Current
    <3>6. Carries(a)'
      BY <3>2 DEF Carries
    <3> QED
      BY <3>4, <3>5, <3>6 DEF StreamOf
  <2>3. CASE a # b
    <3>1. ~open'[a] /\ ~Current(a)' /\ served'[a] = served[a] /\ wire'[a] = wire[a]
          /\ aborted'[a] = aborted[a] /\ remote'[a] = remote[a] /\ emitted'[a] = emitted[a]
      BY <1>1, <1>2, <2>1, <2>3 DEF StreamOf, Opens, Current, Detach
    <3>2. NotStarted(a)' /\ Serves(a)'
      BY <1>2, <1>6, <2>1, <2>3, <3>1 DEF StreamOf, NotStarted, Serves
    <3>3. Opens(a)'
      BY <3>1 DEF Opens
    <3>4. Carries(a)'
      BY <2>1, <3>1 DEF StreamOf, Carries
    <3> QED
      BY <3>2, <3>3, <3>4 DEF StreamOf
  <2> QED
    BY <2>2, <2>3
<1>8. RunStreamTypeOK'
  <2>1. /\ open' \in [Attempt -> BOOLEAN]
        /\ served' \in [Attempt -> {"none", "resolving", "streaming", "closed"}]
    BY <1>1, <1>2 DEF Detach
  <2> QED
    BY <1>2, <1>3, <2>1, BlankScreen DEF StreamInv, RunStreamTypeOK
<1> QED
  BY <1>5, <1>7, <1>8 DEF StreamInv

LEMMA DisconnectStep ==
  ASSUME StreamInv, NEW a \in Attempt, Disconnect(a)
  PROVE  StreamInv'
<1>1. /\ open \in [Attempt -> BOOLEAN] /\ wire \in [Attempt -> Seq(Message)]
      /\ [is |-> "connection"] \in Message
  BY Messages DEF StreamInv, RunStreamTypeOK, Failure
<1>2. /\ open[a] /\ open' = [open EXCEPT ![a] = FALSE]
      /\ wire' = [wire EXCEPT ![a] = <<[is |-> "connection"]>>]
      /\ UNCHANGED <<started, watching, screen, served, aborted, remote, emitted>>
  BY DEF Disconnect, procedureSide, remoteSide
<1>3. StreamOf(a)
  BY DEF StreamInv
<1>4. /\ ~open'[a] /\ Len(wire'[a]) = 1 /\ wire'[a][1].is = "connection"
      /\ screen.phase = "running" /\ ~(a > started)
  BY <1>1, <1>2, <1>3 DEF StreamOf, NotStarted, Opens
<1>5. NotStarted(a)' /\ Serves(a)' /\ Opens(a)'
  BY <1>2, <1>3, <1>4 DEF StreamOf, NotStarted, Serves, Opens
<1>6. Carries(a)'
  BY <1>4 DEF Carries
<1>7. ASSUME NEW x \in Attempt, x # a PROVE StreamOf(x)'
  <2>1. StreamOf(x)
    BY <1>7 DEF StreamInv
  <2> QED
    BY <1>1, <1>2, <1>7, <2>1, OtherStreams
<1>8. ScreenInv'
  BY <1>2, ScreenStill
<1>9. RunStreamTypeOK'
  <2>1. <<[is |-> "connection"]>> \in Seq(Message)
    BY <1>1
  <2> QED
    BY <1>1, <1>2, <2>1 DEF StreamInv, RunStreamTypeOK
<1> QED
  BY <1>5, <1>6, <1>7, <1>8, <1>9 DEF StreamInv, StreamOf

(* A callback takes the first message of its stream; that of a stream the page has left *)
(* changes nothing it shows.                                                            *)
LEMMA CallbackStep ==
  ASSUME StreamInv, NEW a \in Attempt, Callback(a)
  PROVE  StreamInv'
<1> DEFINE m == Head(wire[a])
           w == wire[a]
<1>1. /\ open \in [Attempt -> BOOLEAN] /\ wire \in [Attempt -> Seq(Message)]
      /\ w \in Seq(Message) /\ w # <<>> /\ started \in Nat
      /\ screen \in [phase : {"idle", "running", "done", "error", "cancelled"},
                     events : Seq(Attempt \X (1 .. MaxEvents)), error : Failure \cup {"none"}]
  BY DEF StreamInv, RunStreamTypeOK, Callback
<1>2. /\ wire' = [wire EXCEPT ![a] = Tail(w)]
      /\ open' = IF m.is = "event" THEN open ELSE [open EXCEPT ![a] = FALSE]
      /\ UNCHANGED <<started, watching, served, aborted, remote, emitted>>
  BY DEF Callback, procedureSide, remoteSide
<1>3. StreamOf(a)
  BY DEF StreamInv
<1>4. /\ m = w[1] /\ Len(w) \in Nat /\ Len(w) > 0 /\ m \in Message
      /\ m.is \in {"event", "done"} \cup Failure
      /\ wire'[a] = Tail(w) /\ wire'[a] \in Seq(Message)
      /\ Len(Tail(w)) = Len(w) - 1
      /\ \A i \in 1 .. Len(w) - 1 : Tail(w)[i] = w[i + 1]
  BY <1>1, <1>2, Messages
<1>5. ~(a > started) /\ (Current(a)' <=> Current(a))
  BY <1>1, <1>2, <1>3 DEF StreamOf, NotStarted, Current
<1>6. NotStarted(a)' /\ Serves(a)'
  BY <1>2, <1>3, <1>5 DEF StreamOf, NotStarted, Serves
<1>7. wire' \in [Attempt -> Seq(Message)] /\ open' \in [Attempt -> BOOLEAN]
  BY <1>1, <1>2, <1>4
<1>8. /\ Len(wire'[a]) = Len(w) - 1
      /\ \A i \in 1 .. Len(wire'[a]) : i + 1 \in 1 .. Len(w) /\ wire'[a][i] = w[i + 1]
  BY <1>4
<1> HIDE DEF m
<1>9. CASE ~Current(a)
  <2>1. screen' = screen /\ ~open[a] /\ ~open'[a] /\ open' = open
    BY <1>1, <1>2, <1>3, <1>9 DEF Callback, StreamOf, Opens
  <2>2. Opens(a)'
    BY <1>5, <1>9, <2>1 DEF Opens
  <2>3. ASSUME NEW i \in 1 .. Len(wire'[a])
        PROVE  /\ wire'[a][i].is # "event" => i = Len(wire'[a])
               /\ wire'[a][i].is \in {"done", "failed"} => remote'[a] = "ended"
               /\ wire'[a][i].is \in {"refused", "busy"} =>
                    remote'[a] = "none" /\ served'[a] = "closed"
    <3>1. i + 1 \in 1 .. Len(w) /\ wire'[a][i] = w[i + 1] /\ i \in Nat
      BY <1>8
    <3>2. /\ w[i + 1].is # "event" => i + 1 = Len(w)
          /\ w[i + 1].is \in {"done", "failed"} => remote[a] = "ended"
          /\ w[i + 1].is \in {"refused", "busy"} => remote[a] = "none" /\ served[a] = "closed"
      BY <1>3, <3>1 DEF StreamOf, Carries
    <3> QED
      BY <1>2, <1>4, <1>8, <3>1, <3>2
  <2>4. Carries(a)'
    BY <1>5, <1>9, <2>1, <2>3 DEF Carries
  <2>5. ASSUME NEW x \in Attempt, x # a PROVE StreamOf(x)'
    <3>1. StreamOf(x)
      BY <2>5 DEF StreamInv
    <3> QED
      BY <1>1, <1>2, <2>1, <2>5, <3>1, OtherStreams
  <2>6. ScreenInv'
    BY <1>2, <2>1, ScreenStill
  <2>7. RunStreamTypeOK'
    BY <1>2, <1>7, <2>1 DEF StreamInv, RunStreamTypeOK
  <2> QED
    BY <1>6, <2>2, <2>4, <2>5, <2>6, <2>7 DEF StreamInv, StreamOf
<1>10. CASE Current(a)
  <2>1. a = started /\ watching /\ screen.phase = "running"
    BY <1>1, <1>3, <1>10 DEF StreamOf, Opens, Current, StreamInv, ScreenInv, OnScreen
  <2>2. ASSUME NEW x \in Attempt, x # a PROVE StreamOf(x)'
    <3>1. StreamOf(x) /\ ~Current(x) /\ ~Current(x)'
      BY <1>2, <2>1, <2>2 DEF StreamInv, Current
    <3>2. /\ open'[x] = open[x] /\ wire'[x] = wire[x] /\ ~open[x]
      BY <1>1, <1>2, <2>2, <3>1 DEF StreamOf, Opens
    <3>3. NotStarted(x)' /\ Serves(x)' /\ Opens(x)'
      BY <1>2, <3>1, <3>2 DEF StreamOf, NotStarted, Serves, Opens
    <3>4. Carries(x)'
      BY <1>2, <3>1, <3>2 DEF StreamOf, Carries
    <3> QED
      BY <3>3, <3>4 DEF StreamOf
  <2>3. /\ \A i \in 1 .. Len(w) : w[i].is # "event" => i = Len(w)
        /\ m.is = "event" => m.n = Len(screen.events) + 1
        /\ m.is = "done" => remote[a] = "ended" /\ emitted[a] = Len(screen.events) + 1 - 1
        /\ m.is = "failed" => remote[a] = "ended"
        /\ m.is \in {"refused", "busy"} => remote[a] = "none" /\ served[a] = "closed"
        /\ m.is # "event" => Len(w) = 1
    <3>1. 1 \in 1 .. Len(w)
      BY <1>4
    <3> QED
      BY <1>3, <1>4, <1>10, <3>1 DEF StreamOf, Carries
  <2>4. OnScreen /\ ConsoleShowsOneRun /\ OutcomeIsTrue
    BY DEF StreamInv, ScreenInv
  <2>5. Len(screen.events) \in Nat /\ DOMAIN screen.events = 1 .. Len(screen.events)
    BY <1>1
  <2>6. CASE m.is = "event"
    <3> DEFINE shown == Append(screen.events, <<a, m.n>>)
    <3>1. screen' = [screen EXCEPT !.events = shown] /\ open' = open
      BY <1>2, <1>10, <2>6 DEF Callback, m
    <3>2. m.n \in 1 .. MaxEvents /\ <<a, m.n>> \in Attempt \X (1 .. MaxEvents)
      BY <1>4, <2>6, Messages
    <3>3. /\ shown \in Seq(Attempt \X (1 .. MaxEvents)) /\ Len(shown) = Len(screen.events) + 1
          /\ shown[Len(screen.events) + 1] = <<a, m.n>>
          /\ \A i \in 1 .. Len(screen.events) : shown[i] = screen.events[i]
          /\ DOMAIN shown = 1 .. (Len(screen.events) + 1)
      BY <1>1, <3>2
    <3> HIDE DEF shown
    <3>4. screen'.events = shown /\ screen'.phase = "running" /\ screen'.error = screen.error
      BY <1>1, <2>1, <3>1
    <3>5. ConsoleShowsOneRun'
      <4>1. ASSUME NEW i \in 1 .. Len(screen.events) + 1 PROVE shown[i] = <<started, i>>
        <5>1. CASE i \in 1 .. Len(screen.events)
          BY <2>4, <2>5, <3>3, <5>1 DEF ConsoleShowsOneRun
        <5>2. CASE i = Len(screen.events) + 1
          BY <2>1, <2>3, <2>6, <3>3, <5>2
        <5> QED
          BY <2>5, <5>1, <5>2
      <4> QED
        BY <1>2, <3>3, <3>4, <4>1 DEF ConsoleShowsOneRun
    <3>6. OnScreen' /\ OutcomeIsTrue'
      <4>1. OnScreen'
        BY <1>2, <2>1, <2>4, <3>4 DEF OnScreen
      <4>2. OutcomeIsTrue'
        BY <1>2, <2>1, <2>4, <3>4 DEF OutcomeIsTrue
      <4> QED
        BY <4>1, <4>2
    <3>7. Opens(a)'
      <4>1. ASSUME open[a], served[a] # "closed"
            PROVE  emitted[a] = Len(shown) + Len(wire'[a])
        <5>1. emitted[a] = Len(screen.events) + Len(w)
          BY <1>3, <4>1 DEF StreamOf, Opens
        <5>2. Len(shown) = Len(screen.events) + 1 /\ Len(wire'[a]) = Len(w) - 1
          BY <1>8, <3>3
        <5> HIDE DEF w
        <5> QED
          BY <1>4, <2>5, <5>1, <5>2
      <4> QED
        BY <1>2, <1>5, <1>10, <3>1, <3>4, <4>1 DEF Opens
    <3>8. Carries(a)'
      <4>1. ASSUME NEW i \in 1 .. Len(wire'[a])
            PROVE  /\ wire'[a][i].is # "event" => i = Len(wire'[a]) /\ (open[a] => served[a] = "closed")
                   /\ wire'[a][i].is = "event" => wire'[a][i].n = Len(shown) + i
                   /\ wire'[a][i].is = "done" =>
                        remote[a] = "ended" /\ emitted[a] = Len(shown) + i - 1
                   /\ wire'[a][i].is = "failed" => remote[a] = "ended"
                   /\ wire'[a][i].is \in {"refused", "busy"} =>
                        remote[a] = "none" /\ served[a] = "closed"
        <5>1. i + 1 \in 1 .. Len(w) /\ wire'[a][i] = w[i + 1] /\ i \in Nat
          BY <1>8
        <5>2. /\ w[i + 1].is # "event" => i + 1 = Len(w) /\ (open[a] => served[a] = "closed")
              /\ w[i + 1].is = "event" => w[i + 1].n = Len(screen.events) + (i + 1)
              /\ w[i + 1].is = "done" =>
                   remote[a] = "ended" /\ emitted[a] = Len(screen.events) + (i + 1) - 1
              /\ w[i + 1].is = "failed" => remote[a] = "ended"
              /\ w[i + 1].is \in {"refused", "busy"} => remote[a] = "none" /\ served[a] = "closed"
          BY <1>3, <1>10, <5>1 DEF StreamOf, Carries
        <5> DEFINE earlier == Len(screen.events)
                   after == Len(shown)
                   sent == Len(w)
                   left == Len(wire'[a])
        <5>3. /\ earlier \in Nat /\ sent \in Nat /\ i \in Nat
              /\ after = earlier + 1 /\ left = sent - 1
          BY <1>4, <1>8, <2>5, <3>3, <5>1
        <5>4. /\ after + i = earlier + (i + 1) /\ after + i - 1 = earlier + (i + 1) - 1
              /\ i + 1 = sent => i = left
          <6> HIDE DEF earlier, after, sent, left
          <6> QED
            BY <5>3
        <5>5. /\ w[i + 1].is # "event" => i = left
              /\ w[i + 1].is = "event" => w[i + 1].n = after + i
              /\ w[i + 1].is = "done" => emitted[a] = after + i - 1
          <6> HIDE DEF after, left
          <6> QED
            BY <5>2, <5>4
        <5> QED
          BY <5>1, <5>2, <5>5
      <4> QED
        BY <1>2, <3>1, <3>4, <4>1 DEF Carries
    <3>9. RunStreamTypeOK'
      <4>1. screen' \in [phase : {"idle", "running", "done", "error", "cancelled"},
                         events : Seq(Attempt \X (1 .. MaxEvents)), error : Failure \cup {"none"}]
        BY <1>1, <3>1, <3>3
      <4> QED
        BY <1>2, <1>7, <4>1 DEF StreamInv, RunStreamTypeOK
    <3> QED
      BY <1>6, <2>2, <3>5, <3>6, <3>7, <3>8, <3>9 DEF StreamInv, StreamOf, ScreenInv
  <2>7. CASE m.is # "event"
    <3>1. ~open'[a] /\ Len(wire'[a]) = 0 /\ wire'[a] = <<>>
      <4>1. ~open'[a]
        BY <1>1, <1>2, <2>7
      <4>2. Len(wire'[a]) = 0
        BY <1>8, <2>3, <2>7
      <4> QED
        BY <1>4, <4>1, <4>2, EmptySeq
    <3>2. \/ m.is = "done" /\ screen' = [screen EXCEPT !.phase = "done"]
          \/ m.is \in Failure /\ screen' = [screen EXCEPT !.phase = "error", !.error = m.is]
      BY <1>4, <1>10, <2>7 DEF Callback, m
    <3>3. \/ m.is = "done" /\ screen'.phase = "done" /\ screen'.error = screen.error
          \/ m.is \in Failure /\ screen'.phase = "error" /\ screen'.error = m.is
      BY <1>1, <3>2
    <3>4. screen'.events = screen.events
      BY <1>1, <3>2
    <3>5. Opens(a)' /\ Carries(a)'
      BY <3>1 DEF Opens, Carries
    <3>6. OnScreen'
      BY <1>2, <2>1, <2>3, <2>4, <3>3 DEF OnScreen
    <3>7. ConsoleShowsOneRun'
      BY <1>2, <2>4, <3>4 DEF ConsoleShowsOneRun
    <3>8. OutcomeIsTrue'
      BY <1>2, <2>1, <2>3, <2>4, <2>5, <3>3, <3>4 DEF OutcomeIsTrue
    <3>9. RunStreamTypeOK'
      BY <1>1, <1>2, <1>7, <3>2 DEF StreamInv, RunStreamTypeOK
    <3> QED
      BY <1>6, <2>2, <3>5, <3>6, <3>7, <3>8, <3>9 DEF StreamInv, StreamOf, ScreenInv
  <2> QED
    BY <2>6, <2>7
<1> QED
  BY <1>9, <1>10

LEMMA StreamStart == RunStreamInit => StreamInv
<1> SUFFICES ASSUME RunStreamInit PROVE StreamInv
  OBVIOUS
<1>1. /\ started = 0 /\ watching = FALSE /\ screen = Blank("idle")
      /\ open = [a \in Attempt |-> FALSE] /\ wire = [a \in Attempt |-> <<>>]
      /\ served = [a \in Attempt |-> "none"] /\ aborted = [a \in Attempt |-> FALSE]
      /\ remote = [a \in Attempt |-> "none"] /\ emitted = [a \in Attempt |-> 0]
  BY DEF RunStreamInit
<1>2. MaxAttempts \in Nat /\ MaxEvents \in Nat /\ \A a \in Attempt : a > 0
  BY RunStreamAssumption DEF Attempt
<1>3. screen.phase = "idle" /\ screen.error = "none" /\ DOMAIN screen.events = {}
  BY <1>1, BlankScreen
<1>4. ScreenInv
  BY <1>1, <1>3 DEF ScreenInv, OnScreen, ConsoleShowsOneRun, OutcomeIsTrue
<1>5. RunStreamTypeOK
  <2>1. started \in 0 .. MaxAttempts /\ watching \in BOOLEAN
    <3>1. started \in 0 .. MaxAttempts
      BY <1>1, <1>2
    <3>2. watching \in BOOLEAN
      BY <1>1
    <3> QED
      BY <3>1, <3>2
  <2>2. open \in [Attempt -> BOOLEAN] /\ aborted \in [Attempt -> BOOLEAN]
        /\ wire \in [Attempt -> Seq(Message)]
    BY <1>1
  <2>3. /\ served \in [Attempt -> {"none", "resolving", "streaming", "closed"}]
        /\ remote \in [Attempt -> {"none", "running", "ended"}]
        /\ emitted \in [Attempt -> 0 .. MaxEvents]
    BY <1>1, <1>2
  <2> QED
    BY <1>1, <2>1, <2>2, <2>3, BlankScreen DEF RunStreamTypeOK
<1>6. ASSUME NEW a \in Attempt PROVE StreamOf(a)
  <2>1. /\ ~open[a] /\ wire[a] = <<>> /\ Len(wire[a]) = 0 /\ served[a] = "none" /\ ~aborted[a]
        /\ remote[a] = "none" /\ emitted[a] = 0 /\ a > started
    BY <1>1, <1>2
  <2> QED
    BY <2>1 DEF StreamOf, NotStarted, Serves, Opens, Carries
<1> QED
  BY <1>4, <1>5, <1>6 DEF StreamInv

LEMMA StreamStep == StreamInv /\ [RunStreamNext]_streamVars => StreamInv'
<1> SUFFICES ASSUME StreamInv, [RunStreamNext]_streamVars PROVE StreamInv'
  OBVIOUS
<1>1. CASE UNCHANGED streamVars
  <2>1. UNCHANGED <<started, watching, screen, open, wire, served, aborted, remote, emitted>>
    BY <1>1 DEF streamVars, pageSide, procedureSide, remoteSide
  <2>2. \A a \in Attempt : StreamOf(a)'
    BY <2>1, OtherStreams DEF StreamInv
  <2>3. ScreenInv'
    BY <2>1, ScreenStill
  <2> QED
    BY <2>1, <2>2, <2>3 DEF StreamInv, RunStreamTypeOK
<1>2. ASSUME NEW a \in Attempt, Callback(a) PROVE StreamInv'
  BY <1>2, CallbackStep
<1>3. ASSUME NEW a \in Attempt, Disconnect(a) PROVE StreamInv'
  BY <1>3, DisconnectStep
<1>4. ASSUME NEW a \in Attempt,
             \/ AbortSignal(a) \/ RefuseRun(a) \/ OpenCall(a) \/ BreakCall(a)
             \/ EmitEvent(a) \/ EndRemote(a) \/ StopRemote(a)
      PROVE  StreamInv'
  BY <1>4, ServiceStep
<1> QED
  BY <1>1, <1>2, <1>3, <1>4, StartStep, StopStep, ResetStep DEF RunStreamNext

(* No run is left alone: a run that goes on belongs to an open stream, which is the   *)
(* page's, or to a closed one whose signal is still to be aborted, or has no call.    *)
LEMMA NoneAlone == StreamInv => NoRunLeftAlone
<1> SUFFICES ASSUME StreamInv, NEW a \in Attempt, remote[a] = "running"
             PROVE  \/ Current(a) /\ screen.phase = "running"
                    \/ ~open[a] /\ ~aborted[a]
                    \/ served[a] = "closed"
  BY DEF NoRunLeftAlone
<1>1. StreamOf(a)
  BY DEF StreamInv
<1> QED
  BY <1>1 DEF StreamOf, Serves, Opens

(* The streams of a page that has stopped are not its own, and say nothing to it. *)
LEMMA StoppedStep ==
  ASSUME StreamInv, [RunStreamNext]_streamVars, screen.phase = "cancelled", screen' # screen
  PROVE  started' # started \/ screen'.phase = "idle"
<1>1. ~watching /\ started \in Nat
  BY DEF StreamInv, ScreenInv, OnScreen, RunStreamTypeOK
<1>2. ASSUME NEW a \in Attempt, Callback(a) PROVE screen' = screen
  BY <1>1, <1>2 DEF Callback, Current
<1>3. ASSUME NEW a \in Attempt,
             \/ Disconnect(a) \/ AbortSignal(a) \/ RefuseRun(a) \/ OpenCall(a) \/ BreakCall(a)
             \/ EmitEvent(a) \/ EndRemote(a) \/ StopRemote(a)
      PROVE  screen' = screen
  BY <1>3 DEF Disconnect, AbortSignal, RefuseRun, OpenCall, BreakCall, EmitEvent, EndRemote,
              StopRemote, pageSide
<1>4. CASE UNCHANGED streamVars
  BY <1>4 DEF streamVars, pageSide
<1>5. CASE StartStream
  BY <1>1, <1>5 DEF StartStream
<1>6. CASE StopWatching
  BY <1>1, <1>6 DEF StopWatching
<1>7. CASE ResetStream
  BY <1>7, BlankScreen DEF ResetStream
<1> QED
  BY <1>2, <1>3, <1>4, <1>5, <1>6, <1>7 DEF RunStreamNext

(* What the page shows of its run is so, and what it has left is stopped, for any number *)
(* of streams, events and slots (use-run-stream.ts, stream-handler.ts).                  *)
THEOREM StreamsAlwaysTrue == RunStreamSpec => StreamsAreTrue
<1>1. RunStreamInit => StreamInv
  BY StreamStart
<1>2. StreamInv /\ [RunStreamNext]_streamVars => StreamInv'
  BY StreamStep
<1>3. StreamInv => ConsoleShowsOneRun /\ OutcomeIsTrue /\ NoRunLeftAlone
  BY NoneAlone DEF StreamInv, ScreenInv
<1>4. StreamInv /\ [RunStreamNext]_streamVars
        => [screen.phase = "cancelled" /\ screen' # screen =>
              started' # started \/ screen'.phase = "idle"]_streamVars
  BY StoppedStep
<1> QED
  BY <1>1, <1>2, <1>3, <1>4, PTL DEF RunStreamSpec, StreamsAreTrue, StoppedStays

----------------------------------------------------------------------------
(* InventoryPage.                                                          *)

Kept(p) == p[1] \in stored.devices /\ p[2] \in stored.groups
Agrees(rows, p) == rows[p] > 0 <=> stored.deviceGroups[p] > 0

\* Calls of the page that have made, or may have made, a list differ from what is stored.
Deletes(c, q) == Awaited(c) /\ IsDelete(calls[c]) /\ ListOf(calls[c]) = q
Unheard(c, p) ==
  Awaited(c) /\ calls[c].at = "written" /\ ~IsDelete(calls[c]) /\ calls[c].what = p

\* A list of devices or groups is right, and so is an answer on its way, unless the page waits
\* for a delete.
TableInv(q) ==
  (\A c \in Call : ~Deletes(c, q)) =>
    /\ UpToDate(lists[q]) => lists[q].rows[1] = stored[q]
    /\ lists[q].answer # <<>> /\ ~lists[q].late => lists[q].answer[1] = stored[q]

\* So is a list of memberships for each pair of which both ends are there, unless the page
\* waits to hear of a change of that pair.
RelationInv(q, p) ==
  Kept(p) /\ (\A c \in Call : ~Unheard(c, p)) =>
    /\ UpToDate(lists[q]) /\ q \notin old => Agrees(lists[q].rows[1], p)
    /\ lists[q].answer # <<>> /\ ~lists[q].late => Agrees(lists[q].answer[1], p)

\* A pair that nobody has added blindly has one row, or none and at most one call to add it.
Adds(c, p) == calls[c].op = "assign" /\ calls[c].what = p /\ calls[c].at = "sent"
AddedBlindly(p) == \E c \in Call : calls[c].op = "assign" /\ calls[c].what = p /\ ~calls[c].knew
OnceInv(p) ==
  \/ AddedBlindly(p)
  \/ /\ stored.deviceGroups[p] <= 1
     /\ \A c \in Call : Adds(c, p) =>
          stored.deviceGroups[p] = 0 /\ \A d \in Call : Adds(d, p) => d = c

ListsTyped ==
  /\ DOMAIN lists = Lists \cup Opened
  /\ \A q \in Lists \cup Opened : IsListOver(lists[q], RowsFor(q))

RowsInv ==
  /\ stored \in Tables /\ old \subseteq Opened /\ troubles \in 0 .. MaxSteps
  /\ \A p \in Pair : stored.deviceGroups[p] > 0 => Kept(p)
CallsTyped ==
  /\ calls \in [Call -> CallRow \cup {NoCall}]
  /\ \A c \in Call : calls[c] = NoCall \/ [op |-> calls[c].op, what |-> calls[c].what] \in Wants
CallsInv ==
  /\ CallsTyped
  /\ \A c \in Call : IsDelete(calls[c]) =>
       calls[c].found = <<>> \/ calls[c].found[1] \in RowsFor(ListOf(calls[c]))
DialogInv ==
  /\ dialog \in [op : {"none", "relations", "deleteDevice", "deleteGroup"},
                 what : Device \cup Group \cup {NoOne}, mutates : 0 .. MaxCalls]
  /\ IsDelete(dialog) => [op |-> dialog.op, what |-> dialog.what] \in Wants
  /\ dialog.op = "relations" => dialog.what \in Opened \ old
UnusedInv == \A q \in Opened : ~InUse(q) => ~lists[q].asked /\ lists[q].answer = <<>>
TablesInv == TableInv("devices") /\ TableInv("groups")
RelationsInv ==
  \A p \in Pair : /\ RelationInv("deviceGroups", p)
                  /\ \A q \in Opened \cap {p[1], p[2]} : RelationInv(q, p)
RowsOnce == \A p \in Pair : OnceInv(p)

\* The invariant, in the parts that the steps keep: what a delete has found, which dialogs are
\* open, and that a list nobody looks at is not asked for, are in the second to fifth.
InventoryPageInv ==
  /\ RowsInv /\ CallsInv /\ DialogInv /\ ListsTyped /\ UnusedInv /\ TablesInv
  /\ RelationsInv /\ RowsOnce

USE InventoryPageAssumption

\* One list changes, or each its own way.
LEMMA OneList ==
  ASSUME ListsTyped, NEW x \in Lists \cup Opened, NEW l, IsListOver(l, RowsFor(x)),
         lists' = [lists EXCEPT ![x] = l]
  PROVE  /\ ListsTyped' /\ lists'[x] = l
         /\ \A q \in (Lists \cup Opened) \ {x} : lists'[q] = lists[q]
BY DEF ListsTyped, RowsFor, Lists

\* What is known of a call by its type.
LEMMA CallFacts ==
  ASSUME InventoryPageTypeOK, NEW c \in Call
  PROVE  /\ calls[c] = NoCall \/ calls[c] \in CallRow
         /\ calls[c] # NoCall =>
              /\ calls[c].op = "deleteDevice" => calls[c].what \in Device
              /\ calls[c].op = "deleteGroup" => calls[c].what \in Group
              /\ calls[c].op \in {"assign", "unassign"} => calls[c].what \in Pair
<1>1. calls[c] \in CallRow \cup {NoCall}
  BY DEF InventoryPageTypeOK
<1>2. ASSUME calls[c] # NoCall
      PROVE  [op |-> calls[c].op, what |-> calls[c].what] \in Wants
  BY <1>2 DEF InventoryPageTypeOK
<1>3. \A k \in Wants :
        /\ k.op = "deleteDevice" => k.what \in Device
        /\ k.op = "deleteGroup" => k.what \in Group
        /\ k.op \in {"assign", "unassign"} => k.what \in Pair
  BY DEF Wants
<1>4. QED
  BY <1>1, <1>2, <1>3


\* A call that was not sent.
LEMMA NoCallFacts ==
  NoCall.op = "none" /\ NoCall.at = "new" /\ NoCall.by = "api" /\ NoCall.what = <<>>
BY DEF NoCall

\* What it means for the rest that a call is sent; and that one is written or refused, or its
\* answer heard, and stays what it is.
Sent(c, row) ==
  /\ CallsTyped' /\ calls[c] = NoCall /\ calls'[c] = row
  /\ \A d \in Call \ {c} : calls'[d] = calls[d]
  /\ \A d \in Call, q \in Lists : Deletes(d, q) => Deletes(d, q)'
  /\ \A d \in Call, p \in Pair : Unheard(d, p) => Unheard(d, p)'
  /\ \A p \in Pair : AddedBlindly(p) => AddedBlindly(p)'
Marked(c, a, t, f) ==
  /\ CallsTyped' /\ \A d \in Call \ {c} : calls'[d] = calls[d]
  /\ calls'[c].at = a /\ calls'[c].told = t /\ calls'[c].found = f
  /\ \A d \in Call : /\ calls'[d].op = calls[d].op /\ calls'[d].what = calls[d].what
                     /\ calls'[d].by = calls[d].by /\ calls'[d].knew = calls[d].knew
  /\ \A p \in Pair : AddedBlindly(p) => AddedBlindly(p)'

\* A call is sent, by the page or from elsewhere (use-resource-mutation.ts).
LEMMA SentCall ==
  ASSUME InventoryPageTypeOK, NEW c \in Call, NEW k \in Wants, NEW by \in {"page", "api"},
         NEW knew \in BOOLEAN, IsNext(c),
         NEW kept \in {<<>>} \cup {<<r>> : r \in (SUBSET Device) \cup (SUBSET Group)},
         calls' = [calls EXCEPT ![c] = CallOf(k, by, kept, knew)]
  PROVE  Sent(c, CallOf(k, by, kept, knew))
<1>1. k \in [op : {"deleteDevice", "deleteGroup", "assign", "unassign"},
             what : Device \cup Group \cup Pair]
  BY DEF Wants
<1>2. CallOf(k, by, kept, knew) \in CallRow
  BY <1>1 DEF CallOf, CallRow
<1>3. calls \in [Call -> CallRow \cup {NoCall}] /\ calls[c] = NoCall
  BY DEF InventoryPageTypeOK, IsNext
<1>4. /\ calls' \in [Call -> CallRow \cup {NoCall}] /\ calls'[c] = CallOf(k, by, kept, knew)
      /\ \A d \in Call \ {c} : calls'[d] = calls[d]
  BY <1>2, <1>3
<1>5. [op |-> calls'[c].op, what |-> calls'[c].what] = k
  BY <1>1, <1>4 DEF CallOf
<1>6. CallsTyped'
  BY <1>4, <1>5 DEF InventoryPageTypeOK, CallsTyped
<1>7. \A d \in Call, q \in Lists : Deletes(d, q) => Deletes(d, q)'
  BY <1>3, <1>4, NoCallFacts DEF Deletes, Awaited
<1>8. \A d \in Call, p \in Pair : Unheard(d, p) => Unheard(d, p)'
  BY <1>3, <1>4, NoCallFacts DEF Unheard, Awaited
<1>9. \A p \in Pair : AddedBlindly(p) => AddedBlindly(p)'
  BY <1>3, <1>4, NoCallFacts DEF AddedBlindly
<1>10. QED
  BY <1>3, <1>4, <1>6, <1>7, <1>8, <1>9 DEF Sent

\* A call is written or refused, or its answer heard.
LEMMA MarkedCall ==
  ASSUME InventoryPageTypeOK, NEW c \in Call, calls[c] # NoCall,
         NEW a \in {"sent", "written", "refused"}, NEW t \in BOOLEAN,
         NEW f \in {<<>>, calls[c].found},
         calls' = [calls EXCEPT ![c] = [calls[c] EXCEPT !.at = a, !.told = t, !.found = f]]
  PROVE  Marked(c, a, t, f)
<1>1. calls \in [Call -> CallRow \cup {NoCall}] /\ calls[c] \in CallRow
  BY DEF InventoryPageTypeOK
<1>2. calls'[c] = [calls[c] EXCEPT !.at = a, !.told = t, !.found = f]
  BY <1>1
<1>3. calls'[c] \in CallRow
  BY <1>1, <1>2 DEF CallRow
<1>4. \A d \in Call \ {c} : calls'[d] = calls[d]
  BY <1>1
<1>5. /\ calls'[c].at = a /\ calls'[c].told = t /\ calls'[c].found = f
      /\ calls'[c].op = calls[c].op /\ calls'[c].what = calls[c].what
      /\ calls'[c].by = calls[c].by /\ calls'[c].knew = calls[c].knew
  BY <1>1, <1>2 DEF CallRow
<1>6. calls' \in [Call -> CallRow \cup {NoCall}]
  BY <1>1, <1>3, <1>4
<1>7. CallsTyped'
  BY <1>4, <1>5, <1>6 DEF InventoryPageTypeOK, CallsTyped
<1>8. \A p \in Pair : AddedBlindly(p) => AddedBlindly(p)'
  BY <1>4, <1>5 DEF AddedBlindly
<1>9. QED
  BY <1>4, <1>5, <1>7, <1>8 DEF Marked

\* The rows that a statement leaves.
LEMMA WrittenRows ==
  ASSUME InventoryPageTypeOK, \A p \in Pair : stored.deviceGroups[p] > 0 => Kept(p),
         NEW c \in Call, calls[c].at = "sent", stored' \in Effects(calls[c])
  PROVE  /\ stored' \in Tables
         /\ stored'.devices \subseteq stored.devices /\ stored'.groups \subseteq stored.groups
         /\ calls[c].op # "deleteDevice" => stored'.devices = stored.devices
         /\ calls[c].op # "deleteGroup" => stored'.groups = stored.groups
         /\ \A p \in Pair :
              /\ stored'.deviceGroups[p] > 0 => Kept(p)'
              /\ Kept(p)' => \/ stored'.deviceGroups[p] = stored.deviceGroups[p]
                             \/ ~IsDelete(calls[c]) /\ calls[c].what = p
              /\ \/ stored'.deviceGroups[p] = stored.deviceGroups[p]
                 \/ stored'.deviceGroups[p] = 0
                 \/ /\ calls[c].op = "assign" /\ calls[c].what = p
                    /\ stored'.deviceGroups[p] = stored.deviceGroups[p] + 1
<1> DEFINE k == calls[c]
           m == stored.deviceGroups
<1>1. k \in CallRow /\ k # NoCall
  BY NoCallFacts DEF InventoryPageTypeOK
<1>2. stored \in Tables /\ m \in [Pair -> Nat]
  BY DEF InventoryPageTypeOK, Tables
<1>3. \A p \in Pair : p[1] \in Device /\ p[2] \in Group /\ m[p] \in Nat
  BY <1>2 DEF Pair
<1>4. CASE k.op = "deleteDevice"
  <2>1. k.what \in Device
    BY <1>1, <1>4, CallFacts
  <2>2. stored' = [stored EXCEPT !.devices = @ \ {k.what},
                       !.deviceGroups = [p \in Pair |-> IF p[1] = k.what THEN 0 ELSE @[p]]]
    BY <1>4 DEF Effects
  <2>3. /\ stored'.devices = stored.devices \ {k.what} /\ stored'.groups = stored.groups
        /\ stored'.deviceGroups = [p \in Pair |-> IF p[1] = k.what THEN 0 ELSE m[p]]
        /\ stored' \in Tables
    BY <1>2, <2>2 DEF Tables
  <2>4. QED
    BY <1>2, <1>3, <1>4, <2>3 DEF Kept
<1>5. CASE k.op = "deleteGroup"
  <2>1. k.what \in Group
    BY <1>1, <1>5, CallFacts
  <2>2. stored' = [stored EXCEPT !.groups = @ \ {k.what},
                       !.deviceGroups = [p \in Pair |-> IF p[2] = k.what THEN 0 ELSE @[p]]]
    BY <1>5 DEF Effects
  <2>3. /\ stored'.groups = stored.groups \ {k.what} /\ stored'.devices = stored.devices
        /\ stored'.deviceGroups = [p \in Pair |-> IF p[2] = k.what THEN 0 ELSE m[p]]
        /\ stored' \in Tables
    BY <1>2, <2>2 DEF Tables
  <2>4. QED
    BY <1>2, <1>3, <1>5, <2>3 DEF Kept
<1>6. CASE k.op = "assign"
  <2>1. k.what \in Pair
    BY <1>1, <1>6, CallFacts
  <2>2. /\ stored' = [stored EXCEPT !.deviceGroups[k.what] = @ + 1]
        /\ k.what[1] \in stored.devices /\ k.what[2] \in stored.groups
    BY <1>6 DEF Effects
  <2>3. /\ stored'.groups = stored.groups /\ stored'.devices = stored.devices
        /\ stored'.deviceGroups = [m EXCEPT ![k.what] = @ + 1]
    BY <1>2, <2>2 DEF Tables
  <2>4. \A p \in Pair : stored'.deviceGroups[p] = IF p = k.what THEN m[p] + 1 ELSE m[p]
    BY <1>2, <2>1, <2>3
  <2>5. stored' \in Tables
    BY <1>2, <2>1, <2>2, <2>3 DEF Tables
  <2>6. QED
    BY <1>3, <1>6, <2>2, <2>3, <2>4, <2>5 DEF Kept, IsDelete
<1>7. CASE k.op = "unassign"
  <2>1. k.what \in Pair
    BY <1>1, <1>7, CallFacts
  <2>2. stored' = [stored EXCEPT !.deviceGroups[k.what] = 0]
    BY <1>7 DEF Effects
  <2>3. /\ stored'.groups = stored.groups /\ stored'.devices = stored.devices
        /\ stored'.deviceGroups = [m EXCEPT ![k.what] = 0]
    BY <1>2, <2>2 DEF Tables
  <2>4. \A p \in Pair : stored'.deviceGroups[p] = IF p = k.what THEN 0 ELSE m[p]
    BY <1>2, <2>1, <2>3
  <2>5. stored' \in Tables
    BY <1>2, <2>1, <2>2, <2>3 DEF Tables
  <2>6. QED
    BY <1>3, <1>7, <2>3, <2>4, <2>5 DEF Kept, IsDelete
<1>8. QED
  BY <1>1, <1>4, <1>5, <1>6, <1>7 DEF CallRow

\* A list of devices or groups that says no more than it did.
LEMMA TableStep ==
  ASSUME NEW q, TableInv(q), stored'[q] = stored[q],
         (\A c \in Call : ~Deletes(c, q)') => \A c \in Call : ~Deletes(c, q),
         Mute(lists'[q]) \/ Echo(lists[q], lists'[q])
  PROVE  TableInv(q)'
BY DEF TableInv, Mute, Echo

\* A list of memberships, of one pair, that says no more than it did.
LEMMA RelationStep ==
  ASSUME NEW q, NEW p, RelationInv(q, p), stored'.deviceGroups[p] = stored.deviceGroups[p],
         Kept(p)' => Kept(p),
         (\A c \in Call : ~Unheard(c, p)') => \A c \in Call : ~Unheard(c, p),
         \/ Mute(lists'[q])
         \/ q \in old' /\ lists'[q].answer = <<>>
         \/ Echo(lists[q], lists'[q]) /\ (q \in old => q \in old')
  PROVE  RelationInv(q, p)'
BY DEF RelationInv, Mute, Echo, Agrees

\* A step that changes no row, and after which no list says more than before, or the page
\* waits for a delete of it.
Calm(q) ==
  \/ Mute(lists'[q])
  \/ q \in Opened \cap old' /\ lists'[q].answer = <<>>
  \/ Echo(lists[q], lists'[q]) /\ (q \in old => q \in old')
  \/ q \in {"devices", "groups"} /\ \E c \in Call : Deletes(c, q)'

\* Then all the lists stay as right as they were.
LEMMA CalmLists ==
  ASSUME TablesInv, RelationsInv, UNCHANGED stored,
         \A c \in Call, q \in Lists : Deletes(c, q) => Deletes(c, q)',
         \A c \in Call, p \in Pair : Unheard(c, p) => Unheard(c, p)',
         \A q \in Lists \cup Opened : Calm(q)
  PROVE  TablesInv' /\ RelationsInv'
<1>1. ASSUME NEW q \in {"devices", "groups"}
      PROVE  TableInv(q)'
  <2>1. TableInv(q) /\ q \in Lists /\ q \notin Opened /\ Calm(q)
    BY <1>1 DEF TablesInv, Lists
  <2>2. CASE \E c \in Call : Deletes(c, q)'
    BY <2>2 DEF TableInv
  <2>3. CASE ~\E c \in Call : Deletes(c, q)'
    BY <2>1, <2>3, TableStep DEF Calm
  <2>4. QED
    BY <2>2, <2>3
<1>2. ASSUME NEW p \in Pair, NEW q \in {"deviceGroups"} \cup Opened, RelationInv(q, p)
      PROVE  RelationInv(q, p)'
  <2>1. Kept(p)' => Kept(p)
    BY DEF Kept
  <2>2. Calm(q) /\ q \notin {"devices", "groups"}
    BY <1>2 DEF Lists
  <2>3. QED
    BY <1>2, <2>1, <2>2, RelationStep DEF Calm
<1>3. QED
  BY <1>1, <1>2 DEF TablesInv, RelationsInv

\* A call that is sent, of which nobody can say that it knew the row it adds.
LEMMA OnceStep ==
  ASSUME RowsOnce, stored'.deviceGroups = stored.deviceGroups,
         \A p \in Pair : AddedBlindly(p) => AddedBlindly(p)',
         \A p \in Pair, c \in Call : Adds(c, p)' => Adds(c, p) \/ AddedBlindly(p)'
  PROVE  RowsOnce'
<1>1. ASSUME NEW p \in Pair PROVE OnceInv(p)'
  <2>1. OnceInv(p)
    BY DEF RowsOnce
  <2>2. QED
    BY <2>1 DEF OnceInv
<1>2. QED
  BY <1>1 DEF RowsOnce

----------------------------------------------------------------------------
\* The page opens (inventory-page.tsx).
LEMMA InitInventory == InventoryPageInit => InventoryPageInv
<1> SUFFICES ASSUME InventoryPageInit PROVE InventoryPageInv
  OBVIOUS
<1> USE DEF InventoryPageInit
<1>1. /\ stored.devices = Device /\ stored.groups = Group
      /\ stored.deviceGroups \in [Pair -> {0, 1}] /\ stored \in Tables
  BY DEF Tables
<1>2. RowsInv
  <2>1. \A p \in Pair : Kept(p)
    BY <1>1 DEF Kept, Pair
  <2>2. old = {} /\ troubles \in 0 .. MaxSteps
    OBVIOUS
  <2>3. QED
    BY <1>1, <2>1, <2>2 DEF RowsInv
<1>3. \A c \in Call : calls[c] = NoCall
  OBVIOUS
<1>4. CallsInv
  BY <1>3, NoCallFacts DEF CallsInv, CallsTyped, IsDelete
<1>5. DialogInv
  BY DEF DialogInv, NoDialog, IsDelete
<1>6. \A Rows : IsListOver(Unread, Rows) /\ IsListOver(Asked(Unread), Rows)
  <2>1. /\ Asked(Unread).rows = <<>> /\ Asked(Unread).answer = <<>>
        /\ Asked(Unread) \in [rows : {<<>>}, asked : BOOLEAN, answer : {<<>>}, failed : BOOLEAN,
                             missed : BOOLEAN, late : BOOLEAN]
    BY DEF Asked, Cancelled, Unread
  <2>2. QED
    BY <2>1 DEF IsListOver, Unread
<1>7. \A q \in Lists \cup Opened : lists[q] = (IF q \in Lists THEN Asked(Unread) ELSE Unread)
  OBVIOUS
<1>8. ListsTyped
  BY <1>6, <1>7 DEF ListsTyped
<1>9. UnusedInv
  BY <1>7 DEF UnusedInv, InUse, Unread
<1>10. /\ ~UpToDate(Unread) /\ Unread.answer = <<>>
       /\ ~UpToDate(Asked(Unread)) /\ Asked(Unread).answer = <<>>
  BY DEF Unread, UpToDate, Asked, Cancelled
<1>11. \A q \in Lists \cup Opened : ~UpToDate(lists[q]) /\ lists[q].answer = <<>>
  BY <1>7, <1>10
<1>12. TablesInv /\ RelationsInv
  BY <1>11 DEF TablesInv, TableInv, RelationsInv, RelationInv, Lists
<1>13. RowsOnce
  <2>1. SUFFICES ASSUME NEW p \in Pair PROVE OnceInv(p)
    BY DEF RowsOnce
  <2>2. stored.deviceGroups[p] \in {0, 1}
    BY <1>1
  <2>3. QED
    BY <1>3, <2>2, NoCallFacts DEF OnceInv, Adds
<1>14. QED
  BY <1>2, <1>4, <1>5, <1>8, <1>9, <1>12, <1>13 DEF InventoryPageInv

\* What each step may assume.
LEMMA InventoryParts ==
  ASSUME InventoryPageInv
  PROVE  /\ InventoryPageTypeOK
         /\ RowsInv /\ CallsInv /\ DialogInv /\ ListsTyped /\ UnusedInv /\ TablesInv
         /\ RelationsInv /\ RowsOnce
<1>1. InventoryPageTypeOK
  BY DEF InventoryPageInv, InventoryPageTypeOK, RowsInv, CallsInv, CallsTyped, DialogInv,
         ListsTyped
<1>2. QED
  BY <1>1 DEF InventoryPageInv

\* The lists stay as they are.
LEMMA SameLists ==
  ASSUME ListsTyped, TablesInv, RelationsInv, UNCHANGED <<stored, lists, old>>,
         \A c \in Call, q \in Lists : Deletes(c, q) => Deletes(c, q)',
         \A c \in Call, p \in Pair : Unheard(c, p) => Unheard(c, p)'
  PROVE  ListsTyped' /\ TablesInv' /\ RelationsInv'
<1>1. \A q \in Lists \cup Opened : Calm(q)
  BY DEF Calm, Echo
<1>2. QED
  BY <1>1, CalmLists DEF ListsTyped

\* No call is sent, written or heard of.
LEMMA SameCalls ==
  ASSUME CallsInv, UNCHANGED calls
  PROVE  /\ CallsInv'
         /\ \A c \in Call, q \in Lists : Deletes(c, q) => Deletes(c, q)'
         /\ \A c \in Call, p \in Pair : Unheard(c, p) => Unheard(c, p)'
         /\ RowsOnce /\ UNCHANGED stored => RowsOnce'
<1>1. /\ CallsInv'
      /\ \A c \in Call, q \in Lists : Deletes(c, q) => Deletes(c, q)'
      /\ \A c \in Call, p \in Pair : Unheard(c, p) => Unheard(c, p)'
  BY DEF CallsInv, CallsTyped, Deletes, Unheard, Awaited
<1>2. ASSUME RowsOnce, UNCHANGED stored PROVE RowsOnce'
  <2>1. \A p \in Pair : AddedBlindly(p) => AddedBlindly(p)'
    BY DEF AddedBlindly
  <2>2. \A p \in Pair, c \in Call : Adds(c, p)' => Adds(c, p)
    BY DEF Adds
  <2>3. QED
    BY <1>2, <2>1, <2>2, OnceStep
<1>3. QED
  BY <1>1, <1>2

\* The rows stay, and so do the troubles.
LEMMA SameRows ==
  ASSUME RowsInv, UNCHANGED <<stored, troubles>>, old' \subseteq Opened
  PROVE  RowsInv'
BY DEF RowsInv, Kept

----------------------------------------------------------------------------
\* The dialog that asks whether to delete (confirm-delete-dialog.tsx).
LEMMA AskDeleteStep ==
  ASSUME InventoryPageInv, NEW k \in Wants, AskDelete(k)
  PROVE  InventoryPageInv'
<1> USE InventoryParts
<1>1. /\ dialog = NoDialog /\ IsDelete(k) /\ UNCHANGED <<stored, lists, old, calls, troubles>>
      /\ dialog' = [NoDialog EXCEPT !.op = k.op, !.what = k.what]
  BY DEF AskDelete
<1>2. k.op \in {"deleteDevice", "deleteGroup"} /\ k.what \in Device \cup Group
        /\ k = [op |-> k.op, what |-> k.what]
  BY <1>1 DEF Wants, IsDelete
<1>3. dialog' = [op |-> k.op, what |-> k.what, mutates |-> 0]
  BY <1>1 DEF NoDialog
<1>4. DialogInv'
  BY <1>2, <1>3 DEF DialogInv
<1>5. UnusedInv'
  BY <1>1, <1>2, <1>3 DEF UnusedInv, InUse, NoDialog
<1>6. RowsInv'
  BY <1>1, SameRows DEF RowsInv
<1>7. CallsInv' /\ ListsTyped' /\ TablesInv' /\ RelationsInv' /\ RowsOnce'
  BY <1>1, SameCalls, SameLists
<1>8. QED
  BY <1>4, <1>5, <1>6, <1>7 DEF InventoryPageInv

\* The delete takes its row from a list, for which the page now waits.
LEMMA ConfirmStep ==
  ASSUME InventoryPageInv, Confirm
  PROVE  InventoryPageInv'
<1> USE InventoryParts
<1>0. PICK k, own : k = [op |-> dialog.op, what |-> dialog.what] /\ own = ListOf(k)
  OBVIOUS
<1>1. PICK c \in Call :
        /\ IsNext(c)
        /\ calls' = [calls EXCEPT ![c] = CallOf(k, "page", lists[own].rows, FALSE)]
  BY <1>0 DEF Confirm
<1>2. /\ IsDelete(dialog) /\ dialog' = NoDialog /\ UNCHANGED <<stored, old, troubles>>
      /\ lists' = [lists EXCEPT ![own] = PatchedList(lists[own], lists[own].rows[1] \ {k.what})]
  BY <1>0 DEF Confirm
<1>3. k \in Wants /\ k.op \in {"deleteDevice", "deleteGroup"}
  BY <1>0, <1>2 DEF DialogInv, IsDelete
<1>4. own \in {"devices", "groups"} /\ own \in Lists
  BY <1>0 DEF ListOf, Lists
<1> DEFINE l == lists[own]
<1>5. IsListOver(l, RowsFor(own))
  BY <1>4 DEF ListsTyped
<1>6. l.rows = <<>> \/ (l.rows = <<l.rows[1]>> /\ l.rows[1] \in RowsFor(own))
  BY <1>5 DEF IsListOver
<1>7. RowsFor(own) = SUBSET Device \/ RowsFor(own) = SUBSET Group
  BY <1>4 DEF RowsFor
<1>8. l.rows \in {<<>>} \cup {<<r>> : r \in (SUBSET Device) \cup (SUBSET Group)}
  <2>1. CASE l.rows = <<>>
    BY <2>1
  <2>2. CASE l.rows # <<>>
    <3>1. PICK r \in (SUBSET Device) \cup (SUBSET Group) : l.rows = <<r>>
      BY <1>6, <1>7, <2>2
    <3>2. QED
      BY <3>1
  <2>3. QED
    BY <2>1, <2>2
<1>9. l.rows = <<>> \/ l.rows[1] \ {k.what} \in RowsFor(own)
  BY <1>6, <1>7
<1>10. IsListOver(PatchedList(l, l.rows[1] \ {k.what}), RowsFor(own))
  BY <1>5, <1>9, SetLists
<1>11. ListsTyped' /\ \A q \in (Lists \cup Opened) \ {own} : lists'[q] = lists[q]
  BY <1>2, <1>4, <1>10, OneList
<1>12. Sent(c, CallOf(k, "page", l.rows, FALSE))
  BY <1>1, <1>3, <1>8, SentCall
<1> USE DEF Sent, CallsTyped
<1>13. /\ calls'[c].op = k.op /\ calls'[c].what = k.what
       /\ calls'[c].by = "page" /\ ~calls'[c].told
       /\ calls'[c].found = l.rows
  BY <1>12 DEF CallOf
<1>14. ListOf(calls'[c]) = own
  BY <1>0, <1>13 DEF ListOf
<1>15. CallsInv'
  BY <1>6, <1>12, <1>13, <1>14 DEF CallsInv, RowsFor
<1>16. Deletes(c, own)'
  BY <1>3, <1>13, <1>14 DEF Deletes, Awaited, IsDelete
<1>17. \A q \in Lists \cup Opened : Calm(q)
  BY <1>2, <1>4, <1>11, <1>16 DEF Calm, Echo
<1>18. TablesInv' /\ RelationsInv'
  BY <1>2, <1>12, <1>17, CalmLists
<1>19. \A p \in Pair, d \in Call : Adds(d, p)' => Adds(d, p)
  BY <1>3, <1>12, <1>13 DEF Adds
<1>20. RowsOnce'
  BY <1>2, <1>12, <1>19, OnceStep
<1>21. DialogInv' /\ RowsInv'
  BY <1>2, SameRows DEF DialogInv, NoDialog, IsDelete, RowsInv
<1>22. UnusedInv'
  BY <1>2, <1>4, <1>11 DEF UnusedInv, InUse, NoDialog, IsDelete
<1>23. QED
  BY <1>11, <1>15, <1>18, <1>20, <1>21, <1>22 DEF InventoryPageInv

\* The dialog of memberships opens, and its list is asked for or not old.
LEMMA OpenRelationsStep ==
  ASSUME InventoryPageInv, NEW x, OpenRelations(x)
  PROVE  InventoryPageInv'
<1> USE InventoryParts
<1>1. /\ dialog = NoDialog /\ x \in Opened /\ UNCHANGED <<stored, calls, troubles>>
      /\ dialog' = [NoDialog EXCEPT !.op = "relations", !.what = x]
      /\ \/ lists' = [lists EXCEPT ![x] = Asked(lists[x])] /\ old' = old \ {x}
         \/ x \notin old /\ UNCHANGED <<lists, old>>
  BY DEF OpenRelations
<1>2. dialog' = [op |-> "relations", what |-> x, mutates |-> 0]
  BY <1>1 DEF NoDialog
<1>3. x \notin old' /\ old' \subseteq Opened
  BY <1>1 DEF RowsInv
<1>4. DialogInv' /\ RowsInv'
  BY <1>1, <1>2, <1>3, SameRows DEF DialogInv, IsDelete
<1>5. /\ ListsTyped' /\ \A q \in (Lists \cup Opened) \ {x} : lists'[q] = lists[q]
      /\ (lists'[x] = lists[x] /\ UNCHANGED old) \/ Mute(lists'[x])
  <2>1. CASE UNCHANGED <<lists, old>>
    BY <2>1 DEF ListsTyped
  <2>2. CASE lists' = [lists EXCEPT ![x] = Asked(lists[x])]
    <3>1. IsListOver(lists[x], RowsFor(x))
      BY <1>1 DEF ListsTyped
    <3>2. IsListOver(Asked(lists[x]), RowsFor(x)) /\ Mute(Asked(lists[x]))
      BY <3>1, AskedLists, MuteLists
    <3>3. QED
      BY <1>1, <2>2, <3>2, OneList
  <2>3. QED
    BY <1>1, <2>1, <2>2
<1>6. \A q \in Lists \cup Opened : Calm(q)
  BY <1>1, <1>5 DEF Calm, Echo
<1>7. CallsInv' /\ TablesInv' /\ RelationsInv' /\ RowsOnce'
  BY <1>1, <1>6, SameCalls, CalmLists
<1>8. UnusedInv'
  BY <1>1, <1>2, <1>5 DEF UnusedInv, InUse, NoDialog
<1>9. QED
  BY <1>4, <1>5, <1>7, <1>8 DEF InventoryPageInv

\* A list whose fetch is given up is old.
LEMMA CloseDialogStep ==
  ASSUME InventoryPageInv, CloseDialog
  PROVE  InventoryPageInv'
<1> USE InventoryParts
<1>1. dialog' = NoDialog /\ UNCHANGED <<stored, calls, troubles>>
  BY DEF CloseDialog
<1>2. CASE dialog.op # "relations"
  <2>1. UNCHANGED <<lists, old>>
    BY <1>2 DEF CloseDialog
  <2>2. CallsInv' /\ ListsTyped' /\ TablesInv' /\ RelationsInv' /\ RowsOnce'
    BY <1>1, <2>1, SameCalls, SameLists
  <2>3. DialogInv' /\ RowsInv'
    BY <1>1, <2>1, SameRows DEF DialogInv, NoDialog, IsDelete, RowsInv
  <2>4. UnusedInv'
    BY <1>1, <1>2, <2>1 DEF UnusedInv, InUse, NoDialog
  <2>5. QED
    BY <2>2, <2>3, <2>4 DEF InventoryPageInv
<1>3. CASE dialog.op = "relations"
  <2> DEFINE x == dialog.what
             l == lists[x]
  <2>1. /\ lists' = [lists EXCEPT ![x] = Cancelled(l)]
        /\ old' = IF l.asked THEN old \cup {x} ELSE old
    BY <1>3 DEF CloseDialog
  <2>2. x \in Opened /\ old \subseteq Opened
    BY <1>3 DEF DialogInv, RowsInv
  <2>3. IsListOver(l, RowsFor(x))
    BY <2>2 DEF ListsTyped
  <2>4. /\ IsListOver(Cancelled(l), RowsFor(x)) /\ Cancelled(l).answer = <<>>
        /\ ~Cancelled(l).asked /\ (~l.asked => Echo(l, Cancelled(l)))
    BY <2>3, AskedLists, MuteLists
  <2>5. /\ ListsTyped' /\ lists'[x] = Cancelled(l)
        /\ \A q \in (Lists \cup Opened) \ {x} : lists'[q] = lists[q]
    BY <2>1, <2>2, <2>4, OneList
  <2>6. \A q \in Lists \cup Opened : Calm(q)
    BY <2>1, <2>2, <2>4, <2>5 DEF Calm, Echo
  <2>7. CallsInv' /\ TablesInv' /\ RelationsInv' /\ RowsOnce'
    BY <1>1, <2>6, SameCalls, CalmLists
  <2>8. DialogInv' /\ RowsInv'
    BY <1>1, <2>1, <2>2, SameRows DEF DialogInv, NoDialog, IsDelete
  <2>9. UnusedInv'
    BY <1>3, <2>2, <2>4, <2>5 DEF UnusedInv, InUse
  <2>10. QED
    BY <2>5, <2>7, <2>8, <2>9 DEF InventoryPageInv
<1>4. QED
  BY <1>2, <1>3

\* The rows that the page has of devices and groups are devices and groups.
LEMMA RowsOfLists ==
  ASSUME ListsTyped
  PROVE  Devices \subseteq Device /\ Groups \subseteq Group
<1>1. IsListOver(lists["devices"], SUBSET Device) /\ IsListOver(lists["groups"], SUBSET Group)
  BY DEF ListsTyped, RowsFor, Lists
<1>2. QED
  BY <1>1 DEF IsListOver, Devices, Groups, Loaded

\* The dialog adds what its list has not: there is none, if it knows (relations-dialog.tsx).
LEMMA ToggleStep ==
  ASSUME InventoryPageInv, NEW x, Toggle(x)
  PROVE  InventoryPageInv'
<1> USE InventoryParts
<1>1. PICK k, knew :
        /\ k = [op |-> IF Selected(x) THEN "unassign" ELSE "assign", what |-> PairWith(x)]
        /\ knew = Knows(k.what)
  OBVIOUS
<1>2. PICK c \in Call :
        /\ IsNext(c) /\ calls' = [calls EXCEPT ![c] = CallOf(k, "page", <<>>, knew)]
        /\ dialog' = [dialog EXCEPT !.mutates = c]
  BY <1>1 DEF Toggle
<1>3. dialog.op = "relations" /\ x \in Options /\ UNCHANGED <<stored, lists, old, troubles>>
  BY DEF Toggle
<1>4. dialog.what \in Opened \ old /\ dialog.what \in Device \cup Group
  BY <1>3 DEF DialogInv
<1>5. k.what \in Pair /\ k.what = PairWith(x) /\ dialog.what \in {k.what[1], k.what[2]}
  BY <1>1, <1>3, <1>4, RowsOfLists DEF PairWith, Options, Pair
<1>6. k.op \in {"assign", "unassign"} /\ (k.op = "assign" => ~Selected(x))
  BY <1>1
<1>7. k \in Wants /\ knew \in BOOLEAN
  BY <1>1, <1>5, <1>6 DEF Wants, Knows
<1>8. Sent(c, CallOf(k, "page", <<>>, knew))
  BY <1>2, <1>7, SentCall
<1> USE DEF Sent, CallsTyped
<1>9. /\ calls'[c].op = k.op /\ calls'[c].what = k.what /\ calls'[c].at = "sent"
      /\ calls'[c].found = <<>> /\ calls'[c].knew = knew
  BY <1>8 DEF CallOf
<1>10. CallsInv'
  BY <1>8, <1>9 DEF CallsInv
<1>11. ListsTyped' /\ TablesInv' /\ RelationsInv'
  BY <1>3, <1>8, SameLists
<1>12. RowsInv'
  BY <1>3, SameRows DEF RowsInv
<1>13. dialog'.op = dialog.op /\ dialog'.what = dialog.what /\ DialogInv'
  BY <1>2, <1>3 DEF DialogInv, Call, IsDelete
<1>14. UnusedInv'
  BY <1>3, <1>13 DEF UnusedInv, InUse
<1>15. ASSUME NEW p \in Pair PROVE OnceInv(p)'
  <2>1. OnceInv(p) /\ stored.deviceGroups[p] \in Nat
    BY DEF RowsOnce, RowsInv, Tables
  <2>2. CASE k.op # "assign" \/ k.what # p
    <3>1. \A d \in Call : Adds(d, p)' => Adds(d, p)
      BY <1>8, <1>9, <2>2 DEF Adds
    <3>2. QED
      BY <1>3, <1>8, <2>1, <3>1 DEF OnceInv
  <2>3. CASE k.op = "assign" /\ k.what = p /\ ~knew
    BY <1>9, <2>3 DEF OnceInv, AddedBlindly
  <2>4. CASE k.op = "assign" /\ k.what = p /\ knew
    <3>1. /\ UpToDate(lists[dialog.what])
          /\ \A d \in Call : calls[d].what = p => calls[d].at # "sent" /\ ~Awaited(d)
      BY <1>1, <2>4 DEF Knows
    <3>2. ~(lists[dialog.what].rows[1][p] > 0)
      BY <1>5, <1>6, <2>4 DEF Selected
    <3>3. RelationInv(dialog.what, p)
      BY <1>4, <1>5, <2>4 DEF RelationsInv
    <3>4. \A d \in Call : ~Unheard(d, p)
      BY <3>1 DEF Unheard
    <3>5. ~(stored.deviceGroups[p] > 0)
      BY <1>4, <3>1, <3>2, <3>3, <3>4 DEF RelationInv, Agrees, RowsInv
    <3>6. stored.deviceGroups[p] = 0
      BY <2>1, <3>5
    <3>7. \A d \in Call : Adds(d, p)' => d = c
      BY <1>8, <3>1 DEF Adds
    <3>8. QED
      BY <1>3, <3>6, <3>7 DEF OnceInv
  <2>5. QED
    BY <1>7, <2>2, <2>3, <2>4
<1>16. RowsOnce'
  BY <1>15 DEF RowsOnce
<1>17. QED
  BY <1>10, <1>11, <1>12, <1>13, <1>14, <1>16 DEF InventoryPageInv

\* Whoever calls from elsewhere adds blindly.
LEMMA CallElsewhereStep ==
  ASSUME InventoryPageInv, NEW k \in Wants, CallElsewhere(k)
  PROVE  InventoryPageInv'
<1> USE InventoryParts
<1>1. PICK c \in Call :
        /\ IsNext(c) /\ calls' = [calls EXCEPT ![c] = CallOf(k, "api", <<>>, FALSE)]
        /\ UNCHANGED <<stored, lists, old, dialog, troubles>>
  BY DEF CallElsewhere
<1>2. Sent(c, CallOf(k, "api", <<>>, FALSE))
  BY <1>1, SentCall
<1> USE DEF Sent, CallsTyped
<1>3. calls'[c].found = <<>> /\ ~calls'[c].knew
  BY <1>2 DEF CallOf
<1>4. CallsInv'
  BY <1>2, <1>3 DEF CallsInv
<1>5. ListsTyped' /\ TablesInv' /\ RelationsInv'
  BY <1>1, <1>2, SameLists
<1>6. \A p \in Pair, d \in Call : Adds(d, p)' => Adds(d, p) \/ AddedBlindly(p)'
  BY <1>2, <1>3 DEF Adds, AddedBlindly
<1>7. RowsOnce'
  BY <1>1, <1>2, <1>6, OnceStep
<1>8. RowsInv' /\ DialogInv' /\ UnusedInv'
  BY <1>1, SameRows DEF RowsInv, DialogInv, UnusedInv, InUse
<1>9. QED
  BY <1>4, <1>5, <1>7, <1>8 DEF InventoryPageInv

\* A call that is refused changes nothing.
LEMMA RefuseCallStep ==
  ASSUME InventoryPageInv, NEW c \in Call, RefuseCall(c)
  PROVE  InventoryPageInv'
<1> USE InventoryParts
<1>1. /\ calls[c].at = "sent" /\ calls' = [calls EXCEPT ![c].at = "refused"]
      /\ UNCHANGED <<stored, lists, old, dialog, troubles>>
  BY DEF RefuseCall
<1>2. calls[c] # NoCall /\ calls[c] \in CallRow
  BY <1>1, NoCallFacts DEF CallsInv, CallsTyped
<1>3. calls' = [calls EXCEPT ![c] = [calls[c] EXCEPT !.at = "refused", !.told = calls[c].told,
                                                    !.found = calls[c].found]]
  BY <1>1, <1>2 DEF CallRow
<1>4. calls[c].told \in BOOLEAN
  BY <1>2 DEF CallRow
<1>5. Marked(c, "refused", calls[c].told, calls[c].found)
  BY <1>2, <1>3, <1>4, MarkedCall
<1> USE DEF Marked, CallsTyped
<1>6. CallsInv'
  BY <1>5 DEF CallsInv, IsDelete, ListOf
<1>7. /\ \A d \in Call, q \in Lists : Deletes(d, q) => Deletes(d, q)'
      /\ \A d \in Call, p \in Pair : Unheard(d, p) => Unheard(d, p)'
  BY <1>1, <1>5 DEF Deletes, Unheard, Awaited, IsDelete, ListOf
<1>8. ListsTyped' /\ TablesInv' /\ RelationsInv'
  BY <1>1, <1>7, SameLists
<1>9. \A p \in Pair, d \in Call : Adds(d, p)' => Adds(d, p)
  BY <1>1, <1>5 DEF Adds
<1>10. RowsOnce'
  BY <1>1, <1>5, <1>9, OnceStep
<1>11. RowsInv' /\ DialogInv' /\ UnusedInv'
  BY <1>1, SameRows DEF RowsInv, DialogInv, UnusedInv, InUse
<1>12. QED
  BY <1>6, <1>8, <1>10, <1>11 DEF InventoryPageInv

\* A statement: the lists are overtaken, unless the page waits for its answer.
LEMMA WriteRowsStep ==
  ASSUME InventoryPageInv, NEW c \in Call, WriteRows(c)
  PROVE  InventoryPageInv'
<1> USE InventoryParts
<1>1. /\ calls[c].at = "sent" /\ stored' \in Effects(calls[c])
      /\ calls' = [calls EXCEPT ![c].at = "written"]
      /\ lists' = [q \in DOMAIN lists |->
           IF Awaited(c) \/ stored'[TableOf(q)] = stored[TableOf(q)] THEN lists[q]
           ELSE Overtaken(lists[q])]
      /\ UNCHANGED <<old, dialog, troubles>>
  BY DEF WriteRows
<1>2. calls[c] # NoCall /\ calls[c] \in CallRow
  BY <1>1, NoCallFacts DEF CallsInv, CallsTyped
<1>3. calls' = [calls EXCEPT ![c] = [calls[c] EXCEPT !.at = "written", !.told = calls[c].told,
                                                    !.found = calls[c].found]]
  BY <1>1, <1>2 DEF CallRow
<1>4. calls[c].told \in BOOLEAN
  BY <1>2 DEF CallRow
<1>5. Marked(c, "written", calls[c].told, calls[c].found)
  BY <1>2, <1>3, <1>4, MarkedCall
<1> USE DEF Marked, CallsTyped
<1>6. CallsInv'
  BY <1>5 DEF CallsInv, IsDelete, ListOf
<1>7. /\ \A d \in Call, q \in Lists : Deletes(d, q) => Deletes(d, q)'
      /\ \A d \in Call, p \in Pair : Unheard(d, p) => Unheard(d, p)'
  BY <1>1, <1>5 DEF Deletes, Unheard, Awaited, IsDelete, ListOf
<1>8. /\ stored' \in Tables
      /\ stored'.devices \subseteq stored.devices /\ stored'.groups \subseteq stored.groups
      /\ calls[c].op # "deleteDevice" => stored'.devices = stored.devices
      /\ calls[c].op # "deleteGroup" => stored'.groups = stored.groups
      /\ \A p \in Pair :
           /\ stored'.deviceGroups[p] > 0 => Kept(p)'
           /\ Kept(p)' => \/ stored'.deviceGroups[p] = stored.deviceGroups[p]
                          \/ ~IsDelete(calls[c]) /\ calls[c].what = p
           /\ \/ stored'.deviceGroups[p] = stored.deviceGroups[p]
              \/ stored'.deviceGroups[p] = 0
              \/ /\ calls[c].op = "assign" /\ calls[c].what = p
                 /\ stored'.deviceGroups[p] = stored.deviceGroups[p] + 1
  BY <1>1, WrittenRows DEF RowsInv
<1>9. RowsInv'
  BY <1>1, <1>8 DEF RowsInv
<1>10. \A q \in Lists \cup Opened :
         lists'[q] = IF Awaited(c) \/ stored'[TableOf(q)] = stored[TableOf(q)] THEN lists[q]
                     ELSE Overtaken(lists[q])
  BY <1>1 DEF ListsTyped
<1>11. \A q \in Lists \cup Opened :
         /\ IsListOver(lists'[q], RowsFor(q)) /\ lists'[q].asked = lists[q].asked
         /\ lists'[q].answer = lists[q].answer
         /\ lists'[q] = lists[q] \/ (Mute(lists'[q]) /\ ~Awaited(c))
  <2>1. ASSUME NEW q \in Lists \cup Opened
        PROVE  LET l == lists[q] IN
               /\ IsListOver(l, RowsFor(q)) /\ IsListOver(Overtaken(l), RowsFor(q))
               /\ Overtaken(l).asked = l.asked /\ Overtaken(l).answer = l.answer
               /\ Mute(Overtaken(l))
    <3>1. IsListOver(lists[q], RowsFor(q))
      BY DEF ListsTyped
    <3>2. QED
      BY <3>1, AskedLists, MuteLists
  <2>2. QED
    BY <1>10, <2>1
<1>12. ListsTyped'
  BY <1>1, <1>11 DEF ListsTyped
<1>13. DialogInv' /\ UnusedInv'
  BY <1>1, <1>11 DEF DialogInv, UnusedInv, InUse
<1>14. ASSUME NEW q \in {"devices", "groups"} PROVE TableInv(q)'
  <2>1. q \in Lists /\ TableOf(q) = q /\ TableInv(q)
    BY DEF Lists, TableOf, TablesInv
  <2>2. CASE stored'[q] = stored[q]
    <3>1. lists'[q] = lists[q] /\ Echo(lists[q], lists'[q])
      BY <1>10, <2>1, <2>2 DEF Echo
    <3>2. QED
      BY <1>7, <2>1, <2>2, <3>1, TableStep
  <2>3. CASE stored'[q] # stored[q]
    <3>1. IsDelete(calls[c]) /\ ListOf(calls[c]) = q
      BY <1>8, <2>3 DEF IsDelete, ListOf
    <3>2. CASE Awaited(c)
      <4>1. Deletes(c, q)'
        BY <1>7, <2>1, <3>1, <3>2 DEF Deletes
      <4>2. QED
        BY <4>1 DEF TableInv
    <3>3. CASE ~Awaited(c)
      <4>1. lists'[q] = Overtaken(lists[q]) /\ IsListOver(lists[q], RowsFor(q))
        BY <1>10, <2>1, <2>3, <3>3 DEF ListsTyped
      <4>2. Mute(lists'[q])
        BY <4>1, MuteLists
      <4>3. QED
        BY <4>2 DEF TableInv, Mute
    <3>4. QED
      BY <3>2, <3>3
  <2>4. QED
    BY <2>2, <2>3
<1>15. ASSUME NEW p \in Pair, NEW q \in {"deviceGroups"} \cup Opened, RelationInv(q, p)
       PROVE  RelationInv(q, p)'
  <2>1. q \in Lists \cup Opened
    BY DEF Lists
  <2>2. CASE Mute(lists'[q])
    BY <2>2 DEF RelationInv, Mute
  <2>3. CASE ~Kept(p)'
    BY <2>3 DEF RelationInv
  <2>4. CASE lists'[q] = lists[q] /\ Kept(p)' /\ stored'.deviceGroups[p] = stored.deviceGroups[p]
    <3>1. Kept(p) /\ Echo(lists[q], lists'[q])
      BY <1>8, <2>4 DEF Kept, Echo
    <3>2. QED
      BY <1>1, <1>7, <1>15, <2>4, <3>1, RelationStep
  <2>5. CASE ~Mute(lists'[q]) /\ Kept(p)' /\ stored'.deviceGroups[p] # stored.deviceGroups[p]
    <3>1. stored'[TableOf(q)] # stored[TableOf(q)]
      BY <2>5 DEF TableOf
    <3>2. Awaited(c)
      <4>1. IsListOver(lists[q], RowsFor(q))
        BY <2>1 DEF ListsTyped
      <4>2. Mute(Overtaken(lists[q]))
        BY <4>1, MuteLists
      <4>3. QED
        BY <1>10, <2>1, <2>5, <3>1, <4>2
    <3>3. ~IsDelete(calls[c]) /\ calls[c].what = p
      BY <1>8, <2>5
    <3>4. Unheard(c, p)'
      BY <1>5, <3>2, <3>3 DEF Unheard, Awaited, IsDelete
    <3>5. QED
      BY <3>4 DEF RelationInv
  <2>6. QED
    BY <1>11, <2>1, <2>2, <2>3, <2>4, <2>5
<1>16. TablesInv' /\ RelationsInv'
  BY <1>14, <1>15 DEF TablesInv, RelationsInv
<1>17. ASSUME NEW p \in Pair PROVE OnceInv(p)'
  <2>1. OnceInv(p) /\ stored.deviceGroups[p] \in Nat
    BY DEF RowsOnce, RowsInv, Tables
  <2>2. \A d \in Call : Adds(d, p)' => Adds(d, p) /\ d # c
    BY <1>5 DEF Adds
  <2>3. CASE AddedBlindly(p)
    BY <1>5, <2>3 DEF OnceInv
  <2>4. CASE ~AddedBlindly(p)
    <3>1. /\ stored.deviceGroups[p] <= 1
          /\ \A d \in Call : Adds(d, p) =>
               stored.deviceGroups[p] = 0 /\ \A e \in Call : Adds(e, p) => e = d
      BY <2>1, <2>4 DEF OnceInv
    <3>2. CASE stored'.deviceGroups[p] = stored.deviceGroups[p] \/ stored'.deviceGroups[p] = 0
      <4>1. /\ stored'.deviceGroups[p] <= 1
            /\ \A d \in Call : Adds(d, p)' =>
                 stored'.deviceGroups[p] = 0 /\ \A e \in Call : Adds(e, p)' => e = d
        BY <2>2, <3>1, <3>2
      <4>2. QED
        BY <4>1 DEF OnceInv
    <3>3. CASE /\ calls[c].op = "assign" /\ calls[c].what = p
               /\ stored'.deviceGroups[p] = stored.deviceGroups[p] + 1
      <4>1. Adds(c, p)
        BY <1>1, <3>3 DEF Adds
      <4>2. stored'.deviceGroups[p] <= 1 /\ \A d \in Call : ~Adds(d, p)'
        BY <2>2, <3>1, <3>3, <4>1
      <4>3. QED
        BY <4>2 DEF OnceInv
    <3>4. QED
      BY <1>8, <3>2, <3>3
  <2>5. QED
    BY <2>3, <2>4
<1>18. RowsOnce'
  BY <1>17 DEF RowsOnce
<1>19. QED
  BY <1>6, <1>9, <1>12, <1>13, <1>16, <1>18 DEF InventoryPageInv

\* An answer refreshes what the call may have made wrong (use-resource-mutation.ts).
LEMMA SettleCallStep ==
  ASSUME InventoryPageInv, NEW c \in Call, NEW ok \in BOOLEAN, SettleCall(c, ok)
  PROVE  InventoryPageInv'
<1> USE InventoryParts
<1>1. PICK k, back, unseen :
        /\ k = calls[c]
        /\ back = IF IsDelete(k) /\ ~ok THEN [lists EXCEPT ![ListOf(k)] = RolledBack(@, k.found)]
                  ELSE lists
        /\ unseen = IF ~ok /\ k.at = "written" THEN Refreshes(k, TRUE) \ Refreshes(k, FALSE) ELSE {}
  OBVIOUS
<1>2. PICK fresh : fresh = Refreshes(k, ok)
  OBVIOUS
<1>3. /\ Awaited(c) /\ (ok => k.at = "written") /\ UNCHANGED <<stored, troubles>>
      /\ calls' = [calls EXCEPT ![c].told = TRUE, ![c].found = <<>>]
      /\ lists' = [q \in DOMAIN lists |->
           IF q \in fresh /\ InUse(q) THEN Refetched(back[q])
           ELSE IF q \in unseen THEN Overtaken(back[q]) ELSE back[q]]
      /\ old' = old \cup {q \in fresh : ~InUse(q)}
      /\ dialog' = IF dialog.mutates = c THEN [dialog EXCEPT !.mutates = 0] ELSE dialog
  BY <1>1, <1>2 DEF SettleCall
<1>4. k # NoCall /\ k \in CallRow
  BY <1>1, <1>3, NoCallFacts DEF CallsInv, CallsTyped, Awaited
<1>5. calls' = [calls EXCEPT ![c] = [calls[c] EXCEPT !.at = calls[c].at, !.told = TRUE,
                                                    !.found = <<>>]]
  BY <1>1, <1>3, <1>4 DEF CallRow
<1>6. calls[c].at \in {"sent", "written", "refused"}
  BY <1>1, <1>4 DEF CallRow
<1>7. Marked(c, calls[c].at, TRUE, <<>>)
  BY <1>1, <1>4, <1>5, <1>6, MarkedCall
<1> USE DEF Marked, CallsTyped
<1>8. CallsInv'
  BY <1>7 DEF CallsInv, IsDelete, ListOf
<1>9. RowsOnce'
  <2>1. \A p \in Pair, d \in Call : Adds(d, p)' => Adds(d, p)
    BY <1>7 DEF Adds
  <2>2. QED
    BY <1>3, <1>7, <2>1, OnceStep
<1>10. fresh \subseteq Lists \cup Opened /\ \A q \in fresh : InUse(q) \/ q \in Opened
  BY <1>2 DEF Refreshes, ListOf, Lists, InUse
<1>11. RowsInv'
  BY <1>3, <1>10, SameRows DEF RowsInv
<1>12. /\ dialog'.op = dialog.op /\ dialog'.what = dialog.what
       /\ dialog' \in [op : {"none", "relations", "deleteDevice", "deleteGroup"},
                       what : Device \cup Group \cup {NoOne}, mutates : 0 .. MaxCalls]
  BY <1>3 DEF DialogInv
<1>13. DialogInv'
  BY <1>3, <1>12 DEF DialogInv, IsDelete, InUse
<1>14. \A q \in Lists \cup Opened :
         lists'[q] = IF q \in fresh /\ InUse(q) THEN Refetched(back[q])
                     ELSE IF q \in unseen THEN Overtaken(back[q]) ELSE back[q]
  BY <1>3 DEF ListsTyped
<1>15. /\ DOMAIN back = Lists \cup Opened
       /\ \A q \in Lists \cup Opened : IsListOver(back[q], RowsFor(q))
       /\ \A q \in Lists \cup Opened : ~IsDelete(k) \/ q # ListOf(k) => back[q] = lists[q]
  <2>1. CASE IsDelete(k) /\ ~ok
    <3>1. PICK own : own = ListOf(k)
      OBVIOUS
    <3>2. own \in Lists \cup Opened
      BY <3>1 DEF ListOf, Lists
    <3>3. IsListOver(lists[own], RowsFor(own))
      BY <3>2 DEF ListsTyped
    <3>4. k.found = <<>> \/ k.found[1] \in RowsFor(own)
      BY <1>1, <2>1, <3>1 DEF CallsInv
    <3>5. {} \in RowsFor(own)
      BY <3>1 DEF RowsFor, ListOf
    <3>6. IsListOver(RolledBack(lists[own], k.found), RowsFor(own))
      BY <3>3, <3>4, <3>5, SetLists
    <3>7. back = [lists EXCEPT ![own] = RolledBack(lists[own], k.found)]
      BY <1>1, <2>1, <3>1
    <3>8. /\ DOMAIN back = Lists \cup Opened /\ back[own] = RolledBack(lists[own], k.found)
          /\ \A q \in (Lists \cup Opened) \ {own} : back[q] = lists[q]
      BY <3>2, <3>7 DEF ListsTyped
    <3>9. \A q \in Lists \cup Opened : IsListOver(back[q], RowsFor(q))
      BY <3>6, <3>8 DEF ListsTyped
    <3>10. QED
      BY <2>1, <3>1, <3>8, <3>9
  <2>2. CASE ~(IsDelete(k) /\ ~ok)
    BY <1>1, <2>2 DEF ListsTyped
  <2>3. QED
    BY <2>1, <2>2
<1>16. ASSUME NEW q \in Lists \cup Opened
       PROVE  /\ IsListOver(Refetched(back[q]), RowsFor(q)) /\ Mute(Refetched(back[q]))
              /\ IsListOver(Overtaken(back[q]), RowsFor(q)) /\ Mute(Overtaken(back[q]))
              /\ Overtaken(back[q]).asked = back[q].asked
              /\ Overtaken(back[q]).answer = back[q].answer
  <2>1. IsListOver(back[q], RowsFor(q))
    BY <1>15
  <2>2. QED
    BY <2>1, AskedLists, MuteLists
<1>17. ListsTyped'
  BY <1>3, <1>14, <1>15, <1>16 DEF ListsTyped
<1>18. \A q \in Opened : back[q] = lists[q]
  BY <1>15 DEF ListOf, Lists
<1>19. UnusedInv'
  <2>1. ASSUME NEW q \in Opened, ~InUse(q)'
        PROVE  ~lists'[q].asked /\ lists'[q].answer = <<>>
    <3>1. ~InUse(q) /\ ~lists[q].asked /\ lists[q].answer = <<>>
      BY <1>12, <2>1 DEF InUse, UnusedInv
    <3>2. QED
      BY <1>14, <1>16, <1>18, <3>1
  <2>2. QED
    BY <2>1 DEF UnusedInv
<1>20. ASSUME NEW q \in {"devices", "groups"} PROVE TableInv(q)'
  <2>1. q \in Lists /\ q \notin Opened /\ TableInv(q) /\ InUse(q)
    BY DEF Lists, TablesInv, InUse
  <2>2. CASE q \in fresh
    <3>1. Mute(lists'[q])
      BY <1>14, <1>16, <2>1, <2>2
    <3>2. QED
      BY <3>1 DEF TableInv, Mute
  <2>3. CASE q \notin fresh
    <3>1. ~(IsDelete(k) /\ ListOf(k) = q) /\ q \notin unseen
      BY <1>1, <1>2, <2>1, <2>3 DEF Refreshes
    <3>2. lists'[q] = lists[q]
      BY <1>14, <1>15, <2>1, <2>3, <3>1
    <3>3. \A d \in Call : Deletes(d, q) => Deletes(d, q)'
      BY <1>1, <1>7, <3>1 DEF Deletes, Awaited
    <3>4. QED
      BY <1>3, <2>1, <3>2, <3>3, TableStep DEF Echo
  <2>4. QED
    BY <2>2, <2>3
<1>21. ASSUME NEW p \in Pair, NEW q \in {"deviceGroups"} \cup (Opened \cap {p[1], p[2]}),
              RelationInv(q, p)
       PROVE  RelationInv(q, p)'
  <2>1. q \in Lists \cup Opened /\ q \notin {"devices", "groups"}
    BY DEF Lists
  <2>2. back[q] = lists[q]
    BY <1>15, <2>1 DEF ListOf
  <2>3. CASE (q \in fresh /\ InUse(q)) \/ q \in unseen
    <3>1. Mute(lists'[q])
      BY <1>14, <1>16, <2>1, <2>3
    <3>2. QED
      BY <3>1 DEF RelationInv, Mute
  <2>4. CASE q \in fresh /\ ~InUse(q) /\ q \notin unseen
    <3>1. q \in Opened /\ q \in old' /\ lists'[q].answer = <<>>
      BY <1>3, <1>10, <1>14, <2>1, <2>2, <2>4 DEF UnusedInv
    <3>2. QED
      BY <3>1 DEF RelationInv
  <2>5. CASE q \notin fresh /\ q \notin unseen
    <3>1. lists'[q] = lists[q] /\ Echo(lists[q], lists'[q]) /\ (q \in old => q \in old')
      BY <1>3, <1>14, <2>1, <2>2, <2>5 DEF Echo
    <3>2. ~Unheard(c, p)
      BY <1>1, <1>2, <1>21, <2>5 DEF Unheard, Refreshes
    <3>3. \A d \in Call : Unheard(d, p) => Unheard(d, p)'
      BY <1>7, <3>2 DEF Unheard, Awaited, IsDelete
    <3>4. Kept(p)' => Kept(p)
      BY <1>3 DEF Kept
    <3>5. QED
      BY <1>3, <1>21, <3>1, <3>3, <3>4, RelationStep
  <2>6. QED
    BY <2>3, <2>4, <2>5
<1>22. TablesInv' /\ RelationsInv'
  BY <1>20, <1>21 DEF TablesInv, RelationsInv
<1>23. QED
  BY <1>8, <1>9, <1>11, <1>13, <1>17, <1>19, <1>22 DEF InventoryPageInv

\* A list is read and comes.
LEMMA FetchPageStep ==
  ASSUME InventoryPageInv, NEW x \in DOMAIN lists, FetchPage(x)
  PROVE  InventoryPageInv'
<1> USE InventoryParts
<1>1. UNCHANGED <<stored, old, calls, dialog, troubles>> /\ x \in Lists \cup Opened
  BY DEF FetchPage, ListsTyped
<1>2. PICK l, rows : l = lists[x] /\ rows = RowsOf(x, stored)
  OBVIOUS
<1>3. IsListOver(l, RowsFor(x))
  BY <1>1, <1>2 DEF ListsTyped
<1>4. rows \in RowsFor(x)
  BY <1>1, <1>2 DEF RowsOf, RowsFor, RowsInv, Tables, Lists
<1>5. \/ l.asked /\ lists' = [lists EXCEPT ![x] = HasRead(l, rows)]
      \/ l.answer # <<>> /\ lists' = [lists EXCEPT ![x] = Arrived(l)]
  BY <1>2 DEF FetchPage, MayRead
<1>6. /\ IsListOver(HasRead(l, rows), RowsFor(x)) /\ HasRead(l, rows).answer = <<rows>>
      /\ HasRead(l, rows).rows = l.rows /\ (UpToDate(HasRead(l, rows)) <=> UpToDate(l))
      /\ l.answer # <<>> =>
           /\ IsListOver(Arrived(l), RowsFor(x)) /\ Arrived(l).rows = l.answer
           /\ Arrived(l).answer = <<>> /\ Arrived(l).missed = l.late
  BY <1>3, <1>4, ReadLists
<1>7. /\ ListsTyped' /\ \A q \in (Lists \cup Opened) \ {x} : lists'[q] = lists[q]
      /\ \/ l.asked /\ lists'[x] = HasRead(l, rows)
         \/ l.answer # <<>> /\ lists'[x] = Arrived(l)
  BY <1>1, <1>5, <1>6, OneList
<1>8. /\ UpToDate(lists'[x]) =>
           \/ UpToDate(l) /\ lists'[x].rows = l.rows
           \/ l.answer # <<>> /\ ~l.late /\ lists'[x].rows = l.answer
      /\ lists'[x].answer # <<>> => lists'[x].answer[1] = rows
  <2>1. CASE lists'[x] = HasRead(l, rows)
    BY <1>6, <2>1
  <2>2. CASE l.answer # <<>> /\ lists'[x] = Arrived(l)
    <3>1. lists'[x].rows = l.answer /\ lists'[x].answer = <<>> /\ lists'[x].missed = l.late
      BY <1>6, <2>2
    <3>2. UpToDate(lists'[x]) => ~lists'[x].missed
      BY DEF UpToDate
    <3>3. QED
      BY <2>2, <3>1, <3>2
  <2>3. QED
    BY <1>7, <2>1, <2>2
<1>9. UnusedInv'
  BY <1>1, <1>2, <1>7 DEF UnusedInv, InUse
<1>10. CallsInv' /\ RowsOnce' /\ RowsInv' /\ DialogInv'
  BY <1>1, SameCalls, SameRows DEF RowsInv, DialogInv
<1>11. ASSUME NEW q \in {"devices", "groups"} PROVE TableInv(q)'
  <2>1. q \in Lists /\ TableInv(q)
    BY DEF Lists, TablesInv
  <2>2. (\A c \in Call : ~Deletes(c, q)') => \A c \in Call : ~Deletes(c, q)
    BY <1>10, <2>1, <1>1, SameCalls
  <2>3. CASE q # x
    BY <1>1, <1>7, <2>1, <2>2, <2>3, TableStep DEF Echo
  <2>4. CASE q = x
    <3>1. rows = stored[q]
      BY <1>2, <2>1, <2>4 DEF RowsOf
    <3>2. QED
      BY <1>1, <1>2, <1>8, <2>1, <2>2, <2>4, <3>1 DEF TableInv
  <2>5. QED
    BY <2>3, <2>4
<1>12. ASSUME NEW p \in Pair, NEW q \in {"deviceGroups"} \cup (Opened \cap {p[1], p[2]}),
              RelationInv(q, p)
       PROVE  RelationInv(q, p)'
  <2>1. q \in Lists \cup Opened /\ (Kept(p)' <=> Kept(p))
    BY <1>1 DEF Lists, Kept
  <2>2. (\A c \in Call : ~Unheard(c, p)') => \A c \in Call : ~Unheard(c, p)
    BY <1>1, SameCalls
  <2>3. CASE q # x
    BY <1>1, <1>7, <1>12, <2>1, <2>2, <2>3, RelationStep DEF Echo
  <2>4. CASE q = x
    <3>1. rows[p] = stored.deviceGroups[p]
      BY <1>2, <1>12, <2>4 DEF RowsOf, Lists
    <3>2. QED
      BY <1>1, <1>2, <1>8, <1>12, <2>1, <2>2, <2>4, <3>1 DEF RelationInv, Agrees
  <2>5. QED
    BY <2>3, <2>4
<1>13. TablesInv' /\ RelationsInv'
  BY <1>11, <1>12 DEF TablesInv, RelationsInv
<1>14. QED
  BY <1>7, <1>9, <1>10, <1>13 DEF InventoryPageInv

\* A fetch fails or begins of itself.
LEMMA TroubleFetchStep ==
  ASSUME InventoryPageInv, NEW x \in DOMAIN lists, TroubleFetch(x)
  PROVE  InventoryPageInv'
<1> USE InventoryParts
<1>1. /\ x \in Lists \cup Opened /\ UNCHANGED <<stored, old, calls, dialog>> /\ InUse(x)
      /\ SentCalls + troubles < MaxSteps /\ troubles' = troubles + 1
      /\ lists' = [lists EXCEPT ![x] = IF lists[x].asked THEN FetchFailed(lists[x])
                                       ELSE Asked(lists[x])]
  BY DEF TroubleFetch, ListsTyped
<1>2. SentCalls \in Nat
  <2>1. IsFiniteSet(Call)
    BY FS_Interval DEF Call
  <2>2. IsFiniteSet({c \in Call : calls[c] # NoCall})
    BY <2>1, FS_Subset
  <2>3. QED
    BY <2>2, FS_CardinalityType DEF SentCalls
<1>3. troubles' \in 0 .. MaxSteps
  <2>1. troubles \in Nat
    BY DEF RowsInv
  <2>2. QED
    BY <1>1, <1>2, <2>1
<1>4. RowsInv' /\ DialogInv'
  BY <1>1, <1>3 DEF RowsInv, Kept, DialogInv
<1>5. IsListOver(lists[x], RowsFor(x))
  BY <1>1 DEF ListsTyped
<1>6. PICK m : m = IF lists[x].asked THEN FetchFailed(lists[x]) ELSE Asked(lists[x])
  OBVIOUS
<1>7. IsListOver(m, RowsFor(x)) /\ Mute(m)
  BY <1>5, <1>6, AskedLists, MuteLists
<1>8. ListsTyped' /\ lists'[x] = m /\ \A q \in (Lists \cup Opened) \ {x} : lists'[q] = lists[q]
  BY <1>1, <1>6, <1>7, OneList
<1>9. \A q \in Lists \cup Opened : Calm(q)
  BY <1>1, <1>7, <1>8 DEF Calm, Echo
<1>10. CallsInv' /\ TablesInv' /\ RelationsInv' /\ RowsOnce'
  BY <1>1, <1>9, SameCalls, CalmLists
<1>11. UnusedInv'
  BY <1>1, <1>8 DEF UnusedInv, InUse
<1>12. QED
  BY <1>4, <1>8, <1>10, <1>11 DEF InventoryPageInv

----------------------------------------------------------------------------
\* No step of the page, the backend or anybody else breaks the invariant.
LEMMA InventoryStep == InventoryPageInv /\ [InventoryPageNext]_inventoryVars => InventoryPageInv'
<1> SUFFICES ASSUME InventoryPageInv, [InventoryPageNext]_inventoryVars PROVE InventoryPageInv'
  OBVIOUS
<1>1. CASE UNCHANGED inventoryVars
  <2>1. UNCHANGED <<stored, lists, old, calls, dialog, troubles>>
    BY <1>1 DEF inventoryVars
  <2>2. CallsInv' /\ ListsTyped' /\ TablesInv' /\ RelationsInv' /\ RowsOnce'
    BY <2>1, InventoryParts, SameCalls, SameLists
  <2>3. RowsInv' /\ DialogInv' /\ UnusedInv'
    BY <2>1, InventoryParts, SameRows DEF RowsInv, DialogInv, UnusedInv, InUse
  <2>4. QED
    BY <2>2, <2>3 DEF InventoryPageInv
<1>2. CASE InventoryPageNext
  BY <1>2, AskDeleteStep, ConfirmStep, OpenRelationsStep, CloseDialogStep, ToggleStep,
     CallElsewhereStep, WriteRowsStep, RefuseCallStep, SettleCallStep, FetchPageStep,
     TroubleFetchStep DEF InventoryPageNext
<1>3. QED
  BY <1>1, <1>2

\* When nothing is under way, every list is as the database.
LEMMA QuietLists ==
  ASSUME InventoryPageInv, InventoryQuiet
  PROVE  /\ Devices = stored.devices /\ Groups = stored.groups
         /\ stored.devices \subseteq Device /\ stored.groups \subseteq Group
         /\ \A p \in Pair : /\ Kept(p) => (Relation(p) <=> stored.deviceGroups[p] > 0)
                            /\ stored.deviceGroups[p] > 0 => Kept(p)
         /\ \A c \in Call, p \in Pair : ~Unheard(c, p)
<1> USE InventoryParts
<1>1. /\ \A q \in Lists : UpToDate(lists[q]) /\ lists[q].rows # <<>>
      /\ \A c \in Call, q \in Lists : ~Deletes(c, q)
      /\ \A c \in Call, p \in Pair : ~Unheard(c, p)
  BY DEF InventoryQuiet, Deletes, Unheard, UpToDate
<1>2. Devices = stored.devices /\ Groups = stored.groups
  BY <1>1 DEF TablesInv, TableInv, Devices, Groups, Loaded, Lists
<1>3. \A p \in Pair : Kept(p) => (Relation(p) <=> stored.deviceGroups[p] > 0)
  <2>1. "deviceGroups" \notin old
    BY DEF RowsInv, Lists
  <2>2. QED
    BY <1>1, <2>1 DEF RelationsInv, RelationInv, Agrees, Relation, Loaded, Lists
<1>4. stored.devices \subseteq Device /\ stored.groups \subseteq Group
  BY DEF RowsInv, Tables
<1>5. QED
  BY <1>1, <1>2, <1>3, <1>4 DEF RowsInv

\* The properties are read off the invariant.
LEMMA InventoryHolds == InventoryPageInv => InventoryPageIsTrue
<1> SUFFICES ASSUME InventoryPageInv PROVE InventoryPageIsTrue
  OBVIOUS
<1> USE InventoryParts
<1>1. MembershipsAreTrue
  <2>1. SUFFICES ASSUME InventoryQuiet
                 PROVE  /\ Devices = stored.devices /\ Groups = stored.groups
                        /\ AllGroup = stored.devices
                        /\ \A d \in Device :
                             GroupsByDevice(d) = {g \in Group : stored.deviceGroups[<<d, g>>] > 0}
                        /\ \A g \in Group :
                             /\ DevicesByGroup(g) = {d \in Device : stored.deviceGroups[<<d, g>>] > 0}
                             /\ DevicesCard(<<g>>) = "no results" <=> DevicesByGroup(g) = {}
                             /\ FilteredDevices(<<g>>) = DevicesByGroup(g)
    BY DEF MembershipsAreTrue
  <2>2. /\ Devices = stored.devices /\ Groups = stored.groups
        /\ stored.devices \subseteq Device /\ stored.groups \subseteq Group
        /\ \A p \in Pair : /\ Kept(p) => (Relation(p) <=> stored.deviceGroups[p] > 0)
                           /\ stored.deviceGroups[p] > 0 => Kept(p)
    BY <2>1, QuietLists
  <2>3. \A d \in Device, g \in Group : Member(d, g) <=> stored.deviceGroups[<<d, g>>] > 0
    BY <2>2 DEF Member, Kept, Pair
  <2>4. \A d \in Device : GroupsByDevice(d) = {g \in Group : stored.deviceGroups[<<d, g>>] > 0}
    BY <2>3 DEF GroupsByDevice
  <2>5. \A g \in Group : DevicesByGroup(g) = {d \in Device : stored.deviceGroups[<<d, g>>] > 0}
    BY <2>3 DEF DevicesByGroup
  <2>6. ASSUME NEW g \in Group PROVE FilteredDevices(<<g>>) = DevicesByGroup(g)
    <3>1. \A d \in Device : d # g
      OBVIOUS
    <3>2. <<g>>[1] = g /\ <<g>> # <<>>
      OBVIOUS
    <3>3. FilteredDevices(<<g>>) = {d \in Devices : g \in GroupsByDevice(d)}
      BY <2>2, <3>1, <3>2 DEF FilteredDevices
    <3>4. QED
      BY <2>2, <3>3 DEF GroupsByDevice, DevicesByGroup, Member
  <2>7. ASSUME NEW g \in Group
        PROVE  DevicesCard(<<g>>) = "no results" <=> DevicesByGroup(g) = {}
    <3>1. UpToDate(lists["devices"])
      BY <2>1 DEF InventoryQuiet, Lists
    <3>2. ~IsError(lists["devices"]) /\ ~IsPending(lists["devices"]) /\ <<g>> # <<>>
      BY <3>1 DEF UpToDate, IsError, IsPending
    <3>3. QED
      BY <2>6, <3>2 DEF DevicesCard, CardOf
  <2>8. QED
    BY <2>2, <2>4, <2>5, <2>6, <2>7 DEF AllGroup
<1>2. DialogIsTrue
  <2>1. SUFFICES ASSUME dialog.op = "relations", InventoryQuiet,
                        dialog.what \in stored.devices \cup stored.groups,
                        UpToDate(lists[dialog.what]), NEW x \in Options
                 PROVE  Selected(x) <=> stored.deviceGroups[PairWith(x)] > 0
    BY DEF DialogIsTrue
  <2>2. PICK p, w : p = PairWith(x) /\ w = dialog.what
    OBVIOUS
  <2>3. /\ Devices = stored.devices /\ Groups = stored.groups
        /\ stored.devices \subseteq Device /\ stored.groups \subseteq Group
        /\ \A c \in Call, r \in Pair : ~Unheard(c, r)
    BY <2>1, QuietLists
  <2>4. w \in Opened \ old
    BY <2>1, <2>2 DEF DialogInv
  <2>5. p \in Pair /\ w \in {p[1], p[2]} /\ Kept(p)
    BY <2>1, <2>2, <2>3, <2>4 DEF PairWith, Options, Pair, Kept
  <2>6. RelationInv(w, p)
    BY <2>4, <2>5 DEF RelationsInv
  <2>7. QED
    BY <2>1, <2>2, <2>3, <2>4, <2>5, <2>6 DEF RelationInv, Agrees, Selected
<1>3. RowsAreOnce
  <2>1. SUFFICES ASSUME NEW p \in Pair, stored.deviceGroups[p] > 1 PROVE AddedBlindly(p)
    BY DEF RowsAreOnce, AddedBlindly
  <2>2. OnceInv(p) /\ stored.deviceGroups[p] \in Nat
    BY DEF RowsOnce, RowsInv, Tables
  <2>3. QED
    BY <2>1, <2>2 DEF OnceInv
<1>4. QED
  BY <1>1, <1>2, <1>3 DEF InventoryPageIsTrue

\* What the pages of the inventory show is what is stored, and a membership is there twice only
\* if somebody added it blindly, for any devices, groups, calls and dialogs
\* (inventory-page.tsx, relations-dialog.tsx).
THEOREM InventoryAlwaysTrue == InventoryPageSpec => []InventoryPageIsTrue
<1>1. InventoryPageSpec => []InventoryPageInv
  BY InitInventory, InventoryStep, PTL DEF InventoryPageSpec
<1>2. QED
  BY <1>1, InventoryHolds, PTL

----------------------------------------------------------------------------
(* RunHistory.                                                             *)

HIDE InventoryPageAssumption

\* A millisecond has two microseconds.
LEMMA Clock ==
  \A t \in Nat : /\ Millisecond(t) \in Nat
                 /\ 2 * Millisecond(t) <= t /\ t <= 2 * Millisecond(t) + 1
                 /\ \A u \in Nat : 2 * Millisecond(t) <= u /\ u <= 2 * Millisecond(t) + 1
                                      => Millisecond(u) = Millisecond(t)
  BY DEF Millisecond

\* The order of the rows, newest first, is total.
LEMMA TotalOrder ==
  ASSUME RunHistoryTypeOK, NEW r \in Run, NEW s \in Run, NEW t \in Run
  PROVE  /\ ~Before(r, r) /\ ~(Before(r, s) /\ Before(s, r))
         /\ Before(r, s) /\ Before(s, t) => Before(r, t)
         /\ r = s \/ Before(r, s) \/ Before(s, r)
<1>1. stamp[r] \in Int /\ stamp[s] \in Int /\ stamp[t] \in Int /\ r \in Int /\ s \in Int /\ t \in Int
  BY RunHistoryAssumption DEF RunHistoryTypeOK
<1>2. QED
  BY <1>1 DEF Before

\* How many are before a row counts runs, and says which row is before which.
LEMMA Ranks ==
  ASSUME RunHistoryTypeOK, NEW S \in SUBSET Run, NEW r \in S
  PROVE  /\ IsFiniteSet(S) /\ Rank(r, S) \in Nat
         /\ \A s \in S : Before(s, r) => Rank(s, S) < Rank(r, S)
         /\ \A s \in S : Rank(s, S) < Rank(r, S) => Before(s, r)
<1>1. IsFiniteSet(S)
  BY RunHistoryAssumption, FS_Subset
<1>2. ASSUME NEW s \in S PROVE IsFiniteSet({u \in S : Before(u, s)}) /\ Rank(s, S) \in Nat
  <2>1. {u \in S : Before(u, s)} \in SUBSET S
    OBVIOUS
  <2>2. QED
    BY <1>1, <2>1, FS_Subset, FS_CardinalityType DEF Rank
<1>3. ASSUME NEW s \in S, NEW t \in S, Before(s, t) PROVE Rank(s, S) < Rank(t, S)
  <2>1. {u \in S : Before(u, s)} \in SUBSET {u \in S : Before(u, t)}
    BY <1>3, TotalOrder
  <2>2. s \in {u \in S : Before(u, t)} /\ s \notin {u \in S : Before(u, s)}
    BY <1>3, TotalOrder
  <2>3. Rank(s, S) <= Rank(t, S) /\ Rank(s, S) # Rank(t, S)
    BY <1>2, <2>1, <2>2, FS_Subset DEF Rank
  <2>4. Rank(s, S) \in Nat /\ Rank(t, S) \in Nat
    BY <1>2
  <2>5. QED
    BY <2>3, <2>4
<1>4. ASSUME NEW s \in S, Rank(s, S) < Rank(r, S) PROVE Before(s, r)
  <2>1. Rank(s, S) \in Nat /\ Rank(r, S) \in Nat
    BY <1>2
  <2>2. s # r /\ ~Before(r, s)
    BY <1>3, <1>4, <2>1
  <2>3. QED
    BY <2>2, TotalOrder
<1>5. QED
  BY <1>1, <1>2, <1>3, <1>4

\* A page that is not empty has a last row.
LEMMA OldestIs ==
  ASSUME RunHistoryTypeOK, NEW P \in SUBSET Run, P # {}
  PROVE  Oldest(P) \in P /\ \A s \in P \ {Oldest(P)} : Before(s, Oldest(P))
<1> DEFINE After(r) == {s \in P : Before(r, s)}
           K == {Cardinality(After(r)) : r \in P}
<1>1. IsFiniteSet(P)
  BY RunHistoryAssumption, FS_Subset
<1>2. ASSUME NEW r \in P PROVE IsFiniteSet(After(r)) /\ Cardinality(After(r)) \in Nat
  <2>1. After(r) \in SUBSET P
    OBVIOUS
  <2>2. QED
    BY <1>1, <2>1, FS_Subset, FS_CardinalityType
<1>3. K \in SUBSET Nat /\ K # {}
  BY <1>2
<1>4. PICK k \in K : \A j \in K : k <= j
  BY <1>3, LeastOf
<1>5. PICK r \in P : k = Cardinality(After(r))
  BY <1>4
<1>6. ASSUME NEW s \in P \ {r} PROVE Before(s, r)
  <2>1. s \in Run /\ r \in Run /\ s # r /\ (Before(r, s) \/ Before(s, r))
    BY <1>6, TotalOrder
  <2>2. SUFFICES ASSUME Before(r, s) PROVE FALSE
    BY <2>1
  <2>3. After(s) \in SUBSET After(r) /\ s \in After(r) /\ s \notin After(s)
    BY <1>6, <2>1, <2>2, TotalOrder
  <2>4. Cardinality(After(s)) <= Cardinality(After(r)) /\ Cardinality(After(s)) # Cardinality(After(r))
    BY <1>2, <2>3, FS_Subset
  <2>5. k <= Cardinality(After(s))
    BY <1>4
  <2>6. QED
    BY <1>2, <1>5, <2>4, <2>5
<1>7. QED
  BY <1>6 DEF Oldest

\* Where some row has n before it, those with fewer than n before them are n.
LEMMA FirstRows ==
  ASSUME RunHistoryTypeOK, NEW S \in SUBSET Run, NEW n \in Nat, NEW r \in S, Rank(r, S) >= n
  PROVE  /\ IsFiniteSet({s \in S : Rank(s, S) < n})
         /\ Cardinality({s \in S : Rank(s, S) < n}) = n
<1> DEFINE B == {s \in S : Rank(s, S) < n}
           K == {Rank(s, S) : s \in {s \in S : Rank(s, S) >= n}}
<1>1. IsFiniteSet(S) /\ IsFiniteSet(B) /\ B \in SUBSET Run /\ \A s \in S : Rank(s, S) \in Nat
  <2>1. B \in SUBSET S /\ IsFiniteSet(S) /\ \A s \in S : Rank(s, S) \in Nat
    BY Ranks
  <2>2. QED
    BY <2>1, FS_Subset
<1>2. K \in SUBSET Nat /\ K # {}
  BY <1>1
<1>3. PICK k \in K : \A j \in K : k <= j
  BY <1>2, LeastOf
<1>4. PICK m \in S : Rank(m, S) >= n /\ k = Rank(m, S)
  BY <1>3
<1>5. B = {s \in S : Before(s, m)}
  <2>1. ASSUME NEW s \in S, Rank(s, S) < n PROVE Before(s, m)
    <3>1. Rank(s, S) < Rank(m, S)
      BY <1>1, <1>4, <2>1
    <3>2. QED
      BY <3>1, Ranks
  <2>2. ASSUME NEW s \in S, Before(s, m) PROVE Rank(s, S) < n
    <3>1. Rank(s, S) < Rank(m, S)
      BY <2>2, Ranks
    <3>2. SUFFICES ASSUME Rank(s, S) >= n PROVE FALSE
      BY <1>1
    <3>3. Rank(s, S) \in K
      BY <3>2
    <3>4. QED
      BY <1>1, <1>3, <1>4, <3>1, <3>3
  <2>3. QED
    BY <2>1, <2>2
<1>6. Cardinality(B) = Rank(m, S)
  BY <1>5 DEF Rank
<1>7. Rank(m, S) <= n
  <2>1. CASE B = {}
    BY <1>6, <2>1, FS_EmptySet
  <2>2. CASE B # {}
    <3>1. PICK o \in B : \A s \in B \ {o} : Before(s, o)
      BY <1>1, <2>2, OldestIs
    <3> DEFINE C == {s \in S : Before(s, o)}
    <3>2. B = C \cup {o} /\ o \notin C
      BY <1>5, <3>1, TotalOrder
    <3>3. C \in SUBSET S
      OBVIOUS
    <3>4. IsFiniteSet(C) /\ Cardinality(C) = Rank(o, S)
      BY <1>1, <3>3, FS_Subset DEF Rank
    <3>5. Cardinality(B) = Cardinality(C) + 1
      BY <3>2, <3>4, FS_AddElement
    <3>6. QED
      BY <1>1, <1>6, <3>1, <3>4, <3>5
  <2>3. QED
    BY <2>1, <2>2
<1>8. QED
  BY <1>1, <1>4, <1>6, <1>7

\* A page behind which there is another row is full.
LEMMA FullPage ==
  ASSUME RunHistoryTypeOK, NEW S \in SUBSET Run, NEW lo \in Nat, NEW r \in S,
         Rank(r, S) >= lo + PageSize
  PROVE  Cardinality({s \in S : lo <= Rank(s, S) /\ Rank(s, S) < lo + PageSize}) = PageSize
<1> DEFINE A == {s \in S : Rank(s, S) < lo}
           B == {s \in S : Rank(s, S) < lo + PageSize}
           N == {s \in S : lo <= Rank(s, S) /\ Rank(s, S) < lo + PageSize}
<1>1. PageSize \in Nat /\ lo + PageSize \in Nat /\ \A s \in S : Rank(s, S) \in Nat
  BY RunHistoryAssumption, Ranks
<1>2. Rank(r, S) >= lo
  BY <1>1
<1>3. IsFiniteSet(A) /\ Cardinality(A) = lo
  BY <1>2, FirstRows
<1>4. IsFiniteSet(B) /\ Cardinality(B) = lo + PageSize
  BY <1>1, FirstRows
<1>5. N \in SUBSET B
  BY <1>1
<1>6. IsFiniteSet(N)
  BY <1>4, <1>5, FS_Subset
<1>7. B = A \cup N /\ A \cap N = {}
  BY <1>1
<1>8. Cardinality(B) = Cardinality(A) + Cardinality(N) - Cardinality({})
  BY <1>3, <1>6, <1>7, FS_Union
<1>9. Cardinality(N) \in Nat
  BY <1>6, FS_CardinalityType
<1>10. QED
  BY <1>1, <1>3, <1>4, <1>8, <1>9, FS_EmptySet

\* A run of which a list may have told: it has been there, so its stamp is final.
Seen == {r \in Run : runRow[r] \notin {"new", "opening"}}

In(L) == UNION {L[i] : i \in DOMAIN L}

\* What holds of a list of pages that began when found was there, at any time.
Told(L, F) ==
  /\ L \in Seq(SUBSET Run) /\ F \subseteq Seen /\ \A i \in DOMAIN L : L[i] \subseteq Seen
  /\ feedOf = "all" =>
       \A i, k \in DOMAIN L : i < k => \A r \in L[i], s \in L[k] : Before(r, s)
  /\ feedOf = "all" /\ L # <<>> =>
       \A r \in (F \cap Visible) \ In(L) :
         \/ HasNext(L) /\ \A s \in In(L) : Before(s, r)
         \/ \E i \in DOMAIN L :
              /\ L[i] # {} /\ Before(Oldest(L[i]), r)
              /\ Millisecond(stamp[Oldest(L[i])]) = Millisecond(stamp[r])
  /\ feedOf # "all" =>
       \A r \in (F \cap OfJob(feedOf)) \ In(L) :
         /\ Rank(r, OfJob(feedOf)) >= Offset(L)
         /\ L # <<>> => HasNext(L) /\ \A s \in In(L) \cap F : Before(s, r)

HistoryInv == RunHistoryTypeOK /\ Told(pages, found) /\ Told(coming, foundComing)

\* What can be seen has been seen.
LEMMA SeenRows == Visible \subseteq Seen /\ \A j : OfJob(j) \subseteq Visible
  BY DEF Visible, Seen, OfJob, Finished

\* Whatever happens to rows, those that were seen keep their stamps, and a job that has
\* one of them left has kept all.
LEMMA RowStep ==
  ASSUME RunHistoryTypeOK, HistoryEdit
  PROVE  /\ ofJob' = ofJob
         /\ \A r \in Run : runRow[r] # "new" => stamp'[r] = stamp[r]
         /\ Seen \subseteq Seen' /\ Seen \cap Visible' \subseteq Visible
         /\ \A j : \A r \in Seen \cap OfJob(j)' : OfJob(j) \subseteq OfJob(j)'
<1> USE DEF RunHistoryTypeOK
<1>1. CASE Tick
  BY <1>1 DEF Tick, Seen, Visible, OfJob
<1>2. ASSUME NEW q \in Run, OpenRow(q)
      PROVE  /\ ofJob' = ofJob
             /\ \A r \in Run : runRow[r] # "new" => stamp'[r] = stamp[r]
             /\ Seen' = Seen /\ Visible' = Visible
  BY <1>2 DEF OpenRow, Seen, Visible, Finished
<1>3. ASSUME NEW q \in Run, CommitRow(q)
      PROVE  /\ ofJob' = ofJob /\ stamp' = stamp
             /\ Seen \subseteq Seen' /\ Seen \cap Visible' \subseteq Visible
             /\ Visible \subseteq Visible'
  BY <1>3 DEF CommitRow, Seen, Visible, Finished
<1>4. ASSUME NEW q \in Run, NEW s \in Finished, FinishRow(q, s)
      PROVE  ofJob' = ofJob /\ stamp' = stamp /\ Seen' = Seen /\ Visible' = Visible
  BY <1>4 DEF FinishRow, Seen, Visible, Finished
<1>5. ASSUME NEW d \in RunJob, DeleteRunJob(d)
      PROVE  /\ ofJob' = ofJob /\ stamp' = stamp
             /\ Seen \subseteq Seen' /\ Visible' = {r \in Visible : ofJob[r] # d}
  BY <1>5 DEF DeleteRunJob, Seen, Visible, Finished
<1>6. ASSUME ofJob' = ofJob, Visible \subseteq Visible'
      PROVE  \A j : OfJob(j) \subseteq OfJob(j)'
  BY <1>6 DEF OfJob
<1>7. ASSUME NEW d \in RunJob, DeleteRunJob(d)
      PROVE  \A j : \A r \in OfJob(j)' : OfJob(j) \subseteq OfJob(j)'
  BY <1>5, <1>7 DEF OfJob
<1>8. QED
  BY <1>1, <1>2, <1>3, <1>4, <1>5, <1>6, <1>7 DEF HistoryEdit

\* A step of the rows keeps the types.
LEMMA RowTypes == RunHistoryTypeOK /\ HistoryEdit /\ UNCHANGED pageVars => RunHistoryTypeOK'
<1> SUFFICES ASSUME RunHistoryTypeOK, HistoryEdit, UNCHANGED pageVars PROVE RunHistoryTypeOK'
  OBVIOUS
<1> DEFINE Typed ==
      /\ clock' \in 0 .. MaxClock /\ ofJob' \in [Run -> RunJob]
      /\ runRow' \in [Run -> {"new", "opening", "running", "gone"} \cup Finished]
      /\ stamp' \in [Run -> 0 .. MaxClock] /\ deletedJob' \subseteq RunJob
<1>1. Typed
  <2> USE DEF RunHistoryTypeOK
  <2>1. CASE Tick
    BY <2>1, RunHistoryAssumption DEF Tick
  <2>2. ASSUME NEW r \in Run, OpenRow(r) \/ CommitRow(r)
        PROVE  Typed
    BY <2>2 DEF OpenRow, CommitRow
  <2>3. ASSUME NEW r \in Run, NEW s \in Finished, FinishRow(r, s)
        PROVE  Typed
    BY <2>3 DEF FinishRow
  <2>4. ASSUME NEW j \in RunJob, DeleteRunJob(j)
        PROVE  Typed
    BY <2>4 DEF DeleteRunJob
  <2>5. QED
    BY <2>1, <2>2, <2>3, <2>4 DEF HistoryEdit
<1>2. QED
  BY <1>1 DEF RunHistoryTypeOK, pageVars

\* What a list of pages tells stays true, whatever happens to rows.
LEMMA ToldStays ==
  ASSUME RunHistoryTypeOK, RunHistoryTypeOK', HistoryEdit, feedOf' = feedOf,
         NEW L, NEW F, Told(L, F)
  PROVE  Told(L, F)'
<1>1. /\ ofJob' = ofJob
      /\ \A r \in Seen : stamp'[r] = stamp[r]
      /\ Seen \subseteq Seen' /\ Seen \cap Visible' \subseteq Visible
      /\ \A j : \A r \in Seen \cap OfJob(j)' : OfJob(j) \subseteq OfJob(j)'
  BY RowStep DEF Seen
<1>2. \A r, s \in Seen : Before(r, s)' = Before(r, s)
  BY <1>1 DEF Before
<1>3. /\ L \in Seq(SUBSET Run) /\ F \subseteq Seen /\ \A i \in DOMAIN L : L[i] \subseteq Seen
      /\ In(L) \subseteq Seen
  BY DEF Told, In
<1>4. ASSUME NEW i \in DOMAIN L, L[i] # {}
      PROVE  Oldest(L[i])' = Oldest(L[i]) /\ Oldest(L[i]) \in Seen
  <2>1. L[i] \in SUBSET Run /\ L[i] \subseteq Seen
    BY <1>3, ElementOfSeq
  <2>2. \A r \in L[i] : (\A s \in L[i] \ {r} : Before(s, r)) <=> (\A s \in L[i] \ {r} : Before(s, r)')
    BY <1>2, <2>1
  <2>3. Oldest(L[i])' = Oldest(L[i])
    BY <2>2 DEF Oldest
  <2>4. QED
    BY <1>4, <2>1, <2>3, OldestIs
<1>5. HasNext(L)' = HasNext(L) /\ In(L)' = In(L) /\ Offset(L)' = Offset(L)
  BY DEF HasNext, In, Offset
<1>6. ASSUME NEW r \in F \cap OfJob(feedOf)'
      PROVE  r \in OfJob(feedOf) /\ Rank(r, OfJob(feedOf)) <= Rank(r, OfJob(feedOf))'
  <2>1. r \in Seen /\ OfJob(feedOf) \subseteq OfJob(feedOf)' /\ r \in OfJob(feedOf)
    BY <1>1, <1>3 DEF OfJob
  <2>2. OfJob(feedOf) \subseteq Seen /\ OfJob(feedOf)' \subseteq Run
    BY DEF OfJob, Visible, Seen, Finished
  <2>3. {s \in OfJob(feedOf) : Before(s, r)} \subseteq {s \in OfJob(feedOf)' : Before(s, r)'}
    BY <1>2, <2>1, <2>2
  <2>4. IsFiniteSet({s \in OfJob(feedOf)' : Before(s, r)'})
    <3>1. {s \in OfJob(feedOf)' : Before(s, r)'} \in SUBSET Run
      BY <2>2
    <3>2. QED
      BY <3>1, RunHistoryAssumption, FS_Subset
  <2>5. Rank(r, OfJob(feedOf))' = Cardinality({s \in OfJob(feedOf)' : Before(s, r)'})
    BY DEF Rank
  <2>6. Cardinality({s \in OfJob(feedOf) : Before(s, r)})
          <= Cardinality({s \in OfJob(feedOf)' : Before(s, r)'})
    BY <2>3, <2>4, FS_Subset
  <2>7. QED
    BY <2>1, <2>5, <2>6 DEF Rank
<1>7. (feedOf = "all" =>
         \A i, k \in DOMAIN L : i < k => \A r \in L[i], s \in L[k] : Before(r, s))'
  BY <1>2, <1>3 DEF Told
<1>8. (feedOf = "all" /\ L # <<>> =>
         \A r \in (F \cap Visible) \ In(L) :
           \/ HasNext(L) /\ \A s \in In(L) : Before(s, r)
           \/ \E i \in DOMAIN L :
                /\ L[i] # {} /\ Before(Oldest(L[i]), r)
                /\ Millisecond(stamp[Oldest(L[i])]) = Millisecond(stamp[r]))'
  <2> SUFFICES ASSUME feedOf = "all", L # <<>>, NEW r \in (F \cap Visible') \ In(L)
               PROVE  \/ HasNext(L)' /\ \A s \in In(L) : Before(s, r)'
                      \/ \E i \in DOMAIN L :
                           /\ L[i] # {} /\ Before(Oldest(L[i]), r)'
                           /\ Millisecond(stamp[Oldest(L[i])])' = Millisecond(stamp[r])'
    BY <1>5
  <2>1. r \in Seen /\ r \in (F \cap Visible) \ In(L)
    BY <1>1, <1>3
  <2>2. CASE HasNext(L) /\ \A s \in In(L) : Before(s, r)
    BY <1>2, <1>3, <1>5, <2>1, <2>2
  <2>3. ASSUME NEW i \in DOMAIN L, L[i] # {}, Before(Oldest(L[i]), r),
               Millisecond(stamp[Oldest(L[i])]) = Millisecond(stamp[r])
        PROVE  /\ Before(Oldest(L[i]), r)'
               /\ Millisecond(stamp[Oldest(L[i])])' = Millisecond(stamp[r])'
    <3>1. PICK o : o = Oldest(L[i])
      OBVIOUS
    <3>2. o \in Seen /\ o = Oldest(L[i])'
      BY <1>4, <2>3, <3>1
    <3>3. Before(o, r)' /\ Millisecond(stamp[o])' = Millisecond(stamp[r])'
      BY <1>1, <1>2, <2>1, <2>3, <3>1, <3>2 DEF Millisecond
    <3>4. QED
      BY <3>2, <3>3 DEF Before, Millisecond
  <2>4. QED
    BY <2>1, <2>2, <2>3 DEF Told
<1>9. (feedOf # "all" =>
         \A r \in (F \cap OfJob(feedOf)) \ In(L) :
           /\ Rank(r, OfJob(feedOf)) >= Offset(L)
           /\ L # <<>> => HasNext(L) /\ \A s \in In(L) \cap F : Before(s, r))'
  <2> SUFFICES ASSUME feedOf # "all", NEW r \in (F \cap OfJob(feedOf)') \ In(L)
               PROVE  /\ Rank(r, OfJob(feedOf))' >= Offset(L)
                      /\ L # <<>> => HasNext(L) /\ \A s \in In(L) \cap F : Before(s, r)'
    BY <1>5
  <2>1. r \in Seen /\ r \in (F \cap OfJob(feedOf)) \ In(L)
    BY <1>3, <1>6
  <2>2. /\ Rank(r, OfJob(feedOf)) >= Offset(L)
        /\ L # <<>> => HasNext(L) /\ \A s \in In(L) \cap F : Before(s, r)
    BY <2>1 DEF Told
  <2>3. /\ Rank(r, OfJob(feedOf)) \in Nat /\ Rank(r, OfJob(feedOf))' \in Nat /\ Offset(L) \in Nat
    <3>1. OfJob(feedOf) \in SUBSET Run /\ OfJob(feedOf)' \in SUBSET Run /\ r \in OfJob(feedOf)'
      BY DEF OfJob, Visible
    <3>2. \A S \in SUBSET Run : IsFiniteSet(S) /\ Cardinality(S) \in Nat
      BY RunHistoryAssumption, FS_Subset, FS_CardinalityType
    <3>3. {s \in OfJob(feedOf) : Before(s, r)} \in SUBSET Run
          /\ {s \in OfJob(feedOf)' : Before(s, r)'} \in SUBSET Run
      BY <3>1
    <3>4. Len(L) \in Nat /\ PageSize \in Nat
      BY <1>3, LenProperties, RunHistoryAssumption
    <3>5. QED
      BY <3>2, <3>3, <3>4 DEF Rank, Offset
  <2>4. Rank(r, OfJob(feedOf))' >= Offset(L)
    BY <1>6, <2>2, <2>3
  <2>5. QED
    BY <1>2, <1>3, <2>1, <2>2, <2>4
<1>10. L \in Seq(SUBSET Run) /\ F \subseteq Seen' /\ \A i \in DOMAIN L : L[i] \subseteq Seen'
  BY <1>1, <1>3
<1>11. QED
  BY <1>7, <1>8, <1>9, <1>10 DEF Told

\* The cursor starts behind the last row of a page, and skips only what shares its millisecond.
LEMMA Cursor ==
  ASSUME RunHistoryTypeOK, NEW r \in Run, NEW last \in Run
  PROVE  /\ Past(r, last) => Before(last, r)
         /\ Before(last, r) => Past(r, last) \/ Millisecond(stamp[last]) = Millisecond(stamp[r])
<1>1. stamp[r] \in Nat /\ stamp[last] \in Nat /\ r \in Nat /\ last \in Nat
  BY RunHistoryAssumption DEF RunHistoryTypeOK
<1>2. PICK m \in Nat : /\ m = Millisecond(stamp[last])
                       /\ 2 * m <= stamp[last] /\ stamp[last] <= 2 * m + 1
                       /\ \A u \in Nat : 2 * m <= u /\ u <= 2 * m + 1 => Millisecond(u) = m
  BY <1>1, Clock
<1>3. Past(r, last) <=> stamp[r] < 2 * m \/ (stamp[r] = 2 * m /\ r < last)
  BY <1>2 DEF Past
<1>4. Past(r, last) => Before(last, r)
  BY <1>1, <1>2, <1>3 DEF Before
<1>5. ASSUME Before(last, r), ~Past(r, last) PROVE m = Millisecond(stamp[r])
  <2>1. stamp[r] <= stamp[last]
    BY <1>1, <1>5 DEF Before
  <2>2. stamp[r] >= 2 * m
    BY <1>1, <1>2, <1>3, <1>5
  <2>3. 2 * m <= stamp[r] /\ stamp[r] <= 2 * m + 1
    BY <1>1, <1>2, <2>1, <2>2
  <2>4. QED
    BY <1>1, <1>2, <2>3
<1>6. QED
  BY <1>2, <1>4, <1>5

\* A next page of the feed.
LEMMA ReadFeed ==
  ASSUME RunHistoryTypeOK, feedOf = "all", NEW L, NEW F, Told(L, F), HasNext(L)
  PROVE  Told(Append(L, NextPage(L)), IF L = <<>> THEN Visible ELSE F)
<1> DEFINE N == NextPage(L)
           M == Append(L, N)
           G == IF L = <<>> THEN Visible ELSE F
<1>1. L \in Seq(SUBSET Run) /\ F \subseteq Seen /\ \A i \in DOMAIN L : L[i] \subseteq Seen
  BY DEF Told
<1>2. PICK S \in SUBSET Visible :
        /\ N = {r \in S : Rank(r, S) < PageSize}
        /\ L = <<>> => S = Visible
        /\ L # <<>> => S = {r \in Visible : Past(r, Oldest(L[Len(L)]))}
  <2>1. CASE L = <<>>
    BY <2>1 DEF NextPage, ListAll
  <2>2. CASE L # <<>>
    BY <2>2 DEF NextPage, ListAll
  <2>3. QED
    BY <2>1, <2>2
<1>3. N \subseteq Seen /\ S \subseteq Run /\ Seen \subseteq Run
  BY <1>2, SeenRows DEF Seen
<1>4. /\ M \in Seq(SUBSET Run) /\ Len(M) = Len(L) + 1 /\ M[Len(M)] = N /\ M # <<>>
      /\ \A i \in DOMAIN L : M[i] = L[i]
      /\ DOMAIN L = 1 .. Len(L) /\ DOMAIN M = 1 .. Len(M) /\ Len(L) \in Nat
  <2>1. N \in SUBSET Run
    BY <1>3
  <2>2. /\ M \in Seq(SUBSET Run) /\ Len(M) = Len(L) + 1 /\ M[Len(L) + 1] = N
        /\ \A i \in 1 .. Len(L) : M[i] = L[i]
    BY <1>1, <2>1, AppendProperties
  <2>3. DOMAIN L = 1 .. Len(L) /\ DOMAIN M = 1 .. Len(M) /\ Len(L) \in Nat
    BY <1>1, <2>2, LenProperties
  <2>4. QED
    BY <2>2, <2>3
<1>5. In(M) = In(L) \cup N
  BY <1>4 DEF In
<1>6. ASSUME L # <<>>
      PROVE  \E o \in L[Len(L)] :
               /\ Len(L) \in DOMAIN L /\ o \in Seen /\ o = Oldest(L[Len(L)])
               /\ L[Len(L)] # {} /\ \A s \in L[Len(L)] \ {o} : Before(s, o)
  <2>1. Len(L) \in DOMAIN L
    BY <1>1, <1>4, <1>6, EmptySeq
  <2>2. L[Len(L)] \in SUBSET Run /\ L[Len(L)] \subseteq Seen
    BY <1>1, <2>1, <1>3
  <2>3. Cardinality(L[Len(L)]) # 0
    BY <1>6, RunHistoryAssumption DEF HasNext
  <2>4. L[Len(L)] # {}
    BY <2>3, FS_EmptySet
  <2>5. QED
    BY <2>1, <2>2, <2>4, OldestIs
<1>7. ASSUME NEW i \in DOMAIN L, NEW r \in L[i], NEW s \in N PROVE Before(r, s)
  <2>1. L # <<>>
    BY <1>4, <1>7, EmptySeq
  <2>2. PICK o \in L[Len(L)] :
               /\ Len(L) \in DOMAIN L /\ o \in Seen /\ o = Oldest(L[Len(L)])
               /\ L[Len(L)] # {} /\ \A q \in L[Len(L)] \ {o} : Before(q, o)
    BY <1>6, <2>1
  <2>3. r \in Run /\ s \in Run /\ o \in Run
    BY <1>1, <1>3, <2>2
  <2>4. Before(o, s)
    BY <1>2, <2>1, <2>2, <2>3, Cursor
  <2>5. r = o \/ Before(r, o)
    <3>1. CASE i = Len(L)
      BY <2>2, <3>1
    <3>2. CASE i # Len(L)
      <4>1. i < Len(L)
        BY <1>4, <1>7, <3>2
      <4>2. QED
        BY <2>2, <4>1 DEF Told
    <3>3. QED
      BY <3>1, <3>2
  <2>6. QED
    BY <2>3, <2>4, <2>5, TotalOrder
<1>8. \A i, k \in DOMAIN M : i < k => \A r \in M[i], s \in M[k] : Before(r, s)
  <2> SUFFICES ASSUME NEW i \in DOMAIN M, NEW k \in DOMAIN M, i < k, NEW r \in M[i], NEW s \in M[k]
               PROVE  Before(r, s)
    OBVIOUS
  <2>1. i \in DOMAIN L /\ r \in L[i] /\ (k \in DOMAIN L \/ k = Len(M))
    BY <1>4
  <2>2. CASE k \in DOMAIN L
    BY <1>4, <2>1, <2>2 DEF Told
  <2>3. CASE k = Len(M)
    BY <1>4, <1>7, <2>1, <2>3
  <2>4. QED
    BY <2>1, <2>2, <2>3
<1>9. ASSUME NEW r \in S, r \notin N
      PROVE  HasNext(M) /\ \A s \in N : Before(s, r)
  <2>1. S \in SUBSET Run /\ PageSize \in Nat /\ ~(Rank(r, S) < PageSize)
    BY <1>2, <1>3, <1>9, RunHistoryAssumption
  <2>2. Rank(r, S) >= 0 + PageSize /\ Rank(r, S) \in Nat /\ \A s \in S : Rank(s, S) \in Nat
    <3>1. \A s \in S : Rank(s, S) \in Nat
      BY <2>1, Ranks
    <3>2. Rank(r, S) \in Nat
      BY <1>9, <3>1
    <3>3. QED
      BY <2>1, <3>1, <3>2
  <2>3. N = {s \in S : 0 <= Rank(s, S) /\ Rank(s, S) < 0 + PageSize}
    BY <1>2, <2>2, RunHistoryAssumption
  <2>4. Cardinality(N) = PageSize
    BY <1>3, <2>2, <2>3, FullPage
  <2>5. ASSUME NEW s \in N PROVE Before(s, r)
    <3>1. s \in S /\ Rank(s, S) < Rank(r, S)
      BY <1>2, <2>2, RunHistoryAssumption
    <3>2. QED
      BY <1>3, <3>1, Ranks
  <2>6. QED
    BY <1>4, <2>4, <2>5 DEF HasNext
<1>10. ASSUME NEW r \in (G \cap Visible) \ In(M)
       PROVE  \/ HasNext(M) /\ \A s \in In(M) : Before(s, r)
              \/ \E i \in DOMAIN M :
                   /\ M[i] # {} /\ Before(Oldest(M[i]), r)
                   /\ Millisecond(stamp[Oldest(M[i])]) = Millisecond(stamp[r])
  <2>1. CASE L = <<>>
    <3>1. In(L) = {}
      BY <2>1, <1>4, EmptySeq DEF In
    <3>2. r \in S /\ r \notin N
      BY <1>2, <1>5, <1>10, <2>1
    <3>3. QED
      BY <1>5, <1>9, <3>1, <3>2
  <2>2. CASE L # <<>>
    <3>1. PICK o \in L[Len(L)] :
               /\ Len(L) \in DOMAIN L /\ o \in Seen /\ o = Oldest(L[Len(L)])
               /\ L[Len(L)] # {} /\ \A q \in L[Len(L)] \ {o} : Before(q, o)
      BY <1>6, <2>2
    <3>2. r \in (F \cap Visible) \ In(L) /\ r \in Run /\ o \in Run /\ r \notin N /\ o \in In(L)
      BY <1>3, <1>5, <1>10, <2>2, <3>1, SeenRows DEF In
    <3>3. \/ \A s \in In(L) : Before(s, r)
          \/ \E i \in DOMAIN L :
               /\ L[i] # {} /\ Before(Oldest(L[i]), r)
               /\ Millisecond(stamp[Oldest(L[i])]) = Millisecond(stamp[r])
      BY <2>2, <3>2 DEF Told
    <3>4. ASSUME NEW i \in DOMAIN L, L[i] # {}, Before(Oldest(L[i]), r),
                 Millisecond(stamp[Oldest(L[i])]) = Millisecond(stamp[r])
          PROVE  i \in DOMAIN M /\ M[i] = L[i]
      BY <1>4
    <3>5. CASE \A s \in In(L) : Before(s, r)
      <4>1. Before(o, r)
        BY <3>2, <3>5
      <4>2. CASE Past(r, o)
        <5>1. r \in S
          BY <1>2, <2>2, <3>1, <3>2, <4>2
        <5>2. QED
          BY <1>5, <1>9, <3>2, <3>5, <5>1
      <4>3. CASE ~Past(r, o)
        <5>1. Millisecond(stamp[o]) = Millisecond(stamp[r])
          BY <3>2, <4>1, <4>3, Cursor
        <5>2. Len(L) \in DOMAIN M /\ M[Len(L)] = L[Len(L)]
          BY <1>4, <3>1
        <5>3. QED
          BY <3>1, <4>1, <5>1, <5>2
      <4>4. QED
        BY <4>2, <4>3
    <3>6. QED
      BY <3>3, <3>4, <3>5
  <2>3. QED
    BY <2>1, <2>2
<1>11. G \subseteq Seen /\ \A i \in DOMAIN M : M[i] \subseteq Seen
  <2>1. G \subseteq Seen
    BY <1>1, SeenRows
  <2>2. ASSUME NEW i \in DOMAIN M PROVE M[i] \subseteq Seen
    <3>1. i \in DOMAIN L \/ i = Len(M)
      BY <1>4
    <3>2. QED
      BY <1>1, <1>3, <1>4, <3>1
  <2>3. QED
    BY <2>1, <2>2
<1>12. Told(M, G)
  <2>1. M \in Seq(SUBSET Run)
    BY <1>4
  <2> HIDE DEF M, G
  <2>2. QED
    BY <1>8, <1>10, <1>11, <2>1 DEF Told
<1>13. QED
  BY <1>12

\* A next batch of the runs of one job.
LEMMA ReadList ==
  ASSUME RunHistoryTypeOK, feedOf # "all", NEW L, NEW F, Told(L, F), HasNext(L)
  PROVE  Told(Append(L, NextPage(L)), IF L = <<>> THEN Visible ELSE F)
<1> DEFINE N == NextPage(L)
           M == Append(L, N)
           G == IF L = <<>> THEN Visible ELSE F
<1>1. L \in Seq(SUBSET Run) /\ F \subseteq Seen /\ \A i \in DOMAIN L : L[i] \subseteq Seen
  BY DEF Told
<1>2. PICK S : S = OfJob(feedOf)
  OBVIOUS
<1>3. N = {s \in S : Offset(L) <= Rank(s, S) /\ Rank(s, S) < Offset(L) + PageSize}
  BY <1>2 DEF NextPage, List, OfJob
<1>4. N \subseteq Seen /\ S \in SUBSET Run /\ S \subseteq Visible /\ S \subseteq Seen
  BY <1>2, <1>3, SeenRows DEF Seen
<1>5. /\ M \in Seq(SUBSET Run) /\ Len(M) = Len(L) + 1 /\ M[Len(M)] = N /\ M # <<>>
      /\ \A i \in DOMAIN L : M[i] = L[i]
      /\ DOMAIN L = 1 .. Len(L) /\ DOMAIN M = 1 .. Len(M) /\ Len(L) \in Nat
  <2>1. N \in SUBSET Run
    BY <1>3, <1>4
  <2>2. /\ M \in Seq(SUBSET Run) /\ Len(M) = Len(L) + 1 /\ M[Len(L) + 1] = N
        /\ \A i \in 1 .. Len(L) : M[i] = L[i]
    BY <1>1, <2>1, AppendProperties
  <2>3. DOMAIN L = 1 .. Len(L) /\ DOMAIN M = 1 .. Len(M) /\ Len(L) \in Nat
    BY <1>1, <2>2, LenProperties
  <2>4. QED
    BY <2>2, <2>3
<1>6. In(M) = In(L) \cup N
  BY <1>5 DEF In
<1>7. PICK lo \in Nat : lo = Offset(L) /\ Offset(M) = lo + PageSize /\ PageSize \in Nat
                       /\ (L = <<>> => lo = 0)
  <2>1. PageSize \in Nat
    BY RunHistoryAssumption
  <2>2. PICK n \in Nat : n = Len(L) /\ Len(M) = n + 1
    BY <1>5
  <2>3. n * PageSize \in Nat /\ (n + 1) * PageSize = n * PageSize + PageSize
    BY <2>1
  <2>4. L = <<>> => n = 0 /\ n * PageSize = 0
    BY <1>1, <2>1, <2>2, EmptySeq
  <2>5. QED
    BY <2>1, <2>2, <2>3, <2>4 DEF Offset
<1>8. \A s \in S : Rank(s, S) \in Nat
  BY <1>4, Ranks
<1>9. ASSUME NEW r \in (G \cap S) \ In(M)
      PROVE  /\ Rank(r, S) >= Offset(M)
             /\ HasNext(M) /\ \A s \in In(M) \cap G : Before(s, r)
  <2>1. Rank(r, S) >= lo
    <3>1. CASE L = <<>>
      BY <1>7, <1>8, <3>1
    <3>2. CASE L # <<>>
      BY <1>2, <1>6, <1>7, <3>2 DEF Told
    <3>3. QED
      BY <3>1, <3>2
  <2>2. Rank(r, S) \in Nat /\ ~(Rank(r, S) < lo + PageSize)
    BY <1>3, <1>6, <1>7, <1>8, <2>1
  <2>3. Rank(r, S) >= lo + PageSize
    BY <1>7, <2>2
  <2>4. HasNext(M)
    <3>1. N = {s \in S : lo <= Rank(s, S) /\ Rank(s, S) < lo + PageSize}
      BY <1>3, <1>7
    <3>2. Cardinality(N) = PageSize
      BY <1>4, <2>3, <3>1, FullPage
    <3>3. QED
      BY <1>5, <3>2 DEF HasNext
  <2>5. ASSUME NEW s \in N PROVE Before(s, r)
    <3>1. s \in S /\ Rank(s, S) < lo + PageSize /\ Rank(s, S) \in Nat
      BY <1>3, <1>7, <1>8
    <3>2. Rank(s, S) < Rank(r, S)
      BY <1>7, <2>2, <2>3, <3>1
    <3>3. QED
      BY <1>4, <3>1, <3>2, Ranks
  <2>6. ASSUME NEW s \in In(L) \cap G PROVE Before(s, r)
    <3>1. L # <<>>
      BY <1>1, <2>6, EmptySeq DEF In
    <3>2. s \in In(L) \cap F /\ r \in (F \cap OfJob(feedOf)) \ In(L)
      BY <1>2, <1>6, <1>9, <2>6, <3>1
    <3>3. QED
      BY <3>1, <3>2 DEF Told
  <2>7. QED
    BY <1>6, <1>7, <2>3, <2>4, <2>5, <2>6
<1>10. G \subseteq Seen /\ \A i \in DOMAIN M : M[i] \subseteq Seen
  <2>1. G \subseteq Seen
    BY <1>1, SeenRows
  <2>2. ASSUME NEW i \in DOMAIN M PROVE M[i] \subseteq Seen
    <3>1. i \in DOMAIN L \/ i = Len(M)
      BY <1>5
    <3>2. QED
      BY <1>1, <1>4, <1>5, <3>1
  <2>3. QED
    BY <2>1, <2>2
<1>11. Told(M, G)
  <2>1. M \in Seq(SUBSET Run)
    BY <1>5
  <2> HIDE DEF M, G
  <2>2. QED
    BY <1>2, <1>9, <1>10, <2>1 DEF Told
<1>12. QED
  BY <1>11

\* What a list of pages tells depends on the rows and on what it lists.
LEMMA SameHistory ==
  ASSUME UNCHANGED historyRows, feedOf' = feedOf, NEW L, NEW F, Told(L, F)
  PROVE  Told(L, F)'
<1>1. stamp' = stamp /\ runRow' = runRow /\ ofJob' = ofJob
  BY DEF historyRows
<1>2. Seen' = Seen /\ Visible' = Visible /\ \A j : OfJob(j)' = OfJob(j)
  BY <1>1 DEF Seen, Visible, OfJob
<1>3. \A r, s : Before(r, s)' = Before(r, s)
  BY <1>1 DEF Before
<1>4. \A P : Oldest(P)' = Oldest(P)
  BY <1>3 DEF Oldest
<1>5. \A r : Rank(r, OfJob(feedOf))' = Rank(r, OfJob(feedOf))
  BY <1>2, <1>3 DEF Rank
<1>6. HasNext(L)' = HasNext(L) /\ In(L)' = In(L) /\ Offset(L)' = Offset(L)
  BY DEF HasNext, In, Offset
<1>7. QED
  BY <1>1, <1>2, <1>3, <1>4, <1>5, <1>6 DEF Told, Millisecond, Seen

\* Nothing is shown at first.
LEMMA HistoryStart == RunHistoryInit => HistoryInv
<1> SUFFICES ASSUME RunHistoryInit PROVE HistoryInv
  OBVIOUS
<1>1. Told(<<>>, {})
  <2>1. DOMAIN <<>> = {} /\ <<>> \in Seq(SUBSET Run)
    BY EmptySeq, LenProperties
  <2>2. QED
    BY <2>1 DEF Told, In
<1>2. RunHistoryTypeOK
  BY RunHistoryAssumption DEF RunHistoryInit, RunHistoryTypeOK, Seen
<1>3. QED
  BY <1>1, <1>2 DEF RunHistoryInit, HistoryInv

\* Each step of the rows, and of the query, keeps the invariant.
LEMMA HistoryStep == HistoryInv /\ [RunHistoryNext]_historyVars => HistoryInv'
<1> SUFFICES ASSUME HistoryInv, [RunHistoryNext]_historyVars PROVE HistoryInv'
  OBVIOUS
<1>1. PICK P, F, C, D : P = pages /\ F = found /\ C = coming /\ D = foundComing
  OBVIOUS
<1>2. RunHistoryTypeOK /\ Told(P, F) /\ Told(C, D)
  BY <1>1 DEF HistoryInv
<1>3. ASSUME NEW Q, NEW E, Q = pages', E = found', Told(Q, E)',
             NEW R, NEW H, R = coming', H = foundComing', Told(R, H)', RunHistoryTypeOK'
      PROVE  HistoryInv'
  BY <1>3 DEF HistoryInv, Told, HasNext, In, Offset
<1>4. CASE HistoryEdit /\ UNCHANGED pageVars
  <2>1. RunHistoryTypeOK' /\ feedOf' = feedOf
    BY <1>2, <1>4, RowTypes DEF pageVars
  <2>2. Told(P, F)' /\ Told(C, D)'
    BY <1>2, <1>4, <2>1, ToldStays
  <2>3. P = pages' /\ F = found' /\ C = coming' /\ D = foundComing'
    BY <1>1, <1>4 DEF pageVars
  <2>4. QED
    BY <1>3, <2>1, <2>2, <2>3
<1>5. ASSUME UNCHANGED historyRows, feedOf' = feedOf, wanted' \in Nat,
             NEW Q, NEW E, Q = pages', E = found', Told(Q, E),
             NEW R, NEW H, R = coming', H = foundComing', Told(R, H)
      PROVE  HistoryInv'
  <2>1. Told(Q, E)' /\ Told(R, H)'
    BY <1>5, SameHistory
  <2>2. Q \in Seq(SUBSET Run) /\ R \in Seq(SUBSET Run) /\ E \subseteq Run /\ H \subseteq Run
    BY <1>5 DEF Told, Seen
  <2>3. RunHistoryTypeOK'
    BY <1>2, <1>5, <2>2 DEF RunHistoryTypeOK, historyRows
  <2>4. QED
    BY <1>3, <1>5, <2>1, <2>3
<1>6. Told(<<>>, {})
  <2>1. DOMAIN <<>> = {} /\ <<>> \in Seq(SUBSET Run)
    BY EmptySeq, LenProperties
  <2>2. \A r \in {} : FALSE
    OBVIOUS
  <2>3. QED
    BY <2>1, <2>2 DEF Told, In
<1>7. Len(P) \in Nat /\ wanted \in Nat
  BY <1>1, <1>2, LenProperties DEF Told, RunHistoryTypeOK
<1>8. CASE UNCHANGED historyRows /\ Reload
  BY <1>1, <1>2, <1>5, <1>6, <1>7, <1>8 DEF Reload
<1>9. CASE UNCHANGED historyRows /\ LoadMore
  BY <1>1, <1>2, <1>5, <1>7, <1>9 DEF LoadMore
<1>10. CASE UNCHANGED historyRows /\ ReadPage
  <2>1. HasNext(C)
    BY <1>1, <1>10 DEF ReadPage, Complete
  <2>2. Told(Append(C, NextPage(C)), IF C = <<>> THEN Visible ELSE D)
    BY <1>2, <2>1, ReadFeed, ReadList
  <2>3. PICK R, H : R = Append(C, NextPage(C)) /\ H = IF C = <<>> THEN Visible ELSE D
    OBVIOUS
  <2>4. R = coming' /\ H = foundComing' /\ P = pages' /\ F = found' /\ wanted' = wanted
        /\ feedOf' = feedOf
    BY <1>1, <1>10, <2>3 DEF ReadPage
  <2>5. Told(R, H)
    BY <2>2, <2>3
  <2>6. QED
    BY <1>2, <1>5, <1>7, <1>10, <2>4, <2>5
<1>11. CASE UNCHANGED historyRows /\ ShowPages
  BY <1>1, <1>2, <1>5, <1>6, <1>7, <1>11 DEF ShowPages, EndFetch
<1>12. CASE UNCHANGED historyRows /\ FetchFails
  BY <1>1, <1>2, <1>5, <1>6, <1>7, <1>12 DEF FetchFails, EndFetch
<1>13. CASE UNCHANGED historyVars
  BY <1>1, <1>2, <1>5, <1>7, <1>13 DEF historyVars, pageVars
<1>14. QED
  BY <1>4, <1>8, <1>9, <1>10, <1>11, <1>12, <1>13 DEF RunHistoryNext

\* The invariant of the pages shown gives what they should show.
LEMMA HistoryHolds ==
  HistoryInv => FeedInOrder /\ FeedSkipsOnlyMilliseconds /\ ListLeavesOutNone
<1> SUFFICES ASSUME HistoryInv PROVE FeedInOrder /\ FeedSkipsOnlyMilliseconds /\ ListLeavesOutNone
  OBVIOUS
<1>1. Shown = In(pages) /\ Told(pages, found)
  BY DEF Shown, In, HistoryInv
<1>2. FeedInOrder
  BY <1>1 DEF Told, FeedInOrder
<1>3. FeedSkipsOnlyMilliseconds
  BY <1>1 DEF Told, FeedSkipsOnlyMilliseconds
<1>4. ListLeavesOutNone
  BY <1>1 DEF Told, ListLeavesOutNone
<1>5. QED
  BY <1>2, <1>3, <1>4

\* A job's rate depends on its own rows alone.
LEMMA RateStep ==
  ASSUME RunHistoryTypeOK, [RunHistoryNext]_historyVars, NEW j \in RunJob,
         \A r \in Run : ofJob[r] = j => runRow'[r] = runRow[r]
  PROVE  Rollup(j)' = Rollup(j)
<1>1. ofJob' = ofJob /\ \A r \in Run : ofJob[r] = j => stamp'[r] = stamp[r]
  <2>1. CASE UNCHANGED historyRows
    BY <2>1 DEF historyRows
  <2>2. CASE HistoryEdit
    <3>1. ASSUME NEW q \in Run, OpenRow(q)
          PROVE  ofJob' = ofJob /\ \A r \in Run : ofJob[r] = j => stamp'[r] = stamp[r]
      <4>1. ofJob[q] # j /\ ofJob' = ofJob
        BY <3>1 DEF OpenRow, RunHistoryTypeOK
      <4>2. QED
        BY <3>1, <4>1 DEF OpenRow, RunHistoryTypeOK
    <3>2. CASE ~\E q \in Run : OpenRow(q)
      BY <2>2, <3>2 DEF HistoryEdit, Tick, CommitRow, FinishRow, DeleteRunJob
    <3>3. QED
      BY <3>1, <3>2
  <2>3. QED
    BY <2>1, <2>2 DEF RunHistoryNext, historyVars
<1>2. OfJob(j)' = OfJob(j)
  BY <1>1 DEF OfJob, Visible
<1>3. \A r \in OfJob(j) : ofJob[r] = j /\ r \in Run
  BY DEF OfJob, Visible
<1>4. \A r, s \in OfJob(j) : Before(r, s)' = Before(r, s)
  BY <1>1, <1>3 DEF Before
<1>5. ASSUME NEW r \in OfJob(j) PROVE Rank(r, OfJob(j))' = Rank(r, OfJob(j))
  BY <1>2, <1>4 DEF Rank
<1>6. Latest(j)' = Latest(j) /\ Latest(j) \subseteq OfJob(j)
  BY <1>2, <1>5 DEF Latest
<1>7. \A r \in Latest(j) : runRow'[r] = runRow[r]
  BY <1>3, <1>6
<1>8. {r \in Latest(j) : runRow[r] = "ok"}' = {r \in Latest(j) : runRow[r] = "ok"}
  BY <1>6, <1>7
<1>9. {r \in Latest(j) : runRow[r] = "cancelled"}' = {r \in Latest(j) : runRow[r] = "cancelled"}
  BY <1>6, <1>7
<1>10. QED
  BY <1>6, <1>8, <1>9 DEF Rollup, Rate

\* Lists of runs are in order and complete, for any runs, jobs, clocks and sizes of pages.
THEOREM HistoryAlwaysTold == RunHistorySpec => HistoryIsTold
<1>1. RunHistorySpec => []HistoryInv
  BY HistoryStart, HistoryStep, PTL DEF RunHistorySpec
<1>2. HistoryInv => FeedInOrder /\ FeedSkipsOnlyMilliseconds /\ ListLeavesOutNone
  BY HistoryHolds
<1>3. HistoryInv /\ [RunHistoryNext]_historyVars =>
        [\A j \in RunJob :
          (\A r \in Run : ofJob[r] = j => runRow'[r] = runRow[r]) => Rollup(j)' = Rollup(j)]_historyVars
  BY RateStep DEF HistoryInv
<1>4. RunHistorySpec => RatesAreOwn
  BY <1>1, <1>3, PTL DEF RunHistorySpec, RatesAreOwn
<1>5. QED
  BY <1>1, <1>2, <1>4, PTL DEF HistoryIsTold
=============================================================================
