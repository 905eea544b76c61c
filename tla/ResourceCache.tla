---------------------------- MODULE ResourceCache ----------------------------
(***************************************************************************)
(* What the frontend shows of a resource while it is changed: one cached   *)
(* query of the query client, and the mutations of the resource hooks,     *)
(* which patch a list before the answer (hooks/use-resource-mutation.ts)   *)
(* and refresh after it the queries that they name.  Queries do not read   *)
(* each other, so a behaviour follows one of them, whichever.              *)
(***************************************************************************)
EXTENDS FiniteSets

CONSTANTS Mutation, NoData

\* A hook: what it does, the list it patches (optimistic or not), the query of its item,
\* the other queries it refreshes, and the queries whose rows the call changes in the
\* database, foreign keys included.
Hook(does, list, patch, item, extra, others) ==
  [does |-> does, list |-> list, patch |-> patch, item |-> item, extra |-> extra,
   touches |-> {list} \cup others]

PlaybookHooks ==
  { Hook("create", "playbooks", TRUE, "none", {}, {}),
    Hook("update", "playbooks", TRUE, "playbook", {}, {"playbook"}),
    Hook("delete", "playbooks", TRUE, "playbook", {}, {"playbook", "jobs", "job"}) }

PlaybookMove == Hook("update", "playbooks", TRUE, "none", {}, {"playbook"})

FolderHooks ==
  { Hook("create", "folders", TRUE, "none", {}, {}),
    Hook("update", "folders", TRUE, "none", {}, {}),
    Hook("delete", "folders", TRUE, "none", {"playbooks"}, {"playbooks", "playbook"}) }

RepositoryHooks ==
  { Hook("create", "repositories", FALSE, "none", {}, {}),
    Hook("update", "repositories", TRUE, "none", {}, {}),
    Hook("update", "repositories", FALSE, "none", {"playbooks", "roles"},
         {"playbooks", "playbook", "roles", "jobs", "job"}),
    Hook("delete", "repositories", TRUE, "none", {"playbooks"},
         {"playbooks", "playbook", "jobs", "job"}) }

\* Toggling a job is an update.
JobHooks ==
  { Hook("create", "jobs", TRUE, "none", {}, {}),
    Hook("update", "jobs", TRUE, "job", {}, {"job"}),
    Hook("delete", "jobs", TRUE, "job", {}, {"job"}) }

DeviceHooks ==
  { Hook("create", "devices", TRUE, "none", {}, {}),
    Hook("update", "devices", TRUE, "device", {}, {"device"}),
    Hook("delete", "devices", TRUE, "device", {}, {"device", "deviceGroups"}) }

GroupHooks ==
  { Hook("create", "groups", TRUE, "none", {}, {}),
    Hook("update", "groups", TRUE, "group", {}, {"group"}),
    Hook("delete", "groups", TRUE, "group", {}, {"group", "deviceGroups"}) }

\* Assigning and unassigning refresh the memberships only when they succeed.
MembershipHooks == { Hook("assign", "deviceGroups", FALSE, "none", {}, {}) }

CredentialHooks ==
  { Hook("create", "credentials", TRUE, "none", {}, {}),
    Hook("update", "credentials", TRUE, "credential", {}, {"credential"}),
    Hook("delete", "credentials", TRUE, "credential", {},
         {"credential", "devices", "device", "repositories"}) }

ConnectionHooks ==
  { Hook("create", "connections", TRUE, "none", {}, {}),
    Hook("update", "connections", TRUE, "connection", {}, {"connection"}),
    Hook("delete", "connections", TRUE, "connection", {}, {"connection"}) }

ScriptHooks ==
  { Hook("create", "scripts", TRUE, "none", {}, {}),
    Hook("update", "scripts", TRUE, "script", {}, {"script"}),
    Hook("delete", "scripts", TRUE, "script", {}, {"script"}) }

ApiKeyHooks ==
  { Hook("create", "apiKeys", TRUE, "none", {}, {}),
    Hook("delete", "apiKeys", TRUE, "none", {}, {}) }

DeclarationHooks == { Hook("update", "declaration", FALSE, "none", {}, {}) }
UserHooks == { Hook("update", "users", FALSE, "none", {}, {}) }

Hooks == UNION {PlaybookHooks, {PlaybookMove}, FolderHooks, RepositoryHooks, JobHooks,
                DeviceHooks, GroupHooks, MembershipHooks, CredentialHooks, ConnectionHooks,
                ScriptHooks, ApiKeyHooks, DeclarationHooks, UserHooks}

Query == UNION {h.touches : h \in Hooks}

\* Hovering a link of the navigation bar loads the list of its page.
Prefetched == {"devices", "groups", "credentials", "playbooks", "scripts", "jobs", "apiKeys"}

VARIABLES
  hook,      \* the hook of each mutation
  step,      \* where each mutation is
  snapshot,  \* the list each mutation found
  query,     \* the query a behaviour follows
  \* Its entry in the cache.  Its content stands for the mutations it shows.
  data,
  stale,     \* invalidated, or older than staleTime
  fetch,
  answer,    \* what a fetch has read
  before,    \* the data when the fetch began
  seen,      \* some component uses the query
  passed     \* history: mutations whose refresh joined the fetch, or found none to start

mutationVars == <<step, snapshot>>
entryVars == <<data, stale, fetch, answer, before, seen, passed>>
cacheVars == <<hook, query, mutationVars, entryVars>>

Content == (SUBSET Mutation) \cup {NoData}

ResourceCacheTypeOK ==
  /\ hook \in [Mutation -> Hooks] /\ query \in Query
  /\ step \in [Mutation -> {"idle", "calling", "committed", "rejected",
                            "ok", "error", "lost", "late"}]
  /\ snapshot \in [Mutation -> Content]
  /\ data \in Content /\ before \in Content /\ answer \subseteq Mutation
  /\ fetch \in {"idle", "sent", "read", "failed"}
  /\ stale \in BOOLEAN /\ seen \in BOOLEAN /\ passed \subseteq Mutation

CacheInit ==
  /\ query \in Query
  /\ hook \in [Mutation -> {h \in Hooks : query \in h.touches}]
  /\ step = [m \in Mutation |-> "idle"] /\ snapshot = [m \in Mutation |-> NoData]
  /\ data = NoData /\ stale = FALSE /\ fetch = "idle" /\ answer = {} /\ before = NoData
  /\ seen = FALSE /\ passed = {}

Committed(m) == step[m] \in {"committed", "ok", "error", "late"}

\* What the database holds.  (A call that was rejected ends as "lost".)
Stored == {m \in Mutation : Committed(m)}

\* The item is gone: reading it answers NOT_FOUND.
ItemGone == \E m \in Stored : hook[m].does = "delete" /\ hook[m].item = query

----------------------------------------------------------------------------
(* The query client.                                                       *)

Fetch == fetch' = "sent" /\ before' = data /\ passed' = {}
NoFetch == fetch' = "idle" /\ answer' = {} /\ before' = NoData

\* Only what is stale is fetched, and never twice at once.
Load == IF fetch = "idle" /\ (data = NoData \/ stale)
          THEN Fetch ELSE UNCHANGED <<fetch, before, passed>>

Use     == ~seen /\ seen' = TRUE /\ Load /\ UNCHANGED <<data, stale, answer>>
Refocus == seen /\ Load /\ UNCHANGED <<data, stale, answer, seen>>
Prefetch == query \in Prefetched /\ Load /\ UNCHANGED <<data, stale, answer, seen>>

\* Cancelled, a fetch leaves what there was before it.
Cancel == IF fetch = "idle" THEN data ELSE before

Leave ==
  /\ seen /\ seen' = FALSE
  /\ data' = Cancel /\ stale' = (stale \/ fetch # "idle")
  /\ NoFetch /\ UNCHANGED passed

\* gcTime after the last use.
Forget ==
  /\ ~seen /\ fetch = "idle" /\ data # NoData
  /\ data' = NoData /\ stale' = FALSE
  /\ UNCHANGED <<fetch, answer, before, seen, passed>>

Age == data # NoData /\ stale' = TRUE /\ UNCHANGED <<data, fetch, answer, before, seen, passed>>

Read ==
  /\ fetch = "sent"
  /\ \/ fetch' = "failed" /\ UNCHANGED answer
     \/ ~ItemGone /\ fetch' = "read" /\ answer' = Stored
  /\ UNCHANGED <<data, stale, before, seen, passed>>

Answer ==
  /\ fetch \in {"read", "failed"}
  /\ data' = IF fetch = "failed" THEN data ELSE answer
  /\ stale' = (fetch = "failed" /\ data # NoData)
  /\ NoFetch /\ UNCHANGED <<seen, passed>>

QueryClient == Use \/ Refocus \/ Prefetch \/ Leave \/ Forget \/ Age \/ Read \/ Answer

----------------------------------------------------------------------------
(* useResourceMutation (and useOrpcMutation, for memberships).             *)

Goes(m, s) == step' = [step EXCEPT ![m] = s]

\* onMutate: cancel the list, keep it, patch it.
Mutate(m) ==
  LET found == Cancel
      patches == hook[m].patch /\ found # NoData
  IN
  /\ step[m] = "idle" /\ Goes(m, "calling")
  /\ IF query = hook[m].list /\ hook[m].does # "assign"
       THEN /\ snapshot' = [snapshot EXCEPT ![m] = found]
            /\ data' = IF patches THEN found \cup {m} ELSE found
            /\ stale' = (~patches /\ (stale \/ fetch # "idle") /\ found # NoData)
            /\ NoFetch /\ UNCHANGED <<seen, passed>>
       ELSE UNCHANGED <<snapshot, entryVars>>

\* The database takes the call or not, also after the client has given up.
Commit(m) ==
  \/ step[m] = "calling" /\ (Goes(m, "committed") \/ Goes(m, "rejected"))
  \/ step[m] = "lost" /\ Goes(m, "late")

\* mutant: a failed mutation refreshes nothing
MutRefreshed(h, ok) == IF ok THEN {h.list, h.item} \cup h.extra ELSE {}
\* The queries a settled mutation refreshes (or, for the item of a delete, removes).
Refreshed(h, ok) ==
  IF h.does = "assign" THEN (IF ok THEN {h.list} ELSE {})
  ELSE {h.list} \cup h.extra \cup (IF ok \/ h.does # "delete" THEN {h.item} ELSE {})

\* invalidateQueries.  A query in use is fetched again, except that a first fetch is
\* joined; any other one is fetched the next time it is used.
Invalidate(m, found) ==
  /\ data' = found /\ stale' = (found # NoData) /\ UNCHANGED seen
  /\ IF seen /\ (fetch = "idle" \/ found # NoData)
       THEN fetch' = "sent" /\ before' = found /\ passed' = {} /\ answer' = {}
       ELSE /\ passed' = IF fetch = "idle" THEN passed ELSE passed \cup {m}
            /\ UNCHANGED <<fetch, before, answer>>

\* onSuccess or onError, then onSettled.
Settle(m, ok) ==
  LET rollsBack == ~ok /\ query = hook[m].list /\ snapshot[m] # NoData
      found == IF rollsBack THEN snapshot[m] ELSE data
  IN
  /\ \/ ok /\ step[m] = "committed" /\ Goes(m, "ok")
     \/ ~ok /\ step[m] = "committed" /\ Goes(m, "error")
     \/ ~ok /\ step[m] \in {"calling", "rejected"} /\ Goes(m, "lost")
  /\ IF query \notin Refreshed(hook[m], ok)
       THEN UNCHANGED entryVars
     ELSE IF query = hook[m].item /\ hook[m].does = "delete"
       THEN /\ data' = NoData /\ stale' = FALSE /\ NoFetch /\ UNCHANGED <<seen, passed>>
     ELSE Invalidate(m, found)
  /\ snapshot' = [snapshot EXCEPT ![m] = NoData]

CacheNext ==
  /\ UNCHANGED <<hook, query>>
  /\ \/ QueryClient /\ UNCHANGED mutationVars
     \/ \E m \in Mutation :
          \/ Mutate(m)
          \/ Commit(m) /\ UNCHANGED <<snapshot, entryVars>>
          \/ \E ok \in BOOLEAN : Settle(m, ok)

CacheSpec == CacheInit /\ [][CacheNext]_cacheVars

----------------------------------------------------------------------------
(* Properties.                                                             *)

Settled == \A m \in Mutation : step[m] \notin {"calling", "committed", "rejected"}

\* What a hook cannot know: the call was committed after the client gave up, the query is
\* none that its hook refreshes, or a fetch that began before went on.
Excused(m) ==
  step[m] \in {"lost", "late"} \/ query \notin Refreshed(hook[m], step[m] = "ok") \/ m \in passed

\* However mutations, fetches, retries and pages overlap, once no mutation is under way a
\* query shown as fresh holds what the database does: no optimistic row of a failed call
\* stays, no rollback hides what another call did, no deleted item is shown
\* (use-resource-mutation.ts:49-54).
FreshWhenSettled ==
  Settled /\ data # NoData /\ ~stale =>
    \A m \in Mutation : Excused(m) \/ (m \in data <=> m \in Stored)
=============================================================================
