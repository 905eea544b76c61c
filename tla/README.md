# Verification of playbook-runner

playbook-runner is a self-hosted UI for Ansible. A backend (Bun, TypeScript) keeps jobs, playbooks
and inventories in Postgres and runs jobs on a schedule or on demand; an ansible service (Python,
asyncio, gRPC) executes the playbooks; a browser frontend (React) starts runs and watches them live.
Nothing is hard in any one of them alone. What is hard is that a run is held in four places at once:
a Postgres row (which is also the job's lock), a task of the backend with an entry in an in-memory
registry, a slot with key files and a thread in the ansible service, and a console in each browser
that follows it. Each of the four may be slow, cancelled or gone at any step. Around the run stand
the things it is made of (repositories, inventory, credentials, secrets, playbook files), each read
in several steps while others write it, and the pages on which people choose, start and follow it.
The modules here are about that.

All paths below are relative to the repository; `jobs/` stands for `packages/api/src/v1/jobs/`,
other directories of `packages/api/src/v1/` are given by name (`run/`, `repositories/`), and
`features/` stands for `apps/frontend/src/features/`.

## Inventory

### Job run execution (`jobs/executor.ts`, cancel in `jobs/handler.ts`, recovery in `apps/backend/src/jobs/scheduler.ts`)

State: `job_runs` rows (`running`, then `ok`, `failed` or `cancelled`), the executor task of each
run, its `AbortController`.
Operations: `openRun` (a transaction under `pg_advisory_xact_lock(hashtext(jobId))` that checks for
a running row and inserts one), `streamRun` (resolve, stream frames, stop at a terminal one),
`completeRun` (stream, store, retry the store once, announce in `finally`), `cancel` (read the row,
then abort through the registry), `recoverOrphanedRuns` at boot.
Hard: the check and the insert are two statements; cancellation races the terminal frame and the
store; statements fail, perhaps after having been applied; the process dies between any two steps;
requests are served while `bootstrap()` is still running.
Correct when: a job never has two runs in progress, a running row always has somebody who will
settle it, what is announced is what is stored, and a cancelled row was asked for and stays.

### Live registry and watchers (`jobs/live.ts`, `jobs/events.ts`)

State: per run a buffer of its events and its result, forgotten 30 s after the end; per watcher an
async generator, a copy of the buffer and a queue of messages.
Operations: begin, publish an event, finish, forget; watch, replay, read, leave.
Hard: events are published between any two reads of a watcher, and the end marker may be published
before, while or after it attaches.
Correct when: every watcher gets every event once and in order and then the result, and one that
leaves is released even if the run is silent.

### Job run console (`useJobRunWatch` in `apps/frontend/src/features/jobs/hooks/use-jobs.ts`)

State: the run watched, the phase, the events on screen, the retry timer, the generation counter
that tells callbacks of a left stream from those of the current one.
Operations: start, stopWatching, reset; callbacks of a stream; reattach by timer.
Hard: callbacks arrive after the hook has moved on; a lost stream is attached again and replays from
the first event.
Correct when: the screen always shows a prefix of the run, once; there is one stream; it gives up
only when the API cannot be reached; it does not stay running after its run.

### Run changes and the views that follow them (`jobs/changes.ts`, `use-job-run-changes.ts`)

State: listeners of the change stream; in the browser, the subscription, its timer, and the cached
run queries.
Hard: commit and announcement are apart, so are a fetch and its answer; the stream is lost and made
again; pages come and go.
Correct when: no change is forgotten: what a view does not show is on its way to it.

### Job scheduler (`apps/backend/src/jobs/scheduler.ts`, `jobs/schedule.ts`, `jobs/cron.ts`)

State: `scheduled`, one `Bun.cron` entry per job and pattern; reconcile passes in flight.
Operations: a tick starts a pass, which reads the table, awaits, and applies; an entry fires
`executeJob`.
Hard: passes overlap and apply in either order what they read before an await; jobs change under
them; an entry is replaced while its handler is running.
Correct when: entries are out of step only with jobs edited since, they catch up, no job runs twice
at once, and no entry falls silent.

### Run RPCs of the ansible service (`apps/ansible/app/grpc/services/runner.py`, `services/ansible/runner.py`, `materialize.py`)

State: `RUN_SLOTS`, `RUN_EXECUTOR`, per call a task, a pump task with a queue of one frame, a chain
of four async generators, a directory with private keys, a thread of ansible-runner.
Operations: admit, materialize, stream, cancel, clean up, release.
Hard: a call may be cancelled at any await of its task or its pump; a thread cannot be.
Correct when: keys exist while Ansible may read them and not after, slots come back, an admitted run
has a thread, a run whose client is gone stops.

### Git mirror (`apps/ansible/app/services/git/mirror.py`)

State: a bare clone per repository on disk, `_LOCKS`, and the threads in which git runs.
Operations: sync (clone or fetch, then `rev-parse`), ensure a pinned commit and export its tree,
delete.
Hard: a cancelled call gives its lock back while its thread still writes; a delete takes the lock
out of the table while others wait on it; exports and discovery read without the lock; a mirror over
its size limit is removed after the fetch.
Correct when: two threads never write one mirror at once but for those two reasons, and what a call
was told of the mirror holds when it uses it.

### Repository sync and run resolution (`repositories/sync.ts`, `repositories/handler.ts`, `run/resolve.ts`)

State: the repository row (URL, last commit, last error), its playbooks, the jobs' `playbookId`.
Operations: sync (read, ask the ansible service, then one transaction of an upsert per file, a
delete of what is gone upstream and unused, an update of the repository), edit, delete; a run's
resolution reads the playbook and then the commit.
Hard: all of it is at READ COMMITTED and overlaps; a job may be pointed elsewhere between any two
statements; fetches answer in another order than the syncs began.
Correct when: a sync nothing disturbed leaves exactly the playbooks of its commit, ids survive, no
job loses its playbook to a sync, and a run executes the file that is shown.

### Hosts, keys, secrets and roles of a run (`run/resolve.ts`, `inventory/`, `credentials/`, `infisical-connections/`, `playbooks/`, `materialize.py`, `discover.py`, `disabled_roles.py`, `play_targets.py`)

State: devices, groups, memberships and credentials; connections, declarations and jobs' own secret
variables; the YAML files of a commit and the copy a run is given.
Hard: a selection, its devices and its declarations are read in several statements while they are
edited; checks come before writes (reserved group names, connections in use); hosts and keys are
joined by device name in the end; the roles and variables offered were found at one commit and are
applied at another, through imports with cycles and role folders in several places.
Correct when: a run contacts what was selected, each with its own key; it reads the secrets it was
given through a connection it was given; what the form offers is what the run needs; a role left out
runs nowhere, and plays run on the selection only.

### Run history and dashboard (`jobs/handler.ts`, `features/jobs/hooks/use-jobs.ts`)

State: infinite queries of the feed (keyset cursor) and of one job (offset); rollups.
Hard: runs are opened, committed late, finished and deleted between the pages of one list.
Correct when: no run is shown twice or out of order, none is left out (but within a millisecond of
the cursor), and a job's success rate is its own.

### Resource cache (`apps/frontend/src/hooks/use-resource-mutation.ts` and the hooks built on it)

State: the query cache: every list and item, with optimistic patches and snapshots.
Hard: mutations overlap with each other, with fetches and with prefetches, roll back, and refresh
what they name and nothing else; foreign keys change rows of other resources.
Correct when: what is shown as fresh is what the database holds.

### Interactive runs (`features/run/hooks/use-run-stream.ts`, `run/stream-handler.ts`, `packages/grpc/src/client.ts`)

State: the page's stream and generation, the procedure, its signal, the call of the ansible service.
Nothing is stored.
Hard: a stream left behind still delivers; the signal may fire before the call exists; the service
may be busy.
Correct when: the console shows one run, truly, and no run goes on that nobody watches and nothing
will stop.

### Pages and forms (`features/jobs`, `features/playbooks`, `features/run`, `features/inventory`, `features/credentials`)

State: which run the job page has selected and watches; the groups and devices picked; rows of
variables with their Infisical connection and environment; the consoles' cards; the fields of every
form that edits a stored row; key pair, branch and cron expression.
Hard: the lists, rows and declarations behind a form are read again while it is filled in; changes
of runs arrive late, early or not at all; Ansible's events interleave by strategy.
Correct when: a run is what the page showed when it was confirmed; a form loses nothing that was
typed and saves what it shows; a console tells of each host what happened there.

### Pages of playbooks and of the inventory (`features/playbooks/components`, `features/inventory/components`, `components/shared/`)

State: the lists a page joins, one cached query each; the dialog that is open with what it was
opened for; the calls sent and not answered.
Hard: each list is loaded, patched, rolled back and refreshed on its own, while playbooks refer to
folders and repositories, and memberships to devices and groups; cascades of the database change
lists nobody asks for again; a dialog outlives the call it sent and the row it is about;
memberships have no unique key.
Correct when: once nothing is under way, what is shown is what is stored, in one place; nothing goes
where nobody sent it; a membership is stored twice only by somebody who could not know.

### Interactions

The scheduler and the `jobs.run` handler call `openRun` and leave `completeRun` in the background.
`completeRun` resolves the run (hosts, secrets, playbook and commit), opens a gRPC stream to the
ansible service (`serverStream`, cancelled by the run's signal, with a deadline) and publishes
events to the registry and changes to the change bus. The ansible service exports the commit from
its mirror, rewrites the copy, and runs it. The `watch` and `watchChanges` handlers are generators
over the registry and the bus, carried by oRPC to the hooks, whose callbacks update the console and
invalidate React Query's cache.

### Other components

`PROJECT.json` lists every component with its status and the reason for what is left out. See also
"Not modelled" below.

## Modules

| module | what it models | built on |
| --- | --- | --- |
| `RunLedger` | what job execution promises: per job at most one run in progress, which ends once | |
| `JobRuns` | job run execution in detail | refines `RunLedger` |
| `LiveRuns` | registry and watchers, event by event | |
| `RunConsole` | the console hook composed with the registry | `LiveRuns` |
| `RunChanges` | change stream, its hook and a cached view | |
| `Scheduler` | reconcile passes, cron entries, handlers | |
| `RunnerService` | run RPCs of the ansible service | |
| `GitMirror` | a repository's mirror, its locks and git threads | |
| `RepositorySync` | playbooks in Postgres under syncs, edits and resolutions | |
| `RunHosts` | inventory, and the hosts and keys of a run | |
| `RunSecrets` | connections, declarations, and the secret variables of a run | |
| `PlaybookRoles` | discovery of roles and variables, and the copy that is run | |
| `RunHistory` | the two lists of runs, and the jobs' rates | |
| `ResourceCache` | one cached query under the mutations of every resource hook | |
| `RunStream` | interactive runs, from the console to the service | |
| `RunOutput` | the consoles' cards and the counts of hosts, from Ansible's events | |
| `RunPage` | the page of a job: which run it shows and watches | |
| `RunTargets` | the picker of groups and devices, up to what is sent | |
| `RunVariables` | the rows of variables, their connection and environment, up to what is sent | |
| `JobPages` | the pages that start and show a run | `RunPage`, `RunTargets`, `RunVariables` |
| `EditForms` | the forms that edit a stored row | |
| `KeyPairForm`, `RemoteBranches`, `CronForm` | a credential's keys, a repository's branch, a job's schedule | |
| `PageLists` | one list of a page, in React Query and under `useResourceMutation`: operators | |
| `PlaybooksPage` | the overview of playbooks, folders and repositories, its dialogs and calls | `PageLists` |
| `InventoryPage` | the pages of devices and groups, and the dialog of memberships | `PageLists` |

`MC...` modules give TLC values and symmetry. `MCJobs`, `MCRunConsole`, `MCFollowers`, `MCServices`,
`MCRepositories`, `MCRecords` and `MCPages` run several modules whose variables have nothing in
common: a behaviour chooses one of them in its first state, takes its steps and leaves the others
where they began, so that a run is the union of their state spaces and not the product. Each formula
then holds of its module's behaviours as if it were run alone, and of the resting ones trivially.
`...Proofs` modules hold the theorems. In each module, the operators named `Mut...` are slips a
change to the code could make; a property is kept only if TLC finds it violated when the definition
after the `Mut` operator is replaced by it. They take no part in the specifications.

### How they correspond to the code

`JobRuns`. `status`, `jobOf`, `trigger` and `by` are the columns of `job_runs`; `step` is where the
task of a run is, between the awaits of `openRun`, `streamRun` and `completeRun`; `live` and
`canceller` are the registry entry and its `cancelledBy`. A statement to Postgres is one action for
its success, one for its failure and, where it matters (`OpenRunUnacknowledged`, `SaveFails`), one
for a success whose acknowledgement is lost. `AcquireLock` is the advisory lock on the hash of the
job id, so two jobs may share a key. `Crash` clears the process and keeps the rows.
Requests arrive before `recoverOrphanedRuns` has run, as the code lets them; `early` remembers the
runs they begin. `deleted` rows are kept as a status so that properties can speak of them.

`RunLedger` is the abstract specification: `Start` needs the job to be free, `Finish` ends a run
once, `Amend` is the retried store, `Recover` fails what a crash left, `Forget` deletes a job. A run
that started before `Recover` (`early`) is failed by it although it goes on: the ledger lets the next
run of the job start beside it, and its own end replace that result (`Mistaken`). So the refinement
is of the code as it is, and says how much that costs: nothing but this.

`LiveRuns`. `exec` and `collected` are the frame loop of the executor and its own array; `entry` and
`events` the registry; each watcher is its generator's position (`watch`), the copied buffer
(`replay`), the copied result (`doneBefore`) and the publisher's queue. `Attach` is the synchronous
stretch from the listener's registration to the copy, which no publication can enter.

`RunConsole` adds the hook's refs and state, and the browser's end of each stream (`conn`): open,
closed by the hook, lost, refused or over. A callback is one action; `IsCurrent` is the generation
check. A restart of the backend breaks all connections.

`RunChanges`. A change is one committed transition of a row; a view holds the set of changes its
last answer saw. `Commit` and `PublishRunChange` are apart, `ReadRows` and `ShowRows` too. What
React Query does when a query is invalidated, mounted or left is modelled from how the code uses it
and marked external. A booting backend answers, opens and finishes runs like any other; what its
recovery fails is announced to nobody. `overtaken` remembers what was failed when the page had
nothing left to read.

`Scheduler`. `jobs` is the table reduced to enabled and cron pattern; a pass is asking or answered
with the rows it read; `scheduled` holds an entry's pattern and the handler busy in it; `behind` is
a history variable: the jobs edited since the read of the last pass applied. Time is left out: an
armed entry may fire, and the interval timer may tick, whenever it is enabled. The module describes
the process with `JOB_SCHEDULER_ENABLED=1`; `stopJobScheduler` is only called together with
`process.exit`. `Early` marks the execution of a run that a user started before the boot had
recovered the rows, which may lose its row to it.

`RunnerService`. `rpc` is the task of the call, `pump` the pump task with the generators it drives,
`queue` the queue of one place between them, `files` the run directory, `worker` the job of
ansible-runner, `stop` its cancel event. A cancellation of the pump is one action per await it may
be in: before the slot, in `to_thread(prepare)`, inside `stream()`, in `queue.put`, in
`to_thread(cleanup)`. `dropped` says that the generator of `stream()` was dropped and awaits the
event loop's finalizer, which is how Python finalizes an async generator nobody closes. `hasty`,
`late` and `leaky` are history variables: calls cleaned up beside their thread, calls whose thread
outlived `CANCEL_WAIT_S`, and calls whose directory nobody holds.

`GitMirror`. `pc` is where the task of a call is, or its thread once it is orphaned by a
cancellation; `registered` is the lock in `_LOCKS`, named after the call that made it, so that a
delete that pops it and a later call that makes another are two locks; `holder` and `waiters` are of
each lock, first come first served. A git process is one action per outcome: it may fail, and a
fetch brings the commits the remote has then. Pushes may rewrite the branch, which is why a pinned
commit can be gone.

`RepositorySync`. One action per statement. A row a transaction has written is `mine` until the
commit, and locked; other statements wait for it or, at READ COMMITTED, see the row as last
committed. `solo`, `settled`, `knew` and `straddled` are history: they say of a sync or a resolution
whether another one touched it.

`RunHosts`, `RunSecrets`. One action per statement of a resolution (`stage`, `progress`), one per
handler that writes at once, two where it checks first (`renaming`, `check`). Foreign keys are part
of the deletes: a connection in use is restricted, a deleted credential is set to null, memberships
cascade. The inventory written for Ansible is keyed by name, as in `materialize.py`.

`PlaybookRoles`. Data: three files in three folders, two roles, and two variables; a file is a
playbook, a playbook whose hosts cannot be rewritten ("fixed"), a list of tasks, encrypted or
broken. What a file holds is what discovery reads of its plays: roles, the vars on their entries,
vars, the names their own tasks assign, and imports. `path` and `visited` are the discovery's walk
down the imports with its depth limit, `emptied` the role folders that `disabled_roles.py` leaves
without tasks, `pending` and `through` the files that `play_targets.py` goes through: it leaves a
fixed one as it is and does not go on to its imports (`Followed`), while discovery and Ansible do
(`Imports`).

`RunHistory`. `stamp` is `created_at`, the time the transaction began, so that a run may appear
behind one opened later; two units of the clock are one millisecond, since the cursor keeps
milliseconds of a column in microseconds. `wanted` and `coming` are React Query's refetch of all
pages, each from the cursor of the one before.

`ResourceCache`. The hooks are data: for each, the list it patches, the item it refreshes, the keys
it invalidates and the rows the call changes in the database. A behaviour follows one query,
whichever, under two mutations, whichever. The content of a query is the set of mutations it shows.

`RunStream`. `wire` is what is on its way to the browser; `watching` the generation check of the
hook; `served` and `remote` the procedure and the call, so that an abort may come before the call
exists. A call may break as lost or with an internal error. That a message too large for the client
breaks it with RESOURCE_EXHAUSTED, which `stream-handler.ts:78-82` tells as busy though the run is
under way, is not modelled: what `OutcomeIsTrue` says of "busy" is of calls the service refuses.

`RunOutput`. Ansible's strategies are external: linear (by task), serial (by batches), free (each
host on its own), or a module without a playbook. `cards` is `parseEvents`, `hostCards` is
`buildHostResults`, `recap` the `playbook_on_stats` event, `stored` the row with its counts.

`RunPage`. `listed`, `single`, `stale` and `missing` are the queries of the history and of the run
read alone; `watch` the hook of the console, with its phase; `changes` the run changes on their way
here. `behind` remembers why the page need not be at the newest run.

`RunTargets`, `RunVariables`. From what is stored (`inventory`, `declared`) over what has been read
of it (`lists`, `known`) to what is picked and sent. `RunTargets` follows the pages of playbooks,
scripts and commands and the form of a job, which differ in `page`; `RunVariables` the run page and
the job form.

`EditForms`. A form is a record of how it is filled (on opening, once, or whenever the query
changes), what it leaves out, and whether it goes when the query fails; eleven forms of the web app
are its instances. `fields` hold revisions instead of texts.

`KeyPairForm`, `RemoteBranches`, `CronForm`. A key is the pair it belongs to; a remote is a URL with
a credential; a cron expression is its five fields, and the ends of their ranges are constants.

`PlaybooksPage`, `InventoryPage`. `stored` is the database, `lists` what React Query has of each
list: rows, a fetch under way and the answer that was read for it, the last failure; `missed` and
`late` are history, which say that somebody else has changed the rows since. `calls` are those of
the page (`by` is "page") and of everybody else; each goes through the checks and the one statement
of its handler, and the page is told afterwards (`SettleCall`), of a failure also if only the
answer was lost. `dialog` is the confirmation, the move dialog or the dialog of memberships. Search,
filter, collapsed sections and the folder of the URL change nothing but what is drawn: a property
quantifies over them (`Looks`). Two playbooks of one name, the order of rows and the names that a
search matches are left out.

## Runs

Deadlock is not checked: ids, watches, changes, calls and edits are used once, and the models stop
when they run out. Inductive invariants and type invariants are theorems and not repeated in the
runs where a proof covers them.

| run | shows | bounds, and why they are enough |
| --- | --- | --- |
| `job_runs` | **jobs**: `LocksHoldOnceRecovered`, `AnnouncedIsStored`, `CancelledWasAskedFor`, `CancellationHolds`, with requests during boot. **page**, **targets**, **settings**: `PagesAreTrue`. **output**: `OutputIsTrue` | one job and two runs (two runs are what exclusion needs; a third repeats the second after a settlement), two users, one crash (recovery runs twice), two database errors (the store and its retry); three runs on the page, a history of one row per request; two devices, one group and one edit behind the picker; two rows of variables, two connections; two hosts and two tasks, one with a loop |
| `job_runs_liveness` | refinement of `RunLedger`, and `RunsSettle`: runs finish and rows settle | as above, one user; one run begun by hand, during boot too, and one by the scheduler |
| `job_runs_boot_race` | **violated**: a job runs twice when a request arrives during boot | no crash, no error needed |
| `run_console` | **watchers**: `ToldAsItWas`; **moves** and **drops**: `ScreenIsTrue`, `OneStream`, `GivesUpOnlyWhenUnreachable`; **inventory**: `InventoryPageIsTrue` | two watchers, three events (one copied, one queued, one after) and a restart; two runs with one event, two moves, a loss and refusals; three streams of one run and two losses; a device and a group, either in it or not, the dialog of the device (the group's is the same with the ends changed), and two of calls, one from elsewhere at most, failed fetches and returns of the window (two overlap; a third meets lists that one of them left) |
| `run_followers` | **console**: `StayersLearnTheEnd`, `LeaversLeaveNothing`; **changes**: `NothingForgotten`, `CatchesUp`, `NothingLeftBehind` | one run, two streams, a loss, a refusal and a restart; two changes (one crosses a fetch, one follows), two streams, a loss or restart, two visits |
| `run_changes_first` | **violated**: a change between the page's load and its first subscription is not shown | no loss |
| `run_changes_boot` | **violated**: a page that is back before recovery is not told of the rows it fails | one restart, one visit |
| `services` | **scheduler**: `EntriesLagOnlyBehindEdits`, `NeverTwiceAtOnce`, `EntriesRearm`, `EntriesFollowJobs`; **runner**: `FilesOutliveWorker`, `NoSilentQueueing`, `CancelledRunsStop`, `CallsCleanUp` | one job (jobs share nothing but the passes, and each row is handled alone), two patterns, two passes, two handlers (the replaced entry's and the new one's) and a manual run, also during boot; two calls for one slot and one thread, three frames (one in the queue, one in `put`, the terminal one) |
| `runner_service_early` | **violated**: key files are removed while Ansible runs | the same calls |
| `repositories` | **mirror**: `OneWriter`, `AnswersHold`; **sync**: `MatchesCommit`, `PinnedAsShown`, `RowsSurvive` | three calls (one writes, one waits, one comes after a delete), a push, a cancellation, two syncs at once; three syncs (two overlap, one repairs), two paths, three commits, two URLs, one edit, one resolution |
| `records` | **hosts**: `HostsAreRight`; **saves** and **resolves**: `SecretsAreRight`; **roles**: `FormIsComplete`, `ChoiceIsHonoured`; **page**: `PlaybooksPageIsTrue` | two devices with two names and two keys, a group, a resolution, two changes; two connections, one playbook, one job, two handlers that check before they write, one resolution; three files and folders, of which one may be fixed, two roles, import depth two; on the page a playbook of each kind, a folder and a repository, every playbook in its section or none, and two calls or troubles as on the page of the inventory |
| `pages` | **rates**, **pages**: `HistoryIsTold`; **cache**: `FreshWhenSettled`; **stream**: `StreamsAreTrue`; **form**, **keys**, **branches**, **schedule**: `FormsAreTrue` | three runs of two jobs, pages of one row, a clock of two half-milliseconds; two mutations on one query; two streams of two events; three revisions and two unanswered saves; two credentials and three pairs; two remotes and branches; ranges of two or three values, so that both ends and a wrap are there |

Conjunctions under one name put together what is one promise to a reader; each module states its
parts with their comments.

### What the violated runs say

- `job_runs_boot_race`. `index.ts` exports the app while `bootstrap()` is pending, so `jobs.run` may
  open a run before `recoverOrphanedRuns`, which then marks the live run failed and so unlocks its
  job while the playbook is executing. The run-lifecycle specification says a job with a run in
  progress is never started. `job_runs` shows that this is the only way: runs opened after recovery
  never overlap.
- `run_changes_first`. The first `subscribed` does not refresh the queries, so a change between the
  load of the page and the registration of its listener is missed until something refetches.
- `run_changes_boot`. For the same reason as in `job_runs_boot_race`, a page may subscribe again and
  refetch before `recoverOrphanedRuns` fails the orphaned rows, which it does without an
  announcement. `use-job-run-changes.ts:46-48` says nothing is missed once the stream listens again.
  `run_followers` shows that this is the only way: but for it (`overtaken`), whatever changes after the
  first subscription and load is shown or on its way, through losses and restarts.
- `runner_service_early`. A call cancelled while its pump waits in `queue.put` closes only the
  outermost generator; the others are finalized in tasks of their own, so `cleanup` does not wait
  for `stream()` to stop the thread, contrary to the comment of `_serve`. The run excludes threads
  that outlive `CANCEL_WAIT_S`, which are cleaned up on purpose.

### Other disagreements between code and words

They are visible in the modules, most of them as the exceptions a property has to name.

- Deleting a job deletes its runs (the foreign key cascades, `schema/jobs.ts`), though
  `jobs/handler.ts:383-387` and `output.ts:73-74` say runs whose job was deleted still appear
  (`RunHistory`).
- When the store of a result and its retry both fail, the finish is announced although the row still
  says running (`JobRuns`).
- A call cancelled in the await of `prepare`, or whose `materialize_hosts` raises, leaves its key
  files on disk (`leaky` in `RunnerService`).
- The feed's cursor keeps milliseconds of a column in microseconds, so runs of the cursor's
  millisecond are skipped, contrary to `jobs/handler.ts:245-248` (`FeedSkipsOnlyMilliseconds`). A
  run in progress counts in its job's rate as not successful.
- Moving a playbook refreshes no detail query, unlike what `use-resource-mutation.ts:24-27` asks of
  its users; deleting a playbook or a repository does not refresh jobs, a credential not devices and
  repositories, a device or a group not the memberships; a sync does not refresh the detail of a
  playbook; a first fetch that an invalidation joins shows old data as fresh (the exceptions of
  `FreshWhenSettled`).
- A run whose resolution a sync is stored around pins the newer commit, whatever it has read of the
  playbook: the tree may have another text of the file, or none. `PinnedAsShown` speaks of the other
  resolutions only.
- A sync whose transaction fails leaves no `lastSyncError`; an edit of the URL keeps the last
  commit; overlapping syncs mix their rows until a later one repairs them; and "a playbook a job
  uses stays" (`sync.ts:139-141`) does not hold of a job pointed at it after the delete took its
  snapshot (`RepositorySync`).
- Devices with the same name collapse into one target, as the inventory is keyed by name
  (`TargetsHaveOwnKeys`).
- A variable two roles need is listed under the first only; one that a role left out assigns counts
  as known; `_nearest_role` may answer with another folder than the one the run searches first;
  plays of templated imports keep their own hosts, as nobody can name the file (`PlaybookRoles`).
- A file whose hosts cannot be rewritten in its text (an anchor on `hosts` that a later play refers
  to) is left as it is and the run goes on (`play_targets.py:98-105`), although Ansible reads such a
  file: its plays, and those it imports, keep their own hosts, and an encrypted file among the
  imported ones is not refused. `tests/test_play_targets.py:112-128` expects it;
  `playbook-execution/spec.md:88` says the runner runs every play on the hosts selected, whatever
  its `hosts` (`Reached` in `SelectionDecides`).
- A retry after a lost connection meets the run it lost and is refused as busy (`RunStream`).
- "The app's run-change subscription has already refreshed the list" (`job-detail-page.tsx`): it has
  only invalidated it (`RunPage`).
- A schedule is shown as a "six-field" expression in a comment of the assistant, while it has five
  fields; an expression emptied in the assistant and applied unschedules the job (`CronForm`).
- A description cleared in the forms of groups, devices and folders is sent as undefined and stays;
  a form that goes when its query fails loses what was typed; a public key that was replaced behind
  the page is sent back with an edit (`EditForms`, `KeyPairForm`).
- The console receives a task's start once, so with `serial` or `free` results land in another
  task's card and a row may go on spinning; a host with only rescued tasks is in no count; a failure
  that was ignored is shown as failed; an item of a loop counts as a host in the card's failures
  (`RunOutput`).
- A move that ends well closes whichever move dialog is open by then, also one opened for another
  playbook meanwhile; what that one would have moved stays (`PlaybooksPage`).
- A toggle in the dialog of memberships that comes before its list is read again adds a membership
  that is there, as a second row; unassigning deletes both. The dialog of a device that somebody has
  deleted goes on showing its groups (`InventoryPage`).
- A failed refetch of one of its lists replaces the whole page by an error, though the rows are
  there (`query-state.tsx:50`).

## Fairness

- `JobRuns`: boot, recovery and the steps of an executor task are weakly fair: they are JavaScript
  continuations, driven by the event loop, and every gRPC stream has a deadline. `AcquireLock` is
  strongly fair, because Postgres queues the waiters of an advisory lock. Nothing is assumed of
  users, crashes or database errors.
- `LiveRuns`, `RunConsole`: a watcher's reads, callbacks and timers are weakly fair. Runs need not
  progress; liveness is stated of watchers whose run ends, or who leave. A request is taken to be
  answered or lost in the end: nothing in the hook gives up on one that is silent for ever.
- `RunChanges`: recovery, announcements, queries, callbacks and timers are weakly fair; connections
  need not be lost, pages need not be visited.
- `Scheduler`: the timer ticks (weak), an answer arrives in the end though queries may fail
  meanwhile (strong fairness of `Read`, the one assumption about the database), handlers settle. No
  entry is assumed to fire.
- `RunnerService`: tasks, threads and finalizers go on; every call has the backend's deadline, so it
  is cancelled unless it ends; a playbook ends when it is told to stop, and need not end of itself.
- The other modules state safety only and assume none: what they leave open is whether users come
  back, git answers and pages are read again.

## Proofs

Every theorem holds for all values of the constants that satisfy the named assumption of its module.
`PROJECT.json` lists them.

- `JobRunsProofs`. `JobRunsInv` is inductive. Mutual exclusion alone is not: it needs to know that a
  task between its check and its insert holds the advisory lock and that no running row of its job
  exists, that a running row has a live task or is an orphan of a crash or of a lost
  acknowledgement, and that the registry's abort is only set for manual runs. From it follow
  exclusion after recovery, no orphans after recovery, that announced is stored, and that a
  cancellation was asked for and holds. `JobRuns` implements `RunLedger` step by step, for which the
  invariant says that a run in progress whose row says failed is an early one of a process that has
  recovered since.
  Of `RunOutput`: `OutputInv` has a part for each way that Ansible goes. By task, no host that
  is not out is more than one behind another, and the cards are the tasks begun; by batches, one host
  divides those that are through from those that have not begun. `OutputIsTrue` alone says nothing
  of a task under way; that only hosts in the middle of theirs run, and only on the last card, is
  what makes a late result find its row.
  Of the pages (`JobPages`), each has an invariant of its own, and `PagesAreTrue` is read off the three.
  `PageInv`: what `RunPage` has read is as it is stored, or the page is yet to hear of the change, or
  to read again; runs are heard of in the order they start, and a page that was at the newest run is
  yet to hear of the next. `TargetsInv`: stored memberships are between stored rows, so that a group
  that is gone covers nothing; the assumption that ids are unique is what lets one selection hold
  groups and devices. `VariablesInv`: an environment that is set, and a row with a secret, mean that a
  connection is in use, also before the declaration has been read; without that part the property is
  not inductive, since a declaration that arrives changes what is in use.
- `LiveRunsProofs`. The invariant of `LiveRuns` is an equation per watcher: what it was sent, what
  is left of its copy, and what is queued for it concatenate to the run's log, with the end marker
  last. `ToldAsItWas` is read off it. The lemmas are about concatenation and prefixes. `ConsoleInv`
  says of the hook's own stream, of every stream it has left and of the timer what each may still
  deliver: callbacks of a left stream change nothing because their generation is gone, a replay
  delivers only what the screen holds, and a timer is armed only when no stream is open. From it
  follow the four safety properties of the console, for any number of runs, streams, losses and
  moves.
- `RunChangesProofs`. A change not in a view is not announced yet, or in the queue of a stream that
  will be delivered, or covered by a refetch not yet read, or will be fetched at the next
  subscription or mount, or recovery made it when none of these was so. The proof is that every step
  moves a change along this list or shows it.
- `ServicesProofs`. Of `Scheduler`: the rows a pass holds agree with the table but for the jobs
  edited since its read; applying them leaves the entries behind by those edits only, whichever pass
  is applied last. Every execution of a job that still exists is the one its running row names, so a
  job has at most one, early runs aside. Of `RunnerService`: what a call holds at each point of its
  pump (`HeldBy`) is inductive, and the calls between acquire and release are at most the slots.
  That key files outlive the thread is a case of it. `NoSilentQueueing` is by counting: the threads
  of runs not abandoned, and the queued one, all hold slots.
- `RepositoriesProofs`. Of `GitMirror`: `MirrorInv` relates the table of locks, each lock's holder
  and queue, and where each call is: a call that writes and was not cancelled holds the lock it
  asked for, and two such calls with the same lock are one. `OneWriter` names the two ways out, a
  cancelled call's thread and a forgotten lock. `AnswersHold` needs to know what a call may count
  on at each point of its way (`AnswerInv`): a branch that was fetched is a head the remote had
  during the call, and no thread but its own brings the branch to anything else, so that what was
  found is there and the answer is of its own time, unless two threads wrote at once. Of
  `RepositorySync`: `SyncInv` says what the transaction of an undisturbed sync has made of each path
  so far: written if the commit has it, chosen by the delete if not, locked since. At its commit the
  committed rows are those of the commit, whatever was there before. `RowsSurvive` follows from
  `LockedInv`: no two transactions have written one path, what one writes on an existing row keeps
  its id, and what it deletes no job named when it looked. `PinnedAsShown` follows from `PinInv`:
  what a resolution has read of a playbook is still in its row, unless a sync was stored since.
- `PageListsProofs` says of each operator on a list what it returns and what it makes of the list's
  truth, whatever the rows are; the proofs about the two pages cite it for every list they hold.
- `PagesProofs`. `FreshWhenSettled` speaks of moments when nothing is under way, so `FreshInv` says
  what holds in between: the refresh of a mutation is in every answer still on its way, unless it
  joined a fetch that began before it, and in fresh data, unless the patch of another mutation hides
  that the data is old, which will then invalidate it itself. `StreamInv` says what the messages on
  the wire of each stream may still tell the page: events that follow those on the screen, one end
  after the last of them, and an end that is true of the run; only the watched stream is open.
  `InventoryPageInv` says when a list, and an answer on its way, is what is stored, for each list
  apart: a list of devices or groups unless the page waits for a delete of it, one of memberships
  for each pair of which both ends are there, unless the page is yet to hear of a change of that
  pair. Memberships of a deleted row may stay in a list; the page joins the lists, which drops them.
  `HistoryInv` says the same of the pages of runs that are shown and of those on their way. What the
  feed leaves out lies behind its last row or shares a millisecond with the last row of a page. By
  offset, a run that was there and is not yet shown has at least as many before it as were asked
  for: rows that land only push it further, and those of a job go together. That a page is full when
  rows are left behind it is counted with the lemma that where some row has *n* before it, those with
  fewer are *n* (`FirstRows`).
- `RecordsProofs`. `HostsInv` follows the statements of a resolution: what it has gathered was
  covered by the selection at some time, and what was covered at all times is gathered, but for what
  the next statements read. `RowsReadable` of `RunSecrets` is inductive thanks to the foreign keys
  alone, whatever the handlers checked before they write; `SecretsInv` adds what a resolution knows
  at each statement. Of the constants the latter assume that what the handlers are given
  has the shape of the rows (`RunSecretsInputs`) and, as the input schema demands, no variables
  without a connection and an environment (`RunSecretsAssumption`). `PlaybooksPageInv` adds to the
  truth of the lists that every stored playbook is in a section that is stored; only with it does
  the join of three lists show each playbook once, and the card of an empty page tell the truth.
  `FilesAreReadOnly` needs that a call for a file never passes the check of the backend, whichever
  page it comes from. The names of folders and repositories are assumed not to be those that the
  model gives to the places of a playbook (`PlaybooksPageAssumption`).
  `RolesInv` follows discovery and the copy. `WayDown`: of every file that was read and is no longer
  on the way down, the imports were read too, when the files are no more than the limit of the depth
  allows; without it a cycle of imports could cut a branch off. `Offers`: what the form was made of and
  what was chosen in it stay as they were. `CopyInv`:
  the files gone through so far and those still to come are closed under the imports of rewritten
  files together, so at the end they hold the least such set (`Reached`). That the nearest folder is
  the one the run finds takes a least number, which `LeastOf` gives from the well-founded order of
  finite sets: it stands in for an induction.

Only model-checked: liveness under fairness (`RunsSettle`, `StayersLearnTheEnd`,
`LeaversLeaveNothing`, `CatchesUp`, `NothingLeftBehind`, `EntriesRearm`, `EntriesFollowJobs`,
`CancelledRunsStop`, `CallsCleanUp`), which is out of reach of the provers, as are the ENABLED
predicates behind it; and the modules of forms, whose properties are about the data of small records.

## Not modelled

- Requests to Infisical, options of ssh, encryption, formats of keys and addresses, validation
  messages: data work and I/O, without an order of steps that could go wrong.
- The aggregates of the metrics (sums in SQL), the dashboard, navigation and rendering: functions of
  the data that the modelled hooks hold.
- The auth library's configuration, the ansible service's startup and token check, settings and
  logging, HTTP routing, gateway, documentation site and deployment.
- CRUD of scripts, folders and API keys beyond their deletes: single statements under foreign keys.

## Plan

What is left, in this order.

1. `RunOverlap`: `JobRuns` composed with `RunnerService`. A cancelled run is settled in the backend
   before it has stopped on the hosts, so the job's next run can meet it there. The product is too
   large for TLC as the two modules stand; it needs an abstraction of `RunnerService` to what the
   backend sees, and the refinement that justifies it.
2. The key files of calls that are in `leaky`: a sweep at startup would be modelled with the
   service's restart, once the code has one.
3. Proofs about the forms.
4. The aggregates of metrics against a reference definition.
