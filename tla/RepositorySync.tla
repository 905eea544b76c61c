--------------------------- MODULE RepositorySync ---------------------------
(***************************************************************************)
(* The playbooks of one Git repository in Postgres: syncRepository of      *)
(* packages/api/src/v1/repositories/sync.ts, statement by statement at     *)
(* READ COMMITTED, against other syncs, edits and deletion of the          *)
(* repository, jobs that are pointed elsewhere, and the resolution of runs *)
(* (run/resolve.ts).                                                       *)
(*                                                                         *)
(* A row a transaction has written is locked until it ends.  Statements of *)
(* one row of another table are one step.                                  *)
(***************************************************************************)
EXTENDS Naturals

CONSTANTS
  Path, Commit, Url,
  Tree,     \* the playbooks discovered at a commit
  Offers,   \* the heads a fetch from a URL may find
  Job,
  Sync,     \* calls of repositories.sync
  Resolve,  \* calls of resolveRun
  None,
  Same,     \* not written by a transaction
  MaxEdits  \* bound: edits of the repository's URL

ASSUME RepositorySyncAssumption ==
  /\ Tree \in [Commit -> SUBSET Path]
  /\ Offers \in [Url -> SUBSET Commit]
  /\ None \notin Url \cup Commit \cup Nat
  /\ {None, Same} \cap [id : Nat, text : Commit, missing : BOOLEAN] = {}
  /\ None # Same
  /\ MaxEdits \in Nat

VARIABLES
  url,        \* playbook_repositories: None once the row is deleted
  last,       \* lastCommitSha
  failed,     \* lastSyncError is set
  row,        \* playbooks: per path None or its row, as committed
  made,       \* ids given out
  uses,       \* jobs.playbookId
  \* Each sync: where it is, what it read, what it was answered, and its
  \* transaction: files to upsert, rows written, rows its delete has picked.
  at, via, found, todo, mine, victims,
  \* Each resolution: the row it read and the source it pinned.
  step, saw, pinned,
  edits,
  \* History: a sync whose transaction no other sync or job disturbed; whether the
  \* last one to commit was such a one, and of the present URL; the jobs as a sync's
  \* delete saw them; whether something was stored around a resolution.
  solo, settled, knew, straddled

repoVars    == <<url, last, failed>>
syncVars    == <<at, via, found, todo, mine, victims, solo, knew>>
resolveVars == <<step, saw, pinned>>
repositoryVars == <<repoVars, row, made, uses, syncVars, resolveVars, edits, settled, straddled>>

Row == [id : Nat, text : Commit, missing : BOOLEAN]
InTx == {"upsert", "delete", "missing", "commit"}

Nothing == [p \in Path |-> Same]

SyncTypeOK ==
  /\ url \in Url \cup {None} /\ last \in Commit \cup {None} /\ failed \in BOOLEAN
  /\ row \in [Path -> Row \cup {None}]
  /\ made \in Nat /\ edits \in Nat
  /\ uses \in [Job -> Nat \cup {None}]
  /\ at \in [Sync -> {"free", "rpc", "over"} \cup InTx]
  /\ via \in [Sync -> Url \cup {None}]
  /\ found \in [Sync -> Commit \cup {None}]
  /\ todo \in [Sync -> SUBSET Path]
  /\ mine \in [Sync -> [Path -> Row \cup {None, Same}]]
  /\ victims \in [Sync -> SUBSET Nat]
  /\ step \in [Resolve -> {"free", "looked", "pinned", "refused"}]
  /\ saw \in [Resolve -> (Path \X Row) \cup {None}]
  /\ pinned \in [Resolve -> (Url \X Commit) \cup {None}]
  /\ solo \in [Sync -> BOOLEAN] /\ settled \in BOOLEAN
  /\ knew \in [Sync -> [Job -> Nat \cup {None}]]
  /\ straddled \in [Resolve -> BOOLEAN]

SyncInit ==
  /\ url \in Url
  /\ last = None /\ failed = FALSE
  /\ row = [p \in Path |-> None]
  /\ made = 0 /\ edits = 0
  /\ uses = [j \in Job |-> None]
  /\ at = [s \in Sync |-> "free"]
  /\ via = [s \in Sync |-> None] /\ found = [s \in Sync |-> None]
  /\ todo = [s \in Sync |-> {}] /\ mine = [s \in Sync |-> Nothing]
  /\ victims = [s \in Sync |-> {}]
  /\ step = [r \in Resolve |-> "free"]
  /\ saw = [r \in Resolve |-> None] /\ pinned = [r \in Resolve |-> None]
  /\ solo = [s \in Sync |-> FALSE] /\ settled = FALSE
  /\ knew = [s \in Sync |-> uses]
  /\ straddled = [r \in Resolve |-> FALSE]

----------------------------------------------------------------------------
(* syncRepository.                                                         *)

Goto(s, x) == at' = [at EXCEPT ![s] = x]

ReadRepository(s) ==
  /\ at[s] = "free"
  /\ via' = [via EXCEPT ![s] = url]
  /\ Goto(s, IF url = None THEN "over" ELSE "rpc")
  /\ UNCHANGED <<repoVars, row, made, uses, found, todo, mine, victims, solo, knew,
                 resolveVars, edits, settled, straddled>>

\* A failed RPC only leaves its message, if the repository is still there.
FetchFails(s) ==
  /\ at[s] = "rpc"
  /\ failed' = (failed \/ url # None)
  /\ Goto(s, "over")
  /\ UNCHANGED <<url, last, row, made, uses, via, found, todo, mine, victims, solo, knew,
                 resolveVars, edits, settled, straddled>>

Begin(s, k) ==
  /\ at[s] = "rpc" /\ k \in Offers[via[s]]
  /\ found' = [found EXCEPT ![s] = k]
  /\ todo' = [todo EXCEPT ![s] = Tree[k]]
  /\ Goto(s, "upsert")
  /\ solo' = [t \in Sync |-> IF t = s THEN \A x \in Sync : at[x] \notin InTx ELSE FALSE]
  /\ UNCHANGED <<repoVars, row, made, uses, via, mine, victims, knew, resolveVars, edits,
                 settled, straddled>>

Locked(p, s) == \E t \in Sync \ {s} : mine[t][p] # Same

Write(s, P, new(_)) ==
  mine' = [mine EXCEPT ![s] = [p \in Path |-> IF p \in P THEN new(p) ELSE mine[s][p]]]

MutIdFor(p) == made + 1 \* mutant: a file that is still there is inserted anew
IdFor(p) == IF row[p] = None THEN made + 1 ELSE row[p].id

\* Waits for a transaction that has written, or inserted, the same path.
Upsert(s, p) ==
  /\ at[s] = "upsert" /\ p \in todo[s] /\ ~Locked(p, s) /\ url # None
  /\ Write(s, {p}, LAMBDA q : [id |-> IdFor(q), text |-> found[s], missing |-> FALSE])
  /\ made' = made + 1
  /\ todo' = [todo EXCEPT ![s] = @ \ {p}]
  /\ UNCHANGED <<repoVars, row, uses, at, via, found, victims, solo, knew, resolveVars,
                 edits, settled, straddled>>

\* mutant: files gone upstream are deleted whether a job uses them or not
MutUsed(i) == FALSE
Used(i) == \E j \in Job : uses[j] = i

Vanished(s) == {p \in Path \ Tree[found[s]] : row[p] # None}

\* The snapshot of the delete statement.
PickVanished(s) ==
  /\ at[s] = "upsert" /\ todo[s] = {}
  /\ victims' = [victims EXCEPT ![s] =
                   {row[p].id : p \in {q \in Vanished(s) : ~Used(row[q].id)}}]
  /\ knew' = [knew EXCEPT ![s] = uses]
  /\ Goto(s, "delete")
  /\ UNCHANGED <<repoVars, row, made, uses, via, found, todo, mine, solo, resolveVars,
                 edits, settled, straddled>>

\* It waits for its rows, and deletes those that are still there.
DeleteVanished(s) ==
  LET gone == {p \in Vanished(s) : row[p].id \in victims[s]} IN
  /\ at[s] = "delete" /\ \A p \in gone : ~Locked(p, s)
  /\ Write(s, gone, LAMBDA p : None)
  /\ Goto(s, "missing")
  /\ UNCHANGED <<repoVars, row, made, uses, via, found, todo, victims, solo, knew,
                 resolveVars, edits, settled, straddled>>

\* mutant: files gone upstream that a job uses are left as they are
MutFlagged(s) == {}
Flagged(s) == {p \in Vanished(s) : mine[s][p] = Same /\ Used(row[p].id)}

MarkMissing(s) ==
  /\ at[s] = "missing" /\ \A p \in Flagged(s) : ~Locked(p, s)
  /\ Write(s, Flagged(s), LAMBDA p : [row[p] EXCEPT !.missing = TRUE])
  /\ Goto(s, "commit")
  /\ UNCHANGED <<repoVars, row, made, uses, via, found, todo, victims, solo, knew,
                 resolveVars, edits, settled, straddled>>

\* The repository's row and the commit.  Deleting a playbook sets its jobs' to null.
CommitSync(s) ==
  /\ at[s] = "commit" /\ url # None
  /\ row' = [p \in Path |-> IF mine[s][p] = Same THEN row[p] ELSE mine[s][p]]
  /\ uses' = [j \in Job |->
                IF \E p \in Path : /\ mine[s][p] = None /\ row[p] # None
                                   /\ uses[j] = row[p].id
                  THEN None ELSE uses[j]]
  /\ last' = found[s] /\ failed' = FALSE
  /\ mine' = [mine EXCEPT ![s] = Nothing]
  /\ settled' = (solo[s] /\ via[s] = url)
  /\ straddled' = [r \in Resolve |-> TRUE]
  /\ Goto(s, "over")
  /\ UNCHANGED <<url, made, via, found, todo, victims, solo, knew, resolveVars, edits>>

\* A statement fails: no repository any more, a deadlock, a lost connection.
TxFails(s) ==
  /\ at[s] \in InTx
  /\ mine' = [mine EXCEPT ![s] = Nothing]
  /\ Goto(s, "over")
  /\ UNCHANGED <<repoVars, row, made, uses, via, found, todo, victims, solo, knew,
                 resolveVars, edits, settled, straddled>>

----------------------------------------------------------------------------
(* The other handlers.                                                     *)

\* repositories.update keeps lastCommitSha and the playbooks.
EditUrl(u) ==
  /\ url \notin {None, u} /\ edits < MaxEdits
  /\ url' = u /\ edits' = edits + 1
  /\ settled' = FALSE
  /\ UNCHANGED <<last, failed, row, made, uses, syncVars, resolveVars, straddled>>

\* repositories.delete: waits for the transactions that hold one of its playbooks.
DeleteRepository ==
  /\ url # None /\ \A s \in Sync : mine[s] = Nothing
  /\ url' = None
  /\ row' = [p \in Path |-> None]
  /\ uses' = [j \in Job |-> None]
  /\ UNCHANGED <<last, failed, made, syncVars, resolveVars, edits, settled, straddled>>

\* A job is saved with a playbook, or deleted.  Its foreign key waits for a
\* transaction that is deleting the playbook.
SaveJob(j, i) ==
  /\ uses[j] # i
  /\ i # None => \E p \in Path : /\ row[p] # None /\ row[p].id = i
                                 /\ \A s \in Sync : mine[s][p] # None
  /\ uses' = [uses EXCEPT ![j] = i]
  /\ solo' = [s \in Sync |-> solo[s] /\ at[s] \notin {"delete", "missing"}]
  /\ UNCHANGED <<repoVars, row, made, at, via, found, todo, mine, victims, knew,
                 resolveVars, edits, settled, straddled>>

\* resolveRun reads the playbook, then its repository.
ReadPlaybook(r, p) ==
  /\ step[r] = "free" /\ row[p] # None
  /\ saw' = [saw EXCEPT ![r] = <<p, row[p]>>]
  /\ step' = [step EXCEPT ![r] = IF row[p].missing THEN "refused" ELSE "looked"]
  /\ straddled' = [straddled EXCEPT ![r] = FALSE]
  /\ UNCHANGED <<repoVars, row, made, uses, syncVars, pinned, edits, settled>>

ResolveGitSource(r) ==
  /\ step[r] = "looked"
  /\ IF url = None \/ last = None
       THEN step' = [step EXCEPT ![r] = "refused"] /\ UNCHANGED pinned
       ELSE /\ step' = [step EXCEPT ![r] = "pinned"]
            /\ pinned' = [pinned EXCEPT ![r] = <<url, last>>]
  /\ straddled' = [straddled EXCEPT ![r] = @ \/ ~settled]
  /\ UNCHANGED <<repoVars, row, made, uses, syncVars, saw, edits, settled>>

SyncStep(s) ==
  \/ ReadRepository(s) \/ FetchFails(s) \/ PickVanished(s) \/ DeleteVanished(s)
  \/ MarkMissing(s) \/ CommitSync(s) \/ TxFails(s)
  \/ \E k \in Commit : Begin(s, k)
  \/ \E p \in Path : Upsert(s, p)

UserStep ==
  \/ DeleteRepository
  \/ \E u \in Url : EditUrl(u)
  \/ \E j \in Job : \E i \in 1 .. made \cup {None} : SaveJob(j, i)

ResolveStep(r) == ResolveGitSource(r) \/ \E p \in Path : ReadPlaybook(r, p)

SyncNext == (\E s \in Sync : SyncStep(s)) \/ UserStep \/ (\E r \in Resolve : ResolveStep(r))
SyncSpec == SyncInit /\ [][SyncNext]_repositoryVars

----------------------------------------------------------------------------
(* Properties.                                                             *)

Shown == {p \in Path : row[p] # None /\ ~row[p].missing}

\* After a sync that no other sync overlapped, and during which no job let go of a
\* playbook, the repository shows exactly the files of its last commit; whatever an
\* overlap has left behind, one such sync repairs (sync.ts:51-56).
MatchesCommit ==
  settled /\ url # None =>
    /\ last \in Offers[url]
    /\ Shown = Tree[last]
    /\ \A p \in Shown : row[p].text = last

\* A playbook keeps its id for as long as syncs find its file (sync.ts:53).
IdsSurvive ==
  [][\A p \in Path :
       row[p] # None /\ (row'[p] = None \/ row'[p].id # row[p].id) =>
         \/ url' = None
         \/ \E s \in Sync : /\ at[s] = "commit" /\ at'[s] = "over"
                            /\ p \notin Tree[found[s]]]_repositoryVars

\* A sync takes no job's playbook away that the job already had when the sync
\* looked for files gone upstream (sync.ts:139-141).
UsedIsKept ==
  [][\A s \in Sync : at[s] = "commit" /\ at'[s] = "over" =>
       \A j \in Job : uses[j] # None /\ knew[s][j] = uses[j] => uses'[j] = uses[j]]_repositoryVars

\* A sync disturbs no playbook that is still upstream and none that a job had.
RowsSurvive == IdsSurvive /\ UsedIsKept

\* A run whose resolution no sync was stored around executes the file the UI shows,
\* at its commit, from the URL it came from (resolve.ts:223-227).
PinnedAsShown ==
  \A r \in Resolve :
    step[r] = "pinned" /\ ~straddled[r] =>
      LET k == pinned[r][2] IN
      /\ k \in Offers[pinned[r][1]]
      /\ saw[r][1] \in Tree[k]
      /\ saw[r][2].text = k

----------------------------------------------------------------------------
(* The inductive invariant: what an undisturbed sync has written so far.   *)

\* The sync's transaction is open.
Stores(s) == at[s] \in InTx

Upserted(s, p) == mine[s][p] # Same /\ mine[s][p] # None
                  /\ mine[s][p].text = found[s] /\ ~mine[s][p].missing

\* Of the files that are gone: nothing written, deleted, or flagged.
GoneInv(s, p) ==
  LET new == mine[s][p] IN
  /\ at[s] = "upsert" => new = Same
  /\ at[s] = "delete" =>
       new = Same /\ (row[p] # None => Used(row[p].id) \/ row[p].id \in victims[s])
  /\ at[s] = "missing" =>
       new \in {Same, None} /\ (row[p] # None /\ new = Same => Used(row[p].id))
  /\ at[s] = "commit" =>
       (new \notin {Same, None} => new.missing) /\ (row[p] # None => new # Same)

SoloAt(s) ==
  /\ \A t \in Sync \ {s} : ~Stores(t)
  /\ found[s] \in Offers[via[s]]
  /\ todo[s] \subseteq Tree[found[s]]
  /\ at[s] # "upsert" => todo[s] = {}
  /\ \A p \in Tree[found[s]] : p \in todo[s] \/ Upserted(s, p)
  /\ \A p \in Path \ Tree[found[s]] : GoneInv(s, p)

SoloInv == \A s \in Sync : solo[s] /\ Stores(s) => SoloAt(s)

TxInv ==
  \A s \in Sync : /\ IF Stores(s) THEN found[s] \in Commit ELSE mine[s] = Nothing
                  /\ at[s] = "rpc" => via[s] \in Url

SyncInv == SyncTypeOK /\ TxInv /\ SoloInv /\ MatchesCommit
=============================================================================
