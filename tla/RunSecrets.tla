----------------------------- MODULE RunSecrets -----------------------------
(***************************************************************************)
(* The secret variables of runs: which Infisical connection, environment   *)
(* and variables a run reads.  Playbooks and jobs declare them             *)
(* (playbooks/secret-variables.ts, jobs/handler.ts), connections come and  *)
(* go (infisical-connections/handler.ts), and resolveRun puts a run's      *)
(* together (run/resolve.ts, run/secret-variables.ts), each handler one    *)
(* statement a step, a transaction being one.                              *)
(***************************************************************************)
EXTENDS Naturals

CONSTANTS
  Conn, Book, JobId, Env, Var,
  NoConn, NoEnv, NoBook, NoRow,
  InlineBook,   \* the playbooks that may be deleted by hand
  Declaration,  \* what secretVariables.set is called with
  JobInput,     \* what jobs.create and jobs.update are called with
  Writer,       \* calls of the handlers that check before they write
  Secrets       \* calls that resolve a run's secret variables

ASSUME RunSecretsAssumption ==
  /\ InlineBook \subseteq Book
  /\ NoConn \notin Conn /\ NoEnv \notin Env /\ NoBook \notin Book
  /\ NoRow \notin Declaration \cup JobInput \cup JobId
  \* (The input schema: no variables without a connection and an environment.)
  /\ \A d \in Declaration : d.vars # {} => d.conn # NoConn /\ d.env # NoEnv

VARIABLES
  conn,   \* infisical_connections: "there", "bare" (no project id) or "gone"
  book,   \* playbooks, with their declarations
  job,    \* jobs, with their own variables; NoRow before and after
  given,  \* job ids given out
  \* Each call of a handler that checks first.
  doing, check,
  \* Each resolution: the job's row or the input, its own variables, the playbook's
  \* settings, the variables, and what the run will read.
  progress, asked, jobOf, own, settings, merged, reads,
  \* History: something was written while it resolved.
  disturbed

rowVars  == <<conn, book, job, given>>
callVars == <<doing, check>>
readVars == <<progress, asked, jobOf, own, settings, merged, reads>>
secretsVars == <<rowVars, callVars, readVars, disturbed>>

JobRow == [book : Book \cup {NoBook}, conn : Conn \cup {NoConn}, env : Env \cup {NoEnv},
           own : SUBSET Var, extra : SUBSET Var]
BookRow == [conn : Conn \cup {NoConn}, env : Env \cup {NoEnv}, vars : SUBSET Var]

\* Variables, each with whose it is.
Merged == [Var -> {"no", "playbook", "own"}]
Reads == [conn : Conn, env : Env, vars : Merged]

\* The input schemas.
ASSUME RunSecretsInputs == Declaration \subseteq BookRow /\ JobInput \subseteq JobRow

HandlerCall == [op : {"none"}] \cup [op : {"save"}, job : JobId, input : JobRow]
         \cup [op : {"set"}, book : Book, input : BookRow]
         \cup [op : {"drop"}, conn : Conn]

RunSecretsTypeOK ==
  /\ conn \in [Conn -> {"there", "bare", "gone"}]
  /\ book \in [Book -> BookRow \cup {NoRow}] /\ job \in [JobId -> JobRow \cup {NoRow}]
  /\ given \subseteq JobId
  /\ doing \in [Writer -> HandlerCall]
  /\ check \in [Writer -> {"connection", "usable", "jobs", "playbooks", "write"}]
  /\ progress \in [Secrets -> {"free", "own", "playbook", "declared", "connection",
                             "resolved", "nothing", "refused"}]
  /\ asked \in [Secrets -> JobRow \cup {NoRow}] /\ jobOf \in [Secrets -> JobId \cup {NoRow}]
  /\ own \in [Secrets -> SUBSET Var]
  /\ settings \in [Secrets -> BookRow \cup {NoRow}]
  /\ merged \in [Secrets -> Merged] /\ reads \in [Secrets -> Reads \cup {NoRow}]
  /\ disturbed \in [Secrets -> BOOLEAN]

Bare(d) == [d EXCEPT !.conn = NoConn, !.env = NoEnv, !.vars = {}]

RunSecretsInit ==
  /\ conn \in [Conn -> {"there", "bare"}]
  /\ book \in [Book -> Declaration]
  /\ job = [j \in JobId |-> NoRow] /\ given = {}
  /\ doing = [w \in Writer |-> [op |-> "none"]] /\ check = [w \in Writer |-> "write"]
  /\ progress = [r \in Secrets |-> "free"]
  /\ asked = [r \in Secrets |-> NoRow] /\ jobOf = [r \in Secrets |-> NoRow]
  /\ own = [r \in Secrets |-> {}]
  /\ settings = [r \in Secrets |-> NoRow]
  /\ merged = [r \in Secrets |-> [v \in Var |-> "no"]]
  /\ reads = [r \in Secrets |-> NoRow]
  /\ disturbed = [r \in Secrets |-> FALSE]

----------------------------------------------------------------------------
(* Saving a job, declaring a playbook's variables, deleting a connection.  *)

Exists(c) == c = NoConn \/ conn[c] # "gone"

Begins(w, call, s) ==
  /\ doing[w].op = "none"
  /\ doing' = [doing EXCEPT ![w] = call] /\ check' = [check EXCEPT ![w] = s]
  /\ UNCHANGED rowVars

GoesTo(w, s) == check' = [check EXCEPT ![w] = s] /\ UNCHANGED <<doing, rowVars>>
Ends(w) ==
  doing' = [doing EXCEPT ![w] = [op |-> "none"]] /\ check' = [check EXCEPT ![w] = "write"]
Fails(w) == Ends(w) /\ UNCHANGED rowVars
At(w, op, s) == doing[w].op = op /\ check[w] = s

\* assertConnectionExists, of jobs.create, jobs.update and secretVariables.set.
CheckConnection(w) ==
  /\ At(w, "save", "connection") \/ At(w, "set", "connection")
  /\ IF Exists(doing[w].input.conn)
       THEN GoesTo(w, IF doing[w].op = "save" THEN "usable" ELSE "write")
       ELSE Fails(w)

\* assertSecretVariablesUsable: no extra var of the same name, and something to read
\* them through, the playbook's settings included.
Usable(i) ==
  LET b == IF i.book = NoBook THEN NoRow ELSE book[i.book] IN
  i.own # {} =>
    /\ i.own \cap i.extra = {}
    /\ i.conn # NoConn \/ (b # NoRow /\ b.conn # NoConn)
    /\ i.env # NoEnv \/ (b # NoRow /\ b.env # NoEnv)

CheckUsable(w) ==
  /\ At(w, "save", "usable")
  /\ IF Usable(doing[w].input) THEN GoesTo(w, "write") ELSE Fails(w)

\* The foreign keys of a job: its playbook and its connection.
References(i) == Exists(i.conn) /\ (i.book # NoBook => book[i.book] # NoRow)

\* Creating a job, or updating one that is still there.
SaveJobRow(w) ==
  LET j == doing[w].job IN
  /\ At(w, "save", "write")
  /\ IF References(doing[w].input) /\ (j \in given => job[j] # NoRow)
       THEN /\ job' = [job EXCEPT ![j] = doing[w].input]
            /\ given' = given \cup {j}
            /\ Ends(w) /\ UNCHANGED <<conn, book>>
       ELSE Fails(w)

\* mutant: a declaration without a connection keeps its environment and variables
MutDeclared(d, old) == [d EXCEPT !.vars = IF d.conn = NoConn THEN old.vars ELSE d.vars]
\* No connection clears the whole declaration.
Declared(d, old) == IF d.conn = NoConn THEN Bare(d) ELSE d

SetDeclaration(w) ==
  LET b == doing[w].book IN
  /\ At(w, "set", "write")
  /\ IF Exists(doing[w].input.conn) /\ book[b] # NoRow
       THEN /\ book' = [book EXCEPT ![b] = Declared(doing[w].input, book[b])]
            /\ Ends(w) /\ UNCHANGED <<conn, job, given>>
       ELSE Fails(w)

JobsUse(c) == \E j \in JobId : job[j] # NoRow /\ job[j].conn = c
BooksUse(c) == \E b \in Book : book[b] # NoRow /\ book[b].conn = c

CheckJobs(w) ==
  /\ At(w, "drop", "jobs")
  /\ IF JobsUse(doing[w].conn) THEN Fails(w) ELSE GoesTo(w, "playbooks")

CheckPlaybooks(w) ==
  /\ At(w, "drop", "playbooks")
  /\ IF BooksUse(doing[w].conn) THEN Fails(w) ELSE GoesTo(w, "write")

Gone(c) == conn' = [conn EXCEPT ![c] = "gone"]

\* mutant: ON DELETE SET NULL
MutOnDelete(w, c) ==
  /\ Gone(c) /\ Ends(w)
  /\ job' = [j \in JobId |-> IF job[j] # NoRow /\ job[j].conn = c
                             THEN [job[j] EXCEPT !.conn = NoConn] ELSE job[j]]
  /\ book' = [b \in Book |-> IF book[b] # NoRow /\ book[b].conn = c
                             THEN [book[b] EXCEPT !.conn = NoConn] ELSE book[b]]
  /\ UNCHANGED given
\* ON DELETE RESTRICT.
OnDelete(w, c) ==
  IF JobsUse(c) \/ BooksUse(c)
    THEN Fails(w)
    ELSE Gone(c) /\ Ends(w) /\ UNCHANGED <<book, job, given>>

DeleteConnection(w) == At(w, "drop", "write") /\ OnDelete(w, doing[w].conn)

\* Handlers of one statement.  (assertInline reads a column that never changes.)
UpdateConnection(c) ==
  conn[c] = "bare" /\ conn' = [conn EXCEPT ![c] = "there"] /\ UNCHANGED <<book, job, given>>

DeleteJob(j) ==
  job[j] # NoRow /\ job' = [job EXCEPT ![j] = NoRow] /\ UNCHANGED <<conn, book, given>>

DeletePlaybook(b) ==
  /\ b \in InlineBook /\ book[b] # NoRow
  /\ book' = [book EXCEPT ![b] = NoRow]
  /\ job' = [j \in JobId |-> IF job[j] # NoRow /\ job[j].book = b
                             THEN [job[j] EXCEPT !.book = NoBook] ELSE job[j]]
  /\ UNCHANGED <<conn, given>>

WriteStep ==
  \/ \E w \in Writer :
       \/ CheckConnection(w) \/ CheckUsable(w) \/ SaveJobRow(w) \/ SetDeclaration(w)
       \/ CheckJobs(w) \/ CheckPlaybooks(w) \/ DeleteConnection(w)
       \/ \E j \in JobId, i \in JobInput :
            Begins(w, [op |-> "save", job |-> j, input |-> i], "connection")
       \/ \E b \in Book, d \in Declaration :
            Begins(w, [op |-> "set", book |-> b, input |-> d], "connection")
       \/ \E c \in Conn : Begins(w, [op |-> "drop", conn |-> c], "jobs")
  \/ UNCHANGED callVars /\ \/ \E c \in Conn : UpdateConnection(c)
                           \/ \E j \in JobId : DeleteJob(j)
                           \/ \E b \in Book : DeletePlaybook(b)

----------------------------------------------------------------------------
(* Resolving a run.                                                        *)

Moves(r, s) == progress' = [progress EXCEPT ![r] = s]

\* The executor has read the job, and a run of the form has its input.
StartJob(r, j) ==
  /\ progress[r] = "free" /\ job[j] # NoRow
  /\ asked' = [asked EXCEPT ![r] = job[j]] /\ jobOf' = [jobOf EXCEPT ![r] = j]
  /\ Moves(r, IF job[j].book = NoBook THEN "refused" ELSE "own")
  /\ UNCHANGED <<own, settings, merged, reads>>

StartInput(r, i) ==
  /\ progress[r] = "free" /\ i.book # NoBook
  /\ asked' = [asked EXCEPT ![r] = i] /\ own' = [own EXCEPT ![r] = i.own]
  /\ Moves(r, "playbook")
  /\ UNCHANGED <<jobOf, settings, merged, reads>>

\* jobSecretVariables of the job, none if it has been deleted.
ReadOwn(r) ==
  LET j == jobOf[r] IN
  /\ progress[r] = "own"
  /\ own' = [own EXCEPT ![r] = IF job[j] = NoRow THEN {} ELSE job[j].own]
  /\ Moves(r, "playbook")
  /\ UNCHANGED <<asked, jobOf, settings, merged, reads>>

ReadSettings(r) ==
  LET b == book[asked[r].book] IN
  /\ progress[r] = "playbook"
  /\ settings' = [settings EXCEPT ![r] = b]
  /\ Moves(r, IF b = NoRow THEN "refused" ELSE "declared")
  /\ UNCHANGED <<asked, jobOf, own, merged, reads>>

\* mutant: the playbook's variables win
MutMerge(d, o) == [v \in Var |-> IF v \in d THEN "playbook" ELSE IF v \in o THEN "own" ELSE "no"]
\* mergeSecretVariables.
Merge(d, o) == [v \in Var |-> IF v \in o THEN "own" ELSE IF v \in d THEN "playbook" ELSE "no"]

Names(m) == {v \in Var : m[v] # "no"}

\* mutant: only the run's own variables are compared with its extra vars
MutCollides(m, i) == \E v \in i.extra : m[v] = "own"
Collides(m, i) == Names(m) \cap i.extra # {}

Chosen(r) == IF asked[r].conn # NoConn THEN asked[r].conn ELSE settings[r].conn
ChosenEnv(r) == IF asked[r].env # NoEnv THEN asked[r].env ELSE settings[r].env

ReadDeclared(r) ==
  LET b == book[asked[r].book]
      m == Merge(IF b = NoRow THEN {} ELSE b.vars, own[r])
  IN
  /\ progress[r] = "declared"
  /\ merged' = [merged EXCEPT ![r] = m]
  /\ Moves(r, IF Names(m) = {} /\ asked[r].conn = NoConn THEN "nothing"
               ELSE IF Collides(m, asked[r]) \/ Chosen(r) = NoConn THEN "refused"
               ELSE "connection")
  /\ UNCHANGED <<asked, jobOf, own, settings, reads>>

\* A connection the run names must exist even when there is nothing to read.
ReadConnection(r) ==
  LET c == Chosen(r) IN
  /\ progress[r] = "connection"
  /\ Moves(r, IF conn[c] = "gone" THEN "refused"
               ELSE IF Names(merged[r]) = {} THEN "nothing"
               ELSE IF ChosenEnv(r) = NoEnv \/ conn[c] = "bare" THEN "refused"
               ELSE "resolved")
  /\ reads' = [reads EXCEPT ![r] =
                 IF progress'[r] = "resolved"
                   THEN [conn |-> c, env |-> ChosenEnv(r), vars |-> merged[r]] ELSE @]
  /\ UNCHANGED <<asked, jobOf, own, settings, merged>>

ResolveSecrets(r) ==
  \/ ReadOwn(r) \/ ReadSettings(r) \/ ReadDeclared(r) \/ ReadConnection(r)
  \/ \E j \in JobId : StartJob(r, j)
  \/ \E i \in JobInput : StartInput(r, i)

RunSecretsNext ==
  \/ /\ WriteStep /\ UNCHANGED readVars
     /\ disturbed' = [r \in Secrets |->
                        disturbed[r] \/ (progress[r] # "free" /\ rowVars' # rowVars)]
  \/ \E r \in Secrets : ResolveSecrets(r) /\ UNCHANGED <<rowVars, callVars, disturbed>>

RunSecretsSpec == RunSecretsInit /\ [][RunSecretsNext]_secretsVars

----------------------------------------------------------------------------
(* Properties.                                                             *)

\* Whatever checks and writes overlap, no job or playbook is left with a connection that
\* is gone, and declared variables always have one and an environment to be read through
\* (playbooks/input.ts:25-26).
DeclarationsReadable ==
  /\ \A j \in JobId : job[j] # NoRow => Exists(job[j].conn)
  /\ \A b \in Book : book[b] # NoRow =>
       /\ Exists(book[b].conn)
       /\ book[b].vars # {} => book[b].conn # NoConn /\ book[b].env # NoEnv

\* A job never silently loses its credentials: while it exists, its connection only
\* changes when it is saved itself (db/src/schema/jobs.ts:48-49).
CredentialsKept ==
  [][\A j \in JobId :
       job[j] # NoRow /\ job'[j] # NoRow /\ job'[j].conn # job[j].conn =>
         \E w \in Writer : At(w, "save", "write") /\ doing[w].job = j]_secretsVars

\* No run goes ahead with an extra var that would replace one of its secrets, even if the
\* job or the playbook is edited while it resolves (resolve.ts:151-152).
NoSecretReplaced ==
  \A r \in Secrets : progress[r] = "resolved" => Names(reads[r].vars) \cap asked[r].extra = {}

\* Undisturbed, a run reads the variables of its playbook and its own, which win by name,
\* through its own connection and environment where it has them, else its playbook's.
OwnSettingsWin ==
  \A r \in Secrets :
    progress[r] = "resolved" /\ ~disturbed[r] =>
      LET i == asked[r]
          b == book[i.book]
          R == reads[r]
      IN
      /\ \A v \in Var : /\ (R.vars[v] = "own") <=> (v \in i.own)
                        /\ (R.vars[v] # "no") <=> (v \in i.own \cup b.vars)
      /\ R.conn \in {i.conn, b.conn} \ {NoConn} /\ (i.conn # NoConn => R.conn = i.conn)
      /\ R.env \in {i.env, b.env} \ {NoEnv} /\ (i.env # NoEnv => R.env = i.env)
      /\ conn[R.conn] = "there"

\* A run reads its secrets through a connection it was given, and all that it was given.
SecretsAreRight ==
  [](DeclarationsReadable /\ NoSecretReplaced /\ OwnSettingsWin) /\ CredentialsKept
=============================================================================
