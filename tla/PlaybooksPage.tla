---------------------------- MODULE PlaybooksPage ----------------------------
(***************************************************************************)
(* The playbooks page: the playbooks of the root, of each folder and of    *)
(* each repository, joined from three lists that are loaded and refreshed  *)
(* one by one; the dialogs that delete, move and sync; and the calls that  *)
(* they send, patched into a list before their answer, which meet those of *)
(* other pages and of the API in the backend.  Playbooks and sections only *)
(* go, except for files that a sync brings: what the forms add is in       *)
(* ResourceCache and EditForms.                                            *)
(***************************************************************************)
EXTENDS PageLists, Naturals, FiniteSets

CONSTANTS
  Inline,     \* playbooks that are written here
  RepoPath,       \* and those of repositories, by path
  Folder, Repo,
  MaxCalls,
  MaxElsewhere, \* bounds: of these, from elsewhere; and with fetches that fail and
  MaxSteps      \* returns of the window

ASSUME PlaybooksPageAssumption ==
  /\ MaxCalls \in Nat /\ MaxElsewhere \in Nat /\ MaxSteps \in Nat
  /\ Inline \cap (Repo \X RepoPath) = {} /\ Folder \cap Repo = {}
  /\ (Folder \cup Repo) \cap {"root", "there", "missing", "gone"} = {}

RepoFile == Repo \X RepoPath
Playbook == Inline \cup RepoFile
Call == 1 .. MaxCalls
Root == "root"
Absent == "gone"
Destination == Folder \cup {Root}
Place == Destination \cup {"there", "missing", Absent} \* of a file: in the commit or not
Query == {"playbooks", "folders", "repositories"}

VARIABLES
  stored, \* the rows of each table
  lists,  \* what the page has of each
  calls,
  dialog, \* the one that is open
  troubles

pageVars == <<stored, lists, calls, dialog, troubles>>

FilesOf(r) == {b \in RepoFile : b[1] = r}
PlacesOf(b) == IF b \in Inline THEN Destination \cup {Absent} ELSE {"there", "missing", Absent}

NoCall == [op |-> "none", what |-> Root, to |-> Root, by |-> "api", at |-> "new",
           told |-> FALSE, found |-> <<>>, picked |-> FALSE]
NoDialog == [op |-> "none", what |-> Root, from |-> Root, to |-> Root, picked |-> FALSE]

\* What can be asked of the backend.
Want(op, what, to) == [op |-> op, what |-> what, to |-> to]
Wants ==
  {Want("move", b, d) : b \in Playbook, d \in Destination}
    \cup {Want("delete", b, Root) : b \in Playbook}
    \cup {Want("deleteFolder", f, Root) : f \in Folder}
    \cup {Want(op, r, Root) : op \in {"deleteRepository", "sync"}, r \in Repo}

Rows == [playbooks : {p \in [Playbook -> Place] : \A b \in Playbook : p[b] \in PlacesOf(b)},
         folders : SUBSET Folder, repositories : SUBSET Repo]
RowsOfList == [q \in Query |-> {rows[q] : rows \in Rows}]

PlaybooksPageTypeOK ==
  /\ stored \in Rows
  /\ \A q \in Query : IsListOver(lists[q], RowsOfList[q])
  /\ \A c \in Call :
       /\ calls[c].at \in {"new", "sent", "inline", "ready", "written", "refused"}
       /\ calls[c].at = "new" \/ Want(calls[c].op, calls[c].what, calls[c].to) \in Wants
  /\ troubles \in 0 .. MaxSteps
  /\ dialog = NoDialog \/ Want(dialog.op, dialog.what, dialog.to) \in Wants

\* Bound: what is written here, and every repository, is there when the page opens.
PlaybooksPageInit ==
  /\ stored \in {rows \in Rows :
       rows.repositories = Repo /\ \A b \in Inline : rows.playbooks[b] \in rows.folders \cup {Root}}
  /\ lists = [q \in Query |-> Asked(Unread)]
  /\ calls = [c \in Call |-> NoCall] /\ dialog = NoDialog /\ troubles = 0

----------------------------------------------------------------------------
(* The page.                                                               *)

Loaded(q) == lists[q].rows[1]

MutPagePending == IsPending(lists["playbooks"]) \* mutant: the other lists may come later
PagePending == \E q \in Query : IsPending(lists[q])
PageError == \E q \in Query : IsError(lists[q])

\* A look at the page: inside a folder or at all of it, with the sections that are
\* collapsed, one kind of resource, and what is searched for matches.
Look(inside, collapsed, filter, search) ==
  [inside |-> inside, collapsed |-> collapsed, filter |-> filter, search |-> search]
Matching(look, x) == look.search = <<>> \/ x \in look.search[1]

InlineAt(look, d) == {b \in Inline : Loaded("playbooks")[b] = d /\ Matching(look, b)}
InRepository(look, r) == {b \in FilesOf(r) : Loaded("playbooks")[b] = "there" /\ Matching(look, b)}
Loose(look) ==
  IF look.inside # <<>> THEN InlineAt(look, look.inside[1])
  ELSE IF look.filter \in {"folders", "repositories"} THEN {} ELSE InlineAt(look, Root)

FolderGroups(look) ==
  {f \in Loaded("folders") :
    /\ look.inside = <<>> /\ look.filter \in {"all", "folders"}
    /\ InlineAt(look, f) # {} \/ Matching(look, f)}
RepositoryGroups(look) ==
  {r \in Loaded("repositories") :
    /\ look.inside = <<>> /\ look.filter \in {"all", "repositories"}
    /\ InRepository(look, r) # {} \/ Matching(look, r)}

\* A search shows its matches even inside collapsed sections.
MutIsCollapsed(look, s) == s \in look.collapsed \* mutant: the search is not asked
IsCollapsed(look, s) == look.search = <<>> /\ s \in look.collapsed

Visible(look) ==
  LET Open(groups) == {s \in groups : ~IsCollapsed(look, s)}
  IN Loose(look) \cup (UNION {InlineAt(look, f) : f \in Open(FolderGroups(look))})
       \cup (UNION {InRepository(look, r) : r \in Open(RepositoryGroups(look))})

PageCard(look) ==
  CardOf(PageError, PagePending,
         FolderGroups(look) = {} /\ RepositoryGroups(look) = {} /\ Loose(look) = {},
         look.search # <<>> \/ look.filter # "all")

\* The page as it opens.
Plain == Look(<<>>, {}, "all", <<>>)
CanBeUsed == ~PageError /\ ~PagePending /\ dialog = NoDialog

----------------------------------------------------------------------------
(* Calls.                                                                  *)

ListOf(op) ==
  CASE op \in {"move", "delete"} -> "playbooks"
    [] op = "deleteFolder" -> "folders"
    [] OTHER -> "repositories"

MutRefreshes(op) == {ListOf(op)} \* mutant: a folder's playbooks are not asked for again
Refreshes(op) == {ListOf(op)} \cup (IF op \in {"move", "delete"} THEN {} ELSE {"playbooks"})

\* The list before the answer; a sync leaves it.
Patch(k, rows) ==
  CASE k.op = "move" /\ rows[k.what] # Absent -> [rows EXCEPT ![k.what] = k.to]
    [] k.op = "delete" -> [rows EXCEPT ![k.what] = Absent]
    [] k.op \in {"deleteFolder", "deleteRepository"} -> rows \ {k.what}
    [] OTHER -> rows

\* Calls go out in the order of their numbers.
SentCalls == Cardinality({c \in Call : calls[c] # NoCall})
IsNext(c) ==
  /\ calls[c] = NoCall /\ \A d \in Call : d < c => calls[d] # NoCall
  /\ c + troubles <= MaxSteps

CallOf(k, by, found, picked) ==
  [op |-> k.op, what |-> k.what, to |-> k.to, by |-> by, at |-> "sent",
   told |-> FALSE, found |-> found, picked |-> picked]

\* onMutate.
Send(k, picked) ==
  LET q == ListOf(k.op)
  IN \E c \in Call :
       /\ IsNext(c)
       /\ calls' = [calls EXCEPT ![c] = CallOf(k, "page", lists[q].rows, picked)]
       /\ lists' = [lists EXCEPT ![q] = IF k.op = "sync" THEN Cancelled(@)
                                        ELSE PatchedList(@, Patch(k, @.rows[1]))]

\* A hook knows the last call that it sent.
OnTheWay(op) ==
  LET sent == {c \in Call : calls[c].by = "page" /\ calls[c].op = op}
  IN {c \in sent : ~calls[c].told /\ \A d \in sent : d <= c}
PendingOn(op, x) == \E c \in OnTheWay(op) : calls[c].what = x

----------------------------------------------------------------------------
(* Dialogs.                                                                *)

\* What is deleted is confirmed first; files have no such action.  Inside its folder a
\* playbook shows even when the list of folders lacks it.
WithActions == {b \in Inline : Loaded("playbooks")[b] # Absent}
AskDelete(op, x) ==
  /\ CanBeUsed /\ ~PendingOn(op, x)
  /\ \/ op = "delete" /\ x \in WithActions
     \/ op = "deleteFolder" /\ x \in FolderGroups(Plain)
     \/ op = "deleteRepository" /\ x \in RepositoryGroups(Plain)
  /\ dialog' = [NoDialog EXCEPT !.op = op, !.what = x]
  /\ UNCHANGED <<stored, lists, calls, troubles>>

Confirm ==
  /\ dialog.op \in {"delete", "deleteFolder", "deleteRepository"}
  /\ Send(Want(dialog.op, dialog.what, Root), FALSE)
  /\ dialog' = NoDialog /\ UNCHANGED <<stored, troubles>>

\* The dialog keeps the playbook as it was, and begins with its folder.
MutMoveBegins(b) == Root \* mutant: it begins as when the page was opened
MoveBegins(b) == Loaded("playbooks")[b]
OpenMove(b) ==
  /\ CanBeUsed /\ b \in WithActions
  /\ dialog' = [op |-> "move", what |-> b, from |-> Loaded("playbooks")[b],
                to |-> MoveBegins(b), picked |-> FALSE]
  /\ UNCHANGED <<stored, lists, calls, troubles>>

PickFolder(d) ==
  /\ dialog.op = "move" /\ OnTheWay("move") = {}
  /\ d = Root \/ (lists["folders"].rows # <<>> /\ d \in Loaded("folders"))
  /\ dialog' = [dialog EXCEPT !.to = d, !.picked = TRUE]
  /\ UNCHANGED <<stored, lists, calls, troubles>>

SubmitMove ==
  /\ dialog.op = "move" /\ OnTheWay("move") = {} /\ dialog.to # dialog.from
  /\ Send(Want("move", dialog.what, dialog.to), dialog.picked)
  /\ UNCHANGED <<stored, dialog, troubles>>

\* Also while the move is under way.
CloseDialog ==
  dialog # NoDialog /\ dialog' = NoDialog /\ UNCHANGED <<stored, lists, calls, troubles>>

SyncRepository(r) ==
  /\ CanBeUsed /\ r \in RepositoryGroups(Plain)
  /\ ~PendingOn("sync", r) /\ ~PendingOn("deleteRepository", r)
  /\ Send(Want("sync", r, Root), FALSE) /\ UNCHANGED <<stored, dialog, troubles>>

----------------------------------------------------------------------------
(* The backend.                                                            *)

CallElsewhere(k) ==
  \E c \in Call :
    /\ IsNext(c) /\ Cardinality({d \in Call : d < c /\ calls[d].by = "api"}) < MaxElsewhere
    /\ calls' = [calls EXCEPT ![c] = CallOf(k, "api", <<>>, FALSE)]
    /\ UNCHANGED <<stored, lists, dialog, troubles>>

Goes(c, s) == calls' = [calls EXCEPT ![c].at = s]
ByHand(c) == calls[c].op \in {"move", "delete"}
IsStored(b) == stored.playbooks[b] # Absent

MutMayTouch(b) == IsStored(b) \* mutant: files are moved like other playbooks
MayTouch(b) == IsStored(b) /\ b \in Inline
AssertInline(c) ==
  /\ calls[c].at = "sent" /\ ByHand(c)
  /\ Goes(c, IF ~MayTouch(calls[c].what) THEN "refused"
             ELSE IF calls[c].op = "move" THEN "inline" ELSE "ready")
  /\ UNCHANGED <<stored, lists, dialog, troubles>>

AssertFolderExists(c) ==
  /\ calls[c].at = "inline"
  /\ Goes(c, IF calls[c].to \in stored.folders \cup {Root} THEN "ready" ELSE "refused")
  /\ UNCHANGED <<stored, lists, dialog, troubles>>

\* A deleted folder leaves its playbooks in the root, a repository takes its files along;
\* of a sync, what RepositorySync may leave.
Synced(r) ==
  {p \in [Playbook -> Place] : \A b \in Playbook :
    IF b \notin FilesOf(r) THEN p[b] = stored.playbooks[b]
    ELSE p[b] \in {"there", Absent} \cup (IF IsStored(b) THEN {"missing"} ELSE {})}
Effects(k) ==
  CASE k.op = "move" /\ IsStored(k.what) /\ k.to \in stored.folders \cup {Root} ->
         {[stored EXCEPT !.playbooks[k.what] = k.to]}
    [] k.op = "delete" /\ IsStored(k.what) -> {[stored EXCEPT !.playbooks[k.what] = Absent]}
    [] k.op = "deleteFolder" /\ k.what \in stored.folders ->
         {[stored EXCEPT !.folders = @ \ {k.what},
                         !.playbooks = [b \in Playbook |-> IF @[b] = k.what THEN Root ELSE @[b]]]}
    [] k.op = "deleteRepository" /\ k.what \in stored.repositories ->
         {[stored EXCEPT !.repositories = @ \ {k.what},
                         !.playbooks =
                           [b \in Playbook |-> IF b \in FilesOf(k.what) THEN Absent ELSE @[b]]]}
    [] k.op = "sync" /\ k.what \in stored.repositories ->
         {[stored EXCEPT !.playbooks = p] : p \in Synced(k.what)}
    [] OTHER -> {}

\* The page learns of it when it is told.
Awaited(c) == calls[c].by = "page" /\ ~calls[c].told
WriteRows(c) ==
  /\ calls[c].at = "ready" \/ (calls[c].at = "sent" /\ ~ByHand(c))
  /\ stored' \in Effects(calls[c]) /\ Goes(c, "written")
  /\ lists' = [q \in Query |-> IF Awaited(c) \/ stored'[q] = stored[q] THEN lists[q]
                               ELSE Overtaken(lists[q])]
  /\ UNCHANGED <<dialog, troubles>>

\* There is no such row any more, or the database fails.
RefuseCall(c) ==
  /\ calls[c].at \in {"sent", "inline", "ready"} /\ Goes(c, "refused")
  /\ UNCHANGED <<stored, lists, dialog, troubles>>

----------------------------------------------------------------------------
(* Answers.                                                                *)

\* onSuccess or onError, then onSettled; an answer may be lost.  A move that ends well
\* closes the dialog, whichever playbook it is open for by now.
SettleCall(c, ok) ==
  LET k == calls[c]
      back == [lists EXCEPT ![ListOf(k.op)] = IF ok THEN @ ELSE RolledBack(@, k.found)]
  IN /\ Awaited(c) /\ (ok => k.at = "written")
     /\ calls' = [calls EXCEPT ![c].told = TRUE, ![c].found = <<>>]
     /\ lists' = [q \in Query |-> IF q \in Refreshes(k.op) THEN Refetched(back[q]) ELSE back[q]]
     /\ dialog' = IF ok /\ k.op = "move" /\ dialog.op = "move" THEN NoDialog ELSE dialog
     /\ UNCHANGED <<stored, troubles>>

\* A fetch; the window comes back to the front; and the button of the error.
FetchPage(q) ==
  /\ UNCHANGED <<stored, calls, dialog, troubles>>
  /\ \/ MayRead(lists[q]) /\ lists' = [lists EXCEPT ![q] = HasRead(@, stored[q])]
     \/ lists[q].answer # <<>> /\ lists' = [lists EXCEPT ![q] = Arrived(@)]

TroubleFetch(q) ==
  /\ SentCalls + troubles < MaxSteps /\ troubles' = troubles + 1
  /\ lists' = [lists EXCEPT ![q] = IF @.asked THEN FetchFailed(@) ELSE Asked(@)]
  /\ UNCHANGED <<stored, calls, dialog>>

RetryPage ==
  /\ PageError /\ lists' = [q \in Query |-> Refetched(lists[q])]
  /\ UNCHANGED <<stored, calls, dialog, troubles>>

PlaybooksPageNext ==
  \/ \E op \in {"delete", "deleteFolder", "deleteRepository"} :
       \E x \in Inline \cup Folder \cup Repo : AskDelete(op, x)
  \/ Confirm \/ SubmitMove \/ CloseDialog \/ RetryPage
  \/ \E b \in Inline : OpenMove(b)
  \/ \E d \in Destination : PickFolder(d)
  \/ \E r \in Repo : SyncRepository(r)
  \/ \E k \in Wants : CallElsewhere(k)
  \/ \E c \in Call :
       \/ AssertInline(c) \/ AssertFolderExists(c) \/ WriteRows(c) \/ RefuseCall(c)
       \/ \E ok \in BOOLEAN : SettleCall(c, ok)
  \/ \E q \in Query : FetchPage(q) \/ TroubleFetch(q)

PlaybooksPageSpec == PlaybooksPageInit /\ [][PlaybooksPageNext]_pageVars

----------------------------------------------------------------------------
(* Properties.                                                             *)

PageQuiet == (\A c \in Call : ~Awaited(c)) /\ \A q \in Query : UpToDate(lists[q])

\* Playbooks that are written here, or in the commit.
Present == {b \in Playbook : stored.playbooks[b] \notin {Absent, "missing"}}
Searches == {<<>>} \cup {<<{x}>> : x \in Playbook \cup Folder \cup Repo}
Looks == {Look(inside, collapsed, "all", search) :
            inside \in {<<>>} \cup {<<f>> : f \in Folder},
            collapsed \in {{}, Folder \cup Repo}, search \in Searches}

\* The one place where a playbook is.
SectionOf(b) == IF b \in RepoFile THEN b[1] ELSE stored.playbooks[b]

\* Once nothing is under way, and whichever lists were loaded when, the page shows of what
\* is stored every playbook that the search asks for, in its section only, and nothing else;
\* a collapsed section hides its playbooks only when nothing is searched for.
OverviewIsTrue ==
  PageQuiet => \A look \in Looks :
    Visible(look) =
      {b \in Present :
        /\ Matching(look, b)
        /\ look.inside # <<>> => SectionOf(b) = look.inside[1]
        /\ look.inside = <<>> /\ look.search = <<>> => SectionOf(b) \notin look.collapsed}

\* And it says that there is nothing only if so.
EmptyIsEmpty ==
  PageQuiet =>
    (PageCard(Plain) = "empty"
       <=> Present = {} /\ stored.folders = {} /\ stored.repositories = {})

\* The content is drawn only of lists that are there.
ContentIsThere ==
  ~PageError /\ ~PagePending => \A q \in Query : lists[q].rows # <<>>

\* A playbook is moved only to where the user has put it in this dialog.
MovesArePicked == \A c \in Call : calls[c].op = "move" /\ calls[c].by = "page" => calls[c].picked

\* Files come and go only by their repository.
FilesAreReadOnly ==
  [][\A b \in RepoFile : stored'.playbooks[b] # stored.playbooks[b] =>
       \E c \in Call : /\ calls[c].op \in {"sync", "deleteRepository"} /\ calls[c].what = b[1]
                       /\ calls[c].at = "sent" /\ calls'[c].at = "written"]_pageVars

\* What is shown of the playbooks, and done to them, is what is stored, and what was chosen
\* (playbooks-page.tsx:227-302).
PlaybooksPageIsTrue ==
  /\ [](PlaybooksPageTypeOK /\ OverviewIsTrue /\ EmptyIsEmpty /\ ContentIsThere /\ MovesArePicked)
  /\ FilesAreReadOnly
=============================================================================
