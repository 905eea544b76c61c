--------------------------- MODULE RemoteBranches ---------------------------
(***************************************************************************)
(* The branch of a repository's form: the remote is asked for its branches *)
(* when its URL settles, and the branch chosen meanwhile follows the       *)
(* answer.  A remote stands for a URL with a credential.                   *)
(***************************************************************************)
EXTENDS FiniteSets

CONSTANTS
  Remote,
  Branch,
  NoList,
  NoRemote  \* no URL, or not one of a Git remote

Where == Remote \cup {NoRemote}

VARIABLES
  remoteHas,  \* the branches of each remote
  urlTyped,
  urlAsked,   \* the one typed 600 ms ago
  lists,      \* the cached answer for each remote, or NoList
  cannotList, \* remotes that could not be listed
  branch,
  savedAs     \* the edited repository, or NoRemote: its URL and branch

branchVars == <<remoteHas, urlTyped, urlAsked, lists, cannotList, branch, savedAs>>

RemoteBranchesTypeOK ==
  /\ remoteHas \in [Remote -> SUBSET Branch] /\ lists \in [Remote -> (SUBSET Branch) \cup {NoList}]
  /\ urlTyped \in Where /\ urlAsked \in Where /\ branch \in Branch
  /\ cannotList \subseteq Remote

MutSettledOn(t, a) == TRUE \* mutant: the remote asked before still counts
SettledOn(t, a) == t = a

\* What the form knows of the remote typed.
ListOf(t, a, ls) == IF a # NoRemote /\ SettledOn(t, a) THEN ls[a] ELSE NoList
Known == ListOf(urlTyped, urlAsked, lists)
Keeps(t) == savedAs.url # NoRemote /\ t = savedAs.url

RemoteBranchesInit ==
  /\ remoteHas \in [Remote -> SUBSET Branch]
  /\ savedAs \in [url : Where, name : Branch]
  /\ urlTyped = savedAs.url /\ urlAsked = savedAs.url /\ branch = savedAs.name
  /\ lists = [r \in Remote |-> NoList] /\ cannotList = {}

\* The effect: a list that comes, or a URL that is now the saved one or no longer is.
Follow ==
  LET known == ListOf(urlTyped', urlAsked', lists')
      keeps == Keeps(urlTyped')
  IN IF \/ known \in {NoList, {}}
        \/ known = Known /\ keeps = Keeps(urlTyped)
        \/ branch \in known
        \/ keeps /\ branch = savedAs.name
     THEN branch' = branch
     ELSE branch' \in known

MutOptions == Known \* mutant: a saved branch that is gone cannot be chosen
Options == IF Known # NoList /\ Keeps(urlTyped) THEN Known \cup {savedAs.name} ELSE Known

TypeUrl(u) ==
  /\ urlTyped' = u /\ UNCHANGED <<remoteHas, urlAsked, lists, cannotList, savedAs>>
  /\ Follow

Settles ==
  /\ urlAsked' = urlTyped /\ UNCHANGED <<remoteHas, urlTyped, lists, cannotList, savedAs>>
  /\ Follow

\* A fetch for the remote asked, then or when the answer is old; it is not retried.
ListBranches ==
  /\ urlAsked # NoRemote
  /\ \/ /\ lists' = [lists EXCEPT ![urlAsked] = remoteHas[urlAsked]]
        /\ cannotList' = cannotList \ {urlAsked}
     \/ cannotList' = cannotList \cup {urlAsked} /\ UNCHANGED lists
  /\ UNCHANGED <<remoteHas, urlTyped, urlAsked, savedAs>>
  /\ Follow

\* A select while there is a list, else a field that can be typed in once it is known that
\* there is none.
ChooseBranch(b) ==
  /\ IF Known \in {NoList, {}}
     THEN \/ Known = {} \/ urlAsked = NoRemote
          \/ SettledOn(urlTyped, urlAsked) /\ urlAsked \in cannotList
     ELSE b \in Options
  /\ branch' = b
  /\ UNCHANGED <<remoteHas, urlTyped, urlAsked, lists, cannotList, savedAs>>

PushElsewhere(r) ==
  /\ \E S \in SUBSET Branch : remoteHas' = [remoteHas EXCEPT ![r] = S]
  /\ UNCHANGED <<urlTyped, urlAsked, lists, cannotList, branch, savedAs>>

RemoteBranchesNext ==
  \/ \E u \in Where : TypeUrl(u)
  \/ Settles \/ ListBranches
  \/ \E b \in Branch : ChooseBranch(b)
  \/ \E r \in Remote : PushElsewhere(r)

RemoteBranchesSpec == RemoteBranchesInit /\ [][RemoteBranchesNext]_branchVars

----------------------------------------------------------------------------
(* Properties.                                                             *)

\* While the form shows a list of branches, the chosen one is in it.
BranchIsListed == Known \notin {NoList, {}} => branch \in Options

\* The form chooses another branch only when the list it got for the URL typed lacks the
\* chosen one, and never in place of the one saved for that URL.
ChoiceIsKept ==
  [][branch' # branch =>
       \/ \E b \in Branch : ChooseBranch(b)
       \/ /\ urlTyped' = urlAsked' /\ branch \notin lists'[urlAsked']
          /\ ~(Keeps(urlTyped') /\ branch = savedAs.name)]_branchVars
=============================================================================
