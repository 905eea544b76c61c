------------------------------ MODULE RunTargets ------------------------------
(***************************************************************************)
(* Where a run goes: the picker of groups and devices on the pages that    *)
(* run a playbook, a script or a command and on the form of a job, over    *)
(* lists that come, fail and change behind it, up to what is sent.         *)
(***************************************************************************)
EXTENDS FiniteSets, Integers

CONSTANTS
  Dev, Grp,
  Pending, Failed,  \* a list that has not come, or could not be read
  NoRun,
  MaxEdits          \* bound: edits of the inventory

\* The built-in group, which the web app adds to the stored ones.
AllGroup == "all"

VARIABLES
  page,
  inventory,  \* the stored devices, groups and memberships
  lists,      \* what the page has read of them
  picked,
  kept,       \* what the page starts from: its URL, or the row of the job
  goneBack,   \* history: picked by going back to another link
  dialog,     \* what the question whether to run is about
  running,    \* what the run on screen was sent with
  edits

targetVars == <<page, inventory, lists, picked, kept, goneBack, dialog, running, edits>>

Pick(G, D) == [groups |-> G, devices |-> D]
Nothing == Pick({}, {})
Picks == [groups : SUBSET (Grp \cup {AllGroup}), devices : SUBSET Dev]
Ids(p) == p.groups \cup p.devices

\* Ids are unique, whatever they are of, and a list is neither of its two other states.
ASSUME RunTargetsAssumption ==
  /\ Dev \cap Grp = {} /\ AllGroup \notin Dev \cup Grp
  /\ \A l \in (SUBSET Dev) \cup (SUBSET Grp) \cup SUBSET (Dev \X Grp) : l \notin {Pending, Failed}
  /\ Pending # Failed /\ (\A p \in Picks : p # NoRun) /\ MaxEdits \in Nat

RunTargetsTypeOK ==
  /\ page \in {"playbook", "script", "commands", "job"}
  /\ picked \in Picks /\ kept \in Picks /\ goneBack \subseteq Grp \cup Dev \cup {AllGroup}
  /\ inventory \in [devices : SUBSET Dev, groups : SUBSET Grp, members : SUBSET (Dev \X Grp)]
  /\ \A l \in DOMAIN lists : lists[l] \in {inventory[l], Pending, Failed} \/ edits > 0
  /\ {dialog, running} \subseteq Picks \cup {NoRun} /\ edits \in 0 .. MaxEdits

NothingRead == [devices |-> Pending, groups |-> Pending, members |-> Pending]

\* A link or a job may name what is no longer there.
RunTargetsInit ==
  /\ page \in {"playbook", "script", "commands", "job"}
  /\ inventory \in {[devices |-> Dev, groups |-> Grp, members |-> M] : M \in SUBSET (Dev \X Grp)}
  /\ kept \in IF page \in {"playbook", "job"} THEN {Pick(Grp, Dev), Pick({AllGroup}, {})} ELSE {Nothing}
  /\ picked = kept /\ lists = NothingRead
  /\ goneBack = {} /\ dialog = NoRun /\ running = NoRun /\ edits = 0

----------------------------------------------------------------------------
(* The inventory and the lists.                                            *)

EditInventory ==
  /\ edits < MaxEdits /\ edits' = edits + 1
  /\ \/ \E d \in inventory.devices :
          inventory' = [inventory EXCEPT !.devices = @ \ {d}, !.members = {m \in @ : m[1] # d}]
     \/ \E g \in inventory.groups :
          inventory' = [inventory EXCEPT !.groups = @ \ {g}, !.members = {m \in @ : m[2] # g}]
     \/ \E m \in inventory.devices \X inventory.groups :
          inventory' = [inventory EXCEPT !.members = IF m \in @ THEN @ \ {m} ELSE @ \cup {m}]
  /\ UNCHANGED <<page, lists, picked, kept, goneBack, dialog, running>>

Read(l) == IF l \in {Pending, Failed} THEN {} ELSE l
Listed(ls) == Read(ls.devices)
Offered(ls) == Read(ls.groups) \cup IF Listed(ls) # {} THEN {AllGroup} ELSE {}

\* Neither list is pending: one that failed counts as empty.
Ready(ls) == ls.devices # Pending /\ ls.groups # Pending

MutPruned(p, ls) == p \* mutant: what is gone stays picked
Pruned(p, ls) == Pick(p.groups \cap Offered(ls), p.devices \cap Listed(ls))

\* The page of a playbook drops what is not in its lists, and keeps its URL.
MutSynced(p, ls) == IF page = "playbook" /\ Ready(ls) THEN picked ELSE kept \* mutant: one change late
Synced(p, ls) == IF page = "playbook" /\ Ready(ls) THEN p ELSE kept

FetchList(l) ==
  /\ lists' \in {[lists EXCEPT ![l] = inventory[l]],
                 [lists EXCEPT ![l] = IF @ = Pending THEN Failed ELSE @]}
  /\ picked' = IF page = "playbook" /\ Ready(lists') THEN Pruned(picked, lists') ELSE picked
  /\ kept' = Synced(picked', lists')
  /\ UNCHANGED <<page, inventory, goneBack, dialog, running, edits>>

----------------------------------------------------------------------------
(* The user.  A dialog keeps from everything else; a run, from the picker. *)

Picking == dialog = NoRun /\ running = NoRun
Toggled(S, x) == IF x \in S THEN S \ {x} ELSE S \cup {x}

PickNow(p) ==
  /\ picked' = p /\ kept' = Synced(p, lists)
  /\ UNCHANGED <<page, inventory, lists, goneBack, dialog, running, edits>>

MutToggleGroup(g) == Pick(Toggled(picked.groups, g), {}) \* mutant: a group takes its devices along
ToggleGroup(g) == Pick(Toggled(picked.groups, g), picked.devices)

PickGroup(g) == Picking /\ g \in Offered(lists) /\ PickNow(ToggleGroup(g))

\* The listed devices that a picked group covers.
MutCovers(g) == {d \in Listed(lists) : <<d, g>> \in Read(lists.members)} \* mutant: not the All group
Covers(g) == {d \in Listed(lists) : g = AllGroup \/ <<d, g>> \in Read(lists.members)}
Covered == UNION {Covers(g) : g \in picked.groups \cap Offered(lists)}

\* A covered device is shown as picked, and its own pick stays as it is.
PickDevice(d) ==
  /\ Picking /\ d \in Listed(lists) \ Covered
  /\ PickNow(Pick(picked.groups, Toggled(picked.devices, d)))

ClearPicks ==
  /\ page \in {"commands", "job"} /\ Picking /\ picked # Nothing
  /\ PickNow(Nothing)

\* Back to another link of the page.  What it names is not checked until a list changes.
GoBack ==
  /\ page = "playbook"
  /\ picked' = Pick(Grp, Dev) /\ kept' = picked' /\ goneBack' = Ids(picked')
  /\ UNCHANGED <<page, inventory, lists, dialog, running, edits>>

Reload ==
  /\ lists' = NothingRead /\ picked' = kept
  /\ goneBack' = {} /\ dialog' = NoRun /\ running' = NoRun
  /\ UNCHANGED <<page, inventory, kept, edits>>

\* A job is saved as it is picked; a run is asked about.
SaveJobTargets ==
  /\ page = "job" /\ Picking /\ kept' = picked
  /\ UNCHANGED <<page, inventory, lists, picked, goneBack, dialog, running, edits>>

AskToRun ==
  /\ page # "job" /\ Picking /\ picked # Nothing /\ dialog' = picked
  /\ UNCHANGED <<page, inventory, lists, picked, kept, goneBack, running, edits>>

MutConfirmed == picked \* mutant: what is picked by now
Confirmed == dialog

ConfirmRun ==
  /\ dialog # NoRun /\ dialog' = NoRun /\ running' = Confirmed
  /\ UNCHANGED <<page, inventory, lists, picked, kept, goneBack, edits>>

DismissRun ==
  /\ dialog # NoRun /\ dialog' = NoRun
  /\ UNCHANGED <<page, inventory, lists, picked, kept, goneBack, running, edits>>

RunEnded ==
  /\ running # NoRun /\ running' = NoRun
  /\ UNCHANGED <<page, inventory, lists, picked, kept, goneBack, dialog, edits>>

RunTargetsNext ==
  \/ EditInventory \/ GoBack \/ Reload
  \/ \E l \in DOMAIN lists : FetchList(l)
  \/ \E g \in Grp \cup {AllGroup} : PickGroup(g)
  \/ \E d \in Dev : PickDevice(d)
  \/ ClearPicks \/ SaveJobTargets \/ AskToRun \/ ConfirmRun \/ DismissRun \/ RunEnded

RunTargetsSpec == RunTargetsInit /\ [][RunTargetsNext]_targetVars

----------------------------------------------------------------------------
(* Properties.                                                             *)

Current == lists = inventory
ShownPicked == Covered \cup (picked.devices \cap Listed(lists))

\* What resolveHosts makes of a selection.
ResolvedTo(p) ==
  p.devices \cup (IF AllGroup \in p.groups THEN inventory.devices ELSE {})
    \cup {d \in Dev : \E g \in p.groups : <<d, g>> \in inventory.members}

\* With lists that are current, the devices shown as picked are those the run would
\* resolve to, and those alone unless something picked is gone.
ShownAreResolved == Current => ShownPicked = ResolvedTo(picked) \cap inventory.devices

\* The page of a playbook shows everything that is picked, once it has its lists, and so
\* its dialog names it: but for what going back has brought.  The other pages send, and
\* count, devices that are gone and that they do not show.
NothingUnnamed ==
  page = "playbook" /\ Ready(lists) =>
    Ids(picked) \ goneBack \subseteq Offered(lists) \cup Listed(lists)

\* A run goes to what its dialog was opened with, whatever the lists do meanwhile.
SentAsAsked ==
  [][running' # running => running' = NoRun \/ (ConfirmRun /\ running' = dialog)]_targetVars

\* Its URL is its selection, so that a reload begins with the same one.
UrlIsSelection == page = "playbook" /\ Ready(lists) => kept = picked

\* A pick goes when its user takes it away, or the page of a playbook finds it neither in
\* its lists nor, for want of a list, anywhere (use-run-inventory-selection.ts:39-54).
PicksStay ==
  [][\A x \in Ids(picked) \ Ids(picked') :
       \/ (x \in Dev /\ PickDevice(x)) \/ (x \notin Dev /\ PickGroup(x))
       \/ ClearPicks \/ Reload \/ GoBack
       \/ page = "playbook" /\ Ready(lists') /\ x \notin Offered(lists') \cup Listed(lists')]_targetVars
=============================================================================
