---------------------------- MODULE InventoryPage ----------------------------
(***************************************************************************)
(* The page of devices and groups: each with its memberships, joined from  *)
(* three lists, and the dialog that changes the memberships of one of      *)
(* them, which has a list of its own.  Calls of the page and of others     *)
(* meet in the backend, where a membership is a row with no key but its    *)
(* id.  Devices and groups only go: what the forms add is in ResourceCache *)
(* and EditForms.                                                          *)
(***************************************************************************)
EXTENDS PageLists, Naturals, FiniteSets

CONSTANTS
  Device, Group,
  Opened,       \* bound: the devices and groups whose dialog is opened
  MaxCalls,
  MaxElsewhere, \* bounds: of these, from elsewhere; and with fetches that fail and
  MaxSteps      \* returns of the window

Call == 1 .. MaxCalls
Pair == Device \X Group
Lists == {"devices", "groups", "deviceGroups"}
NoOne == "none"

ASSUME InventoryPageAssumption ==
  /\ MaxCalls \in Nat /\ MaxElsewhere \in Nat /\ MaxSteps \in Nat
  /\ Device \cap Group = {} /\ Opened \subseteq Device \cup Group
  /\ Opened \cap (Lists \cup {NoOne}) = {}

VARIABLES
  stored, \* the rows of each table; of memberships, how many of each pair
  lists,  \* what the page has of each, and of the memberships of each that is opened
  old,  \* of these lists, those to be asked for when the dialog opens
  calls,
  dialog, \* the one that is open
  troubles

inventoryVars == <<stored, lists, old, calls, dialog, troubles>>

Wants ==
  {[op |-> "deleteDevice", what |-> d] : d \in Device}
    \cup {[op |-> "deleteGroup", what |-> g] : g \in Group}
    \cup {[op |-> op, what |-> p] : op \in {"assign", "unassign"}, p \in Pair}

NoCall == [op |-> "none", what |-> <<>>, by |-> "api", at |-> "new", told |-> FALSE, found |-> <<>>,
           knew |-> FALSE]
NoDialog == [op |-> "none", what |-> NoOne, mutates |-> 0] \* 0: no call

Tables == [devices : SUBSET Device, groups : SUBSET Group, deviceGroups : [Pair -> Nat]]
RowsFor(q) ==
  CASE q = "devices" -> SUBSET Device
    [] q = "groups" -> SUBSET Group
    [] OTHER -> [Pair -> Nat]

CallRow == [op : {"deleteDevice", "deleteGroup", "assign", "unassign"},
            what : Device \cup Group \cup Pair, by : {"page", "api"},
            at : {"sent", "written", "refused"}, told : BOOLEAN,
            found : {<<>>} \cup {<<r>> : r \in (SUBSET Device) \cup (SUBSET Group)}, knew : BOOLEAN]

InventoryPageTypeOK ==
  /\ stored \in Tables /\ old \subseteq Opened /\ troubles \in 0 .. MaxSteps
  /\ DOMAIN lists = Lists \cup Opened
  /\ \A q \in Lists \cup Opened : IsListOver(lists[q], RowsFor(q))
  /\ calls \in [Call -> CallRow \cup {NoCall}]
  /\ \A c \in Call : calls[c] = NoCall \/ [op |-> calls[c].op, what |-> calls[c].what] \in Wants
  /\ dialog \in [op : {"none", "relations", "deleteDevice", "deleteGroup"},
                 what : Device \cup Group \cup {NoOne}, mutates : 0 .. MaxCalls]

\* Bound: every device and group is there when the page opens, and no pair has two rows.
InventoryPageInit ==
  /\ stored \in [devices : {Device}, groups : {Group}, deviceGroups : [Pair -> {0, 1}]]
  /\ lists = [q \in Lists \cup Opened |-> IF q \in Lists THEN Asked(Unread) ELSE Unread]
  /\ old = {} /\ calls = [c \in Call |-> NoCall] /\ dialog = NoDialog /\ troubles = 0

----------------------------------------------------------------------------
(* The page.                                                               *)

\* Without an answer, or with a failed one, a list is empty for the others.
Loaded(q, default) == IF lists[q].rows = <<>> THEN default ELSE lists[q].rows[1]
Devices == Loaded("devices", {})
Groups == Loaded("groups", {})
Relation(p) == Loaded("deviceGroups", [q \in Pair |-> 0])[p] > 0

\* A membership of which either end is not there is left out.
MutMember(d, g) == Relation(<<d, g>>) \* mutant: of any group
Member(d, g) == d \in Devices /\ g \in Groups /\ Relation(<<d, g>>)

GroupsByDevice(d) == {g \in Group : Member(d, g)}
DevicesByGroup(g) == {d \in Device : Member(d, g)}
AllGroup == Devices

\* Searched for is what a card shows: also the names of its groups.
FilteredDevices(search) ==
  {d \in Devices : search = <<>> \/ d = search[1] \/ search[1] \in GroupsByDevice(d)}

Ready(q) == ~IsError(lists[q]) /\ ~IsPending(lists[q])
DevicesCard(search) ==
  CardOf(IsError(lists["devices"]), IsPending(lists["devices"]),
         FilteredDevices(search) = {}, search # <<>>)

\* The dialog of a device or a group: what it has, of those that the page knows.
Options == IF dialog.what \in Device THEN Groups ELSE Devices
PairWith(x) == IF dialog.what \in Device THEN <<dialog.what, x>> ELSE <<x, dialog.what>>
Selected(x) == lists[dialog.what].rows[1][PairWith(x)] > 0

----------------------------------------------------------------------------
(* Calls.                                                                  *)

SentCalls == Cardinality({c \in Call : calls[c] # NoCall})
IsNext(c) ==
  /\ calls[c] = NoCall /\ \A d \in Call : d < c => calls[d] # NoCall
  /\ c + troubles <= MaxSteps
CallOf(k, by, found, knew) ==
  [op |-> k.op, what |-> k.what, by |-> by, at |-> "sent",
   told |-> FALSE, found |-> found, knew |-> knew]

IsDelete(k) == k.op \in {"deleteDevice", "deleteGroup"}
ListOf(k) == IF k.op = "deleteDevice" THEN "devices" ELSE "groups"

\* The hook of a delete knows the last call that it sent.
PendingOn(k) ==
  LET sent == {c \in Call : calls[c].by = "page" /\ calls[c].op = k.op}
  IN \E c \in sent : calls[c].what = k.what /\ ~calls[c].told /\ \A d \in sent : d <= c

AskDelete(k) ==
  /\ dialog = NoDialog /\ IsDelete(k) /\ Ready(ListOf(k)) /\ ~PendingOn(k)
  /\ k.what \in lists[ListOf(k)].rows[1]
  /\ dialog' = [NoDialog EXCEPT !.op = k.op, !.what = k.what]
  /\ UNCHANGED <<stored, lists, old, calls, troubles>>

Confirm ==
  LET k == [op |-> dialog.op, what |-> dialog.what]
  IN /\ IsDelete(dialog) /\ dialog' = NoDialog
     /\ \E c \in Call :
          /\ IsNext(c)
          /\ calls' = [calls EXCEPT ![c] = CallOf(k, "page", lists[ListOf(k)].rows, FALSE)]
     /\ lists' = [lists EXCEPT ![ListOf(k)] = PatchedList(@, @.rows[1] \ {k.what})]
     /\ UNCHANGED <<stored, old, troubles>>

\* The dialog's list is asked for if it is none or old, or a minute has passed.
OpenRelations(x) ==
  /\ dialog = NoDialog /\ x \in Opened
  /\ \/ x \in Device /\ Ready("devices") /\ x \in Devices
     \/ x \in Group /\ Ready("groups") /\ x \in Groups
  /\ dialog' = [NoDialog EXCEPT !.op = "relations", !.what = x]
  /\ \/ lists' = [lists EXCEPT ![x] = Asked(@)] /\ old' = old \ {x}
     \/ lists[x].rows # <<>> /\ x \notin old /\ UNCHANGED <<lists, old>>
  /\ UNCHANGED <<stored, calls, troubles>>

\* Also while a call is under way; a fetch is given up.
CloseDialog ==
  /\ dialog # NoDialog /\ dialog' = NoDialog
  /\ IF dialog.op = "relations"
     THEN /\ lists' = [lists EXCEPT ![dialog.what] = Cancelled(@)]
          /\ old' = IF lists[dialog.what].asked THEN old \cup {dialog.what} ELSE old
     ELSE UNCHANGED <<lists, old>>
  /\ UNCHANGED <<stored, calls, troubles>>

\* History: the dialog shows what is stored of the pair, and no call is about to change it.
Awaited(c) == calls[c].by = "page" /\ ~calls[c].told
Knows(p) ==
  /\ UpToDate(lists[dialog.what])
  /\ \A c \in Call : calls[c].what = p => calls[c].at # "sent" /\ ~Awaited(c)

\* One at a time in this dialog: it knows nothing of a call that the last one has sent.
Toggle(x) ==
  LET k == [op |-> IF Selected(x) THEN "unassign" ELSE "assign", what |-> PairWith(x)]
  IN /\ dialog.op = "relations" /\ dialog.mutates = 0
     /\ Ready(dialog.what) /\ x \in Options
     /\ \E c \in Call :
          /\ IsNext(c) /\ calls' = [calls EXCEPT ![c] = CallOf(k, "page", <<>>, Knows(k.what))]
          /\ dialog' = [dialog EXCEPT !.mutates = c]
     /\ UNCHANGED <<stored, lists, old, troubles>>

CallElsewhere(k) ==
  \E c \in Call :
    /\ IsNext(c) /\ Cardinality({d \in Call : d < c /\ calls[d].by = "api"}) < MaxElsewhere
    /\ calls' = [calls EXCEPT ![c] = CallOf(k, "api", <<>>, FALSE)]
    /\ UNCHANGED <<stored, lists, old, dialog, troubles>>

----------------------------------------------------------------------------
(* The backend: one statement for each call.                               *)

\* A delete takes the memberships along; assigning twice makes two rows, and unassigning
\* deletes both.
Effects(k) ==
  CASE k.op = "deleteDevice" /\ k.what \in stored.devices ->
         {[stored EXCEPT !.devices = @ \ {k.what},
                         !.deviceGroups = [p \in Pair |-> IF p[1] = k.what THEN 0 ELSE @[p]]]}
    [] k.op = "deleteGroup" /\ k.what \in stored.groups ->
         {[stored EXCEPT !.groups = @ \ {k.what},
                         !.deviceGroups = [p \in Pair |-> IF p[2] = k.what THEN 0 ELSE @[p]]]}
    [] k.op = "assign" /\ k.what[1] \in stored.devices /\ k.what[2] \in stored.groups ->
         {[stored EXCEPT !.deviceGroups[k.what] = @ + 1]}
    [] k.op = "unassign" /\ stored.deviceGroups[k.what] > 0 ->
         {[stored EXCEPT !.deviceGroups[k.what] = 0]}
    [] OTHER -> {}

TableOf(q) == IF q \in Opened THEN "deviceGroups" ELSE q
RowsOf(q, tables) ==
  IF q \in Lists THEN tables[q]
  ELSE [p \in Pair |-> IF q \in {p[1], p[2]} THEN tables.deviceGroups[p] ELSE 0]

\* The page learns of its own when it is told.
WriteRows(c) ==
  /\ calls[c].at = "sent" /\ stored' \in Effects(calls[c])
  /\ calls' = [calls EXCEPT ![c].at = "written"]
  /\ lists' = [q \in DOMAIN lists |->
       IF Awaited(c) \/ stored'[TableOf(q)] = stored[TableOf(q)] THEN lists[q]
       ELSE Overtaken(lists[q])]
  /\ UNCHANGED <<old, dialog, troubles>>

\* There is no such row, or the database fails.
RefuseCall(c) ==
  /\ calls[c].at = "sent" /\ calls' = [calls EXCEPT ![c].at = "refused"]
  /\ UNCHANGED <<stored, lists, old, dialog, troubles>>

----------------------------------------------------------------------------
(* Answers.                                                                *)

\* A list that no page uses is only marked as old.
InUse(q) == q \in Lists \/ (dialog.op = "relations" /\ dialog.what = q)

\* mutant: not the dialogs
MutRefreshes(k, ok) ==
  IF IsDelete(k) THEN {ListOf(k)} ELSE IF ok THEN {"deviceGroups"} ELSE {}
\* A delete refreshes its list, whatever it came to; a change of membership what shows it,
\* if it went well.
Refreshes(k, ok) ==
  IF IsDelete(k) THEN {ListOf(k)}
  ELSE IF ok THEN {"deviceGroups"} \cup (Opened \cap {k.what[1], k.what[2]}) ELSE {}

SettleCall(c, ok) ==
  LET k == calls[c]
      back == IF IsDelete(k) /\ ~ok THEN [lists EXCEPT ![ListOf(k)] = RolledBack(@, k.found)]
              ELSE lists
      unseen == IF ~ok /\ k.at = "written" THEN Refreshes(k, TRUE) \ Refreshes(k, FALSE) ELSE {}
  IN /\ Awaited(c) /\ (ok => k.at = "written")
     /\ calls' = [calls EXCEPT ![c].told = TRUE, ![c].found = <<>>]
     /\ lists' = [q \in DOMAIN lists |->
          IF q \in Refreshes(k, ok) /\ InUse(q) THEN Refetched(back[q])
          ELSE IF q \in unseen THEN Overtaken(back[q]) ELSE back[q]]
     /\ old' = old \cup {q \in Refreshes(k, ok) : ~InUse(q)}
     /\ dialog' = IF dialog.mutates = c THEN [dialog EXCEPT !.mutates = 0] ELSE dialog
     /\ UNCHANGED <<stored, troubles>>

FetchPage(q) ==
  /\ UNCHANGED <<stored, old, calls, dialog, troubles>>
  /\ \/ MayRead(lists[q]) /\ lists' = [lists EXCEPT ![q] = HasRead(@, RowsOf(q, stored))]
     \/ lists[q].answer # <<>> /\ lists' = [lists EXCEPT ![q] = Arrived(@)]

\* A fetch fails, or one begins because the window is back or the user tries again.
TroubleFetch(q) ==
  /\ SentCalls + troubles < MaxSteps /\ troubles' = troubles + 1 /\ InUse(q)
  /\ lists' = [lists EXCEPT ![q] = IF @.asked THEN FetchFailed(@) ELSE Asked(@)]
  /\ UNCHANGED <<stored, old, calls, dialog>>

InventoryPageNext ==
  \/ Confirm \/ CloseDialog
  \/ \E x \in Device \cup Group : OpenRelations(x) \/ Toggle(x)
  \/ \E k \in Wants : AskDelete(k) \/ CallElsewhere(k)
  \/ \E c \in Call :
       \/ WriteRows(c) \/ RefuseCall(c)
       \/ \E ok \in BOOLEAN : SettleCall(c, ok)
  \/ \E q \in DOMAIN lists : FetchPage(q) \/ TroubleFetch(q)

InventoryPageSpec == InventoryPageInit /\ [][InventoryPageNext]_inventoryVars

----------------------------------------------------------------------------
(* Properties.                                                             *)

InventoryQuiet ==
  /\ \A c \in Call : ~Awaited(c)
  /\ \A q \in Lists : UpToDate(lists[q])

\* Once nothing is under way, and whichever lists were loaded when, each device is shown with
\* the groups that it is stored in and each group with its devices, though a delete asks
\* only for one list again; a search for a group finds its devices.
MembershipsAreTrue ==
  InventoryQuiet =>
    /\ Devices = stored.devices /\ Groups = stored.groups /\ AllGroup = stored.devices
    /\ \A d \in Device : GroupsByDevice(d) = {g \in Group : stored.deviceGroups[<<d, g>>] > 0}
    /\ \A g \in Group :
         /\ DevicesByGroup(g) = {d \in Device : stored.deviceGroups[<<d, g>>] > 0}
         /\ DevicesCard(<<g>>) = "no results" <=> DevicesByGroup(g) = {}
         /\ FilteredDevices(<<g>>) = DevicesByGroup(g)

\* The dialog of what is still there marks what is stored, also when it is opened again, or
\* for the other end, and after a delete.
DialogIsTrue ==
  dialog.op = "relations" /\ dialog.what \in stored.devices \cup stored.groups
    /\ InventoryQuiet /\ UpToDate(lists[dialog.what]) =>
    \A x \in Options : Selected(x) <=> stored.deviceGroups[PairWith(x)] > 0

\* A pair has two rows only if someone has added one who could not know of the other: the
\* dialog was toggled before its list came again, or somebody else did it
\* (relations-dialog.tsx:96-103).
RowsAreOnce ==
  \A p \in Pair : stored.deviceGroups[p] > 1 =>
    \E c \in Call : calls[c].op = "assign" /\ calls[c].what = p /\ ~calls[c].knew

\* What is shown of the inventory, and done to it, is what is stored.
InventoryPageIsTrue == InventoryPageTypeOK /\ MembershipsAreTrue /\ DialogIsTrue /\ RowsAreOnce
=============================================================================
