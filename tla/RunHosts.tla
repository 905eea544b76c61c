------------------------------ MODULE RunHosts ------------------------------
(***************************************************************************)
(* The inventory, and the hosts of a run: resolveHosts, resolveScript and  *)
(* resolveDevice of packages/api/src/v1/run/resolve.ts, statement by       *)
(* statement, against edits of devices, groups, memberships, credentials   *)
(* and scripts, and the inventory the ansible service then writes          *)
(* (services/ansible/materialize.py), which is keyed by device name.       *)
(***************************************************************************)
EXTENDS Naturals, FiniteSets

CONSTANTS
  Device, Group, Script,
  DeviceName,
  Key,            \* credentials
  NoKey,
  Resolution,     \* calls that resolve hosts
  MaxChanges      \* bound: edits of the inventory

ASSUME RunHostsAssumption ==
  /\ NoKey \notin Key
  /\ MaxChanges \in Nat

VARIABLES
  \* The rows: ids that exist, and their columns.
  device, nameOf, keyOf,
  group, reserved,  \* groups called "all", in any case
  member,           \* inventory_device_groups, without repetitions
  keys, scripts,
  used,             \* ids of devices and groups given out: none is given twice
  renaming,         \* groups whose update has passed the check of a reserved name
  \* Each resolution.
  ask,              \* what was asked for
  stage,            \* the next statement
  ids,              \* device ids gathered so far
  hosts,            \* rows of the last statement
  targets,          \* the hosts of the inventory written for ansible
  changes,
  \* History: the groups that had a reserved name from the beginning; the devices the
  \* selection of a resolution covered at some time, and at all times.
  legacy, ever, always

inventoryVars  == <<device, nameOf, keyOf, group, reserved, member, keys, scripts, used,
                    renaming, legacy>>
resolutionVars == <<ask, stage, ids, hosts, targets>>
runHostsVars == <<inventoryVars, resolutionVars, changes, ever, always>>

Ask == [kind : {"run", "script", "ping"}, script : Script, all : BOOLEAN,
        devices : SUBSET Device, groups : SUBSET Group]

Host == [device : Device, name : DeviceName, key : Key \cup {NoKey}]

RunHostsTypeOK ==
  /\ device \subseteq Device /\ group \subseteq Group /\ reserved \subseteq Group
  /\ nameOf \in [Device -> DeviceName] /\ keyOf \in [Device -> Key \cup {NoKey}]
  /\ member \subseteq device \X group
  /\ keys \subseteq Key /\ scripts \subseteq Script /\ renaming \subseteq Group
  /\ ask \in [Resolution -> Ask]
  /\ stage \in [Resolution -> {"free", "script", "groups", "all", "devices", "ok", "refused"}]
  /\ ids \in [Resolution -> SUBSET Device]
  /\ hosts \in [Resolution -> SUBSET Host] /\ targets \in [Resolution -> SUBSET Host]
  /\ changes \in 0 .. MaxChanges
  /\ used \subseteq Device \cup Group /\ legacy \subseteq Group
  /\ ever \in [Resolution -> SUBSET Device] /\ always \in [Resolution -> SUBSET Device]

\* Any inventory.  Some groups have kept a name that became reserved.
RunHostsInit ==
  /\ device \in SUBSET Device /\ group \in SUBSET Group /\ reserved \in SUBSET group
  /\ nameOf \in [Device -> DeviceName]
  /\ keyOf \in {k \in [Device -> Key \cup {NoKey}] : \A d \in Device \ device : k[d] = NoKey}
  /\ keys = Key /\ scripts = Script
  /\ member \in SUBSET (device \X group)
  /\ used = device \cup group /\ legacy = reserved
  /\ renaming = {}
  /\ ask \in [Resolution -> {a \in Ask : a.kind = "ping" => ~a.all /\ a.groups = {}
                                                            /\ Cardinality(a.devices) = 1}]
  /\ stage = [c \in Resolution |-> "free"]
  /\ ids = [c \in Resolution |-> {}]
  /\ hosts = [c \in Resolution |-> {}] /\ targets = [c \in Resolution |-> {}]
  /\ changes = 0
  /\ ever = [c \in Resolution |-> {}] /\ always = [c \in Resolution |-> Device]

----------------------------------------------------------------------------
(* The inventory's handlers.  Foreign keys: a membership goes with its     *)
(* device or group, a credential leaves NULL behind.                       *)

\* devices.create, or devices.update of one that is still there.
PutDevice(d, n, k) ==
  /\ d \in device \/ d \notin used
  /\ k \in keys \cup {NoKey}
  /\ device' = device \cup {d} /\ used' = used \cup {d}
  /\ nameOf' = [nameOf EXCEPT ![d] = n] /\ keyOf' = [keyOf EXCEPT ![d] = k]
  /\ UNCHANGED <<group, reserved, member, keys, scripts, renaming, legacy>>

DeleteDevice(d) ==
  /\ device' = device \ {d}
  /\ member' = {m \in member : m[1] # d}
  /\ UNCHANGED <<nameOf, keyOf, group, reserved, keys, scripts, used, renaming, legacy>>

CreateGroup(g) ==
  /\ g \notin used
  /\ group' = group \cup {g} /\ used' = used \cup {g}
  /\ UNCHANGED <<device, nameOf, keyOf, reserved, member, keys, scripts, renaming, legacy>>

RenameGroup(g) ==
  /\ g \in group
  /\ reserved' = reserved \ {g}
  /\ UNCHANGED <<device, nameOf, keyOf, group, member, keys, scripts, used, renaming, legacy>>

\* mutant: the reserved name is taken as it comes
MutKeepsReserved(g) == TRUE
KeepsReserved(g) == g \in reserved

\* groups.update with a reserved name first reads the group, then writes it.
CheckReserved(g) ==
  /\ g \in group \ renaming /\ KeepsReserved(g)
  /\ renaming' = renaming \cup {g}
  /\ UNCHANGED <<device, nameOf, keyOf, group, reserved, member, keys, scripts, used, legacy>>

WriteReserved(g) ==
  /\ g \in renaming
  /\ renaming' = renaming \ {g}
  /\ reserved' = IF g \in group THEN reserved \cup {g} ELSE reserved
  /\ UNCHANGED <<device, nameOf, keyOf, group, member, keys, scripts, used, legacy>>

DeleteGroup(g) ==
  /\ group' = group \ {g} /\ reserved' = reserved \ {g}
  /\ member' = {m \in member : m[2] # g}
  /\ UNCHANGED <<device, nameOf, keyOf, keys, scripts, used, renaming, legacy>>

Assign(d, g) ==
  /\ d \in device /\ g \in group
  /\ member' = member \cup {<<d, g>>}
  /\ UNCHANGED <<device, nameOf, keyOf, group, reserved, keys, scripts, used, renaming, legacy>>

Unassign(d, g) ==
  /\ member' = member \ {<<d, g>>}
  /\ UNCHANGED <<device, nameOf, keyOf, group, reserved, keys, scripts, used, renaming, legacy>>

DeleteCredential(k) ==
  /\ keys' = keys \ {k}
  /\ keyOf' = [d \in Device |-> IF keyOf[d] = k THEN NoKey ELSE keyOf[d]]
  /\ UNCHANGED <<device, nameOf, group, reserved, member, scripts, used, renaming, legacy>>

DeleteScript(s) ==
  /\ scripts' = scripts \ {s}
  /\ UNCHANGED <<device, nameOf, keyOf, group, reserved, member, keys, used, renaming, legacy>>

Edit ==
  \/ \E d \in Device : DeleteDevice(d)
  \/ \E d \in Device, n \in DeviceName, k \in Key \cup {NoKey} : PutDevice(d, n, k)
  \/ \E g \in Group : CreateGroup(g) \/ RenameGroup(g) \/ CheckReserved(g) \/ DeleteGroup(g)
  \/ \E d \in Device, g \in Group : Assign(d, g) \/ Unassign(d, g)
  \/ \E k \in Key : DeleteCredential(k)
  \/ \E s \in Script : DeleteScript(s)

----------------------------------------------------------------------------
(* A resolution, one statement a step.                                     *)

Stage(c, s) == stage' = [stage EXCEPT ![c] = s]

StartResolution(c) ==
  /\ stage[c] = "free"
  /\ Stage(c, CASE ask[c].kind = "script" -> "script"
                [] ask[c].kind = "ping" -> "devices"
                [] OTHER -> "groups")
  /\ ids' = [ids EXCEPT ![c] = ask[c].devices]
  /\ UNCHANGED <<hosts, targets>>

ReadScript(c) ==
  /\ stage[c] = "script"
  /\ Stage(c, IF ask[c].script \in scripts THEN "groups" ELSE "refused")
  /\ UNCHANGED <<ids, hosts, targets>>

\* mutant: a selected group stands for itself only
MutMembers(G) == {}
Members(G) == {d \in Device : \E g \in G : <<d, g>> \in member}

ReadGroups(c) ==
  /\ stage[c] = "groups"
  /\ ids' = [ids EXCEPT ![c] = @ \cup Members(ask[c].groups)]
  /\ Stage(c, "all")
  /\ UNCHANGED <<hosts, targets>>

\* The built-in All group: every device right now.
ReadAll(c) ==
  /\ stage[c] = "all"
  /\ LET found == ids[c] \cup (IF ask[c].all THEN device ELSE {}) IN
       /\ ids' = [ids EXCEPT ![c] = found]
       /\ Stage(c, IF found = {} THEN "refused" ELSE "devices")
  /\ UNCHANGED <<hosts, targets>>

\* mutant: devices without a credential are left out of the run
MutRefuses(c) == ~(ids[c] \subseteq device)
Refuses(c) == ids[c] \subseteq device => \E d \in ids[c] : keyOf[d] = NoKey

RowsOf(D) == {[device |-> d, name |-> nameOf[d], key |-> keyOf[d]] : d \in D}

\* mutant: the first key written under a name is kept
MutKeyFile(H, h) == (CHOOSE x \in H : x.name = h.name).key
KeyFile(H, h) == h.key

\* Rows come in any order, and of two devices of one name the last one is kept.
Written(H) ==
  {T \in SUBSET H : \A h \in H : Cardinality({t \in T : t.name = h.name}) = 1}

ReadDevices(c) ==
  /\ stage[c] = "devices"
  /\ IF Refuses(c)
       THEN Stage(c, "refused") /\ UNCHANGED <<hosts, targets>>
       ELSE LET H == RowsOf({d \in ids[c] \cap device : keyOf[d] # NoKey}) IN
            /\ hosts' = [hosts EXCEPT ![c] = H]
            /\ \E T \in Written(H) :
                 targets' = [targets EXCEPT ![c] =
                               {[h EXCEPT !.key = KeyFile(H, h)] : h \in T}]
            /\ Stage(c, "ok")
  /\ UNCHANGED ids

ResolveHosts(c) ==
  StartResolution(c) \/ ReadScript(c) \/ ReadGroups(c) \/ ReadAll(c) \/ ReadDevices(c)

----------------------------------------------------------------------------

\* The devices a selection covers.
Selected(a) ==
  a.devices \cup (IF a.all THEN device ELSE {})
    \cup {d \in Device : \E g \in a.groups : <<d, g>> \in member}

UnderWay(c) == stage[c] \in {"script", "groups", "all", "devices"}

\* What the histories gather, from the start of a resolution.
Track ==
  LET cover(c) == Selected(ask[c]) IN
  /\ ever' = [c \in Resolution |-> IF UnderWay(c)' THEN ever[c] \cup cover(c)' ELSE ever[c]]
  /\ always' = [c \in Resolution |->
                  IF UnderWay(c)' THEN always[c] \cap cover(c)' ELSE always[c]]

RunHostsNext ==
  /\ \/ /\ Edit /\ changes < MaxChanges /\ changes' = changes + 1
        /\ UNCHANGED resolutionVars
     \/ /\ \E g \in Group : WriteReserved(g)
        /\ UNCHANGED <<resolutionVars, changes>>
     \/ /\ \E c \in Resolution : ResolveHosts(c)
        /\ UNCHANGED <<inventoryVars, changes, ask>>
  /\ Track

RunHostsSpec == RunHostsInit /\ [][RunHostsNext]_runHostsVars

----------------------------------------------------------------------------
(* Properties.                                                             *)

DevicesOf(H) == {h.device : h \in H}

\* A run leaves out no device its selection covered from beginning to end, and takes
\* in none that it never covered, whatever is edited between the statements
\* (resolve.ts:361-367).
HostsWereSelected ==
  \A c \in Resolution :
    stage[c] = "ok" =>
      always[c] \subseteq DevicesOf(hosts[c]) /\ DevicesOf(hosts[c]) \subseteq ever[c]

\* Undisturbed, a selection resolves to its devices, and is refused if it is empty, or
\* one of them does not exist or has no credential (resolve.ts:361-367; a script that
\* is gone is another reason).
SteadyResolution ==
  \A c \in Resolution :
    LET chosen == Selected(ask[c]) IN
    stage[c] \in {"ok", "refused"} /\ changes = 0 =>
      /\ stage[c] = "ok" <=>
           chosen # {} /\ chosen \subseteq device /\ \A d \in chosen : keyOf[d] # NoKey
      /\ stage[c] = "ok" => DevicesOf(hosts[c]) = chosen

\* Ansible contacts each target with the key of that very device; when no two hosts
\* share a name, every host of the run is a target.
TargetsHaveOwnKeys ==
  \A c \in Resolution :
    stage[c] = "ok" =>
      /\ targets[c] \subseteq hosts[c]
      /\ (\A h, i \in hosts[c] : h.name = i.name => h = i) => targets[c] = hosts[c]

\* No group takes a reserved name it had not had from the beginning, however updates of
\* one group overlap (inventory/input.ts:40-41).
ReservedNamesOnlyKept == reserved \subseteq legacy

\* A run contacts what was selected, with the keys that belong there, by names that mean
\* what they say.
HostsAreRight ==
  HostsWereSelected /\ SteadyResolution /\ TargetsHaveOwnKeys /\ ReservedNamesOnlyKept
=============================================================================
