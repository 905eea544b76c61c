---------------------------- MODULE RecordsProofs ----------------------------
(***************************************************************************)
(* Proofs about what a run is made of, for every inventory, set of         *)
(* declarations, and number of calls and edits, and about the page where   *)
(* its playbook is.                                                        *)
(*                                                                         *)
(* The hosts of a run.  HostsInv follows the statements of a resolution:   *)
(* what it has gathered was covered by its selection at some time, and     *)
(* what the selection covered at all times is gathered, but for the rows   *)
(* that the next statements read.  While nothing is edited, it has         *)
(* gathered exactly what the selection covers.                             *)
(*                                                                         *)
(* The secret variables of a run.  RowsReadable is inductive thanks to the *)
(* foreign keys, whatever the handlers had checked before they write.      *)
(* SecretsInv adds what a resolution knows at each statement, and, while   *)
(* nothing is written, that it is what the rows say.                       *)
(*                                                                         *)
(* The playbooks page, for any playbooks, folders, repositories and calls. *)
(* PlaybooksPageInv says that a list, and an answer on its way, is what is *)
(* stored unless the page waits for a call that changes it, and that every *)
(* playbook that is stored is in a section that is.  What a dialog asks    *)
(* for, and each call, is of its kind.                                     *)
(*                                                                         *)
(* A playbook and its roles, for any files, folders and roles.  RolesInv   *)
(* says how far the discovery has come down the imports, what the form was *)
(* made of, and that the copy's files yet to be gone through are those     *)
(* that the others import.                                                 *)
(***************************************************************************)
EXTENDS RunHosts, RunSecrets, PlaybookRoles, PlaybooksPage, PageListsProofs, SequenceTheorems,
        FiniteSetTheorems, TLAPS

----------------------------------------------------------------------------
(* RunHosts.                                                               *)

Stages == {"free", "script", "groups", "all", "devices", "ok", "refused"}

\* A ping is of one device.
PingsAsk ==
  \A c \in Resolution :
    ask[c].kind = "ping" => ~ask[c].all /\ ask[c].groups = {} /\ ask[c].devices # {}

\* The histories bound what the selection covers.
Covered(c) == UnderWay(c) => Selected(ask[c]) \subseteq ever[c] /\ always[c] \subseteq Selected(ask[c])

Gathered(c) ==
  /\ UnderWay(c) => ids[c] \subseteq ever[c] /\ ask[c].devices \subseteq ids[c]
  /\ stage[c] = "devices" \/ (stage[c] = "all" /\ ~ask[c].all) => always[c] \subseteq ids[c]
  /\ stage[c] \in {"script", "groups", "all"} => ask[c].kind # "ping"

\* What a resolution has gathered while nothing was edited.
Undisturbed(c) ==
  changes = 0 =>
    /\ stage[c] \in {"script", "groups"} => ids[c] = ask[c].devices
    /\ stage[c] = "all" => ids[c] = ask[c].devices \cup Members(ask[c].groups)
    /\ stage[c] = "devices" => ids[c] = Selected(ask[c]) /\ ids[c] # {}

OfSelected(c) ==
  stage[c] = "ok" =>
    always[c] \subseteq DevicesOf(hosts[c]) /\ DevicesOf(hosts[c]) \subseteq ever[c]

Resolved(c) ==
  stage[c] \in {"ok", "refused"} /\ changes = 0 =>
    /\ stage[c] = "ok" <=> /\ Selected(ask[c]) # {} /\ Selected(ask[c]) \subseteq device
                           /\ \A d \in Selected(ask[c]) : keyOf[d] # NoKey
    /\ stage[c] = "ok" => DevicesOf(hosts[c]) = Selected(ask[c])

OwnKeys(c) ==
  stage[c] = "ok" =>
    /\ targets[c] \subseteq hosts[c]
    /\ (\A h, i \in hosts[c] : h.name = i.name => h = i) => targets[c] = hosts[c]

Resolves(c) ==
  Covered(c) /\ Gathered(c) /\ Undisturbed(c) /\ OfSelected(c) /\ Resolved(c) /\ OwnKeys(c)

HostsInv ==
  /\ RunHostsTypeOK /\ PingsAsk
  /\ reserved \subseteq legacy /\ renaming \subseteq legacy
  /\ changes = 0 => scripts = Script
  /\ \A c \in Resolution : Resolves(c)

(* What a resolution writes for ansible, of the rows that it read. *)
LEMMA WrittenHosts ==
  ASSUME NEW H, \A h \in H : h = [h EXCEPT !.key = h.key], NEW T \in Written(H)
  PROVE  LET W == {[h EXCEPT !.key = KeyFile(H, h)] : h \in T}
         IN W \subseteq H /\ ((\A h, i \in H : h.name = i.name => h = i) => W = H)
<1> DEFINE W == {[h EXCEPT !.key = KeyFile(H, h)] : h \in T}
<1>1. T \subseteq H /\ \A h \in H : Cardinality({t \in T : t.name = h.name}) = 1
  BY DEF Written
<1>2. W = T
  BY <1>1 DEF KeyFile
<1>3. ASSUME \A h, i \in H : h.name = i.name => h = i, NEW h \in H
      PROVE  h \in T
  <2>1. {t \in T : t.name = h.name} # {}
    BY <1>1, FS_EmptySet
  <2> QED
    BY <1>1, <1>3, <2>1
<1> QED
  BY <1>1, <1>2, <1>3

(* The devices of the rows read are those asked for. *)
LEMMA RowsAreOfDevices == ASSUME NEW D PROVE DevicesOf(RowsOf(D)) = D
<1>1. \A h \in RowsOf(D) : h.device \in D
  BY DEF RowsOf
<1>2. ASSUME NEW d \in D PROVE \E h \in RowsOf(D) : h.device = d
  <2>1. [device |-> d, name |-> nameOf[d], key |-> keyOf[d]] \in RowsOf(D)
    BY DEF RowsOf
  <2> QED
    BY <2>1
<1> QED
  BY <1>1, <1>2 DEF DevicesOf

(* A selection covers devices. *)
LEMMA SelectedDevices ==
  ASSUME NEW a \in Ask, member \subseteq device \X group
  PROVE  Selected(a) \subseteq a.devices \cup device
BY DEF Selected, Ask

InventoryTypes ==
  /\ device \subseteq Device /\ group \subseteq Group /\ reserved \subseteq Group
  /\ nameOf \in [Device -> DeviceName] /\ keyOf \in [Device -> Key \cup {NoKey}]
  /\ member \subseteq device \X group
  /\ keys \subseteq Key /\ scripts \subseteq Script /\ renaming \subseteq Group
  /\ used \subseteq Device \cup Group /\ legacy \subseteq Group

(* The foreign keys leave no membership without its device and its group. *)
LEMMA InventoryTypesStep ==
  ASSUME InventoryTypes, Edit \/ \E g \in Group : WriteReserved(g)
  PROVE  InventoryTypes'
<1> USE DEF InventoryTypes
<1>1. ASSUME NEW d \in Device, NEW n \in DeviceName, NEW k \in Key \cup {NoKey}, PutDevice(d, n, k)
      PROVE  InventoryTypes'
  <2>1. device \subseteq device' /\ group' = group /\ member' = member
    BY <1>1 DEF PutDevice
  <2>2. member' \subseteq device' \X group'
    BY <2>1
  <2> QED
    BY <1>1, <2>2 DEF PutDevice
<1>2. ASSUME NEW d \in Device, DeleteDevice(d) PROVE InventoryTypes'
  BY <1>2 DEF DeleteDevice
<1>3. ASSUME NEW g \in Group, CreateGroup(g) PROVE InventoryTypes'
  <2>1. device' = device /\ group \subseteq group' /\ member' = member
    BY <1>3 DEF CreateGroup
  <2>2. member' \subseteq device' \X group'
    BY <2>1
  <2> QED
    BY <1>3, <2>2 DEF CreateGroup
<1>4. ASSUME NEW g \in Group, RenameGroup(g) \/ CheckReserved(g) \/ WriteReserved(g)
      PROVE  InventoryTypes'
  BY <1>4 DEF RenameGroup, CheckReserved, WriteReserved
<1>5. ASSUME NEW g \in Group, DeleteGroup(g) PROVE InventoryTypes'
  BY <1>5 DEF DeleteGroup
<1>6. ASSUME NEW d \in Device, NEW g \in Group, Assign(d, g) \/ Unassign(d, g)
      PROVE  InventoryTypes'
  BY <1>6 DEF Assign, Unassign
<1>7. ASSUME NEW k \in Key, DeleteCredential(k) PROVE InventoryTypes'
  BY <1>7 DEF DeleteCredential
<1>8. ASSUME NEW s \in Script, DeleteScript(s) PROVE InventoryTypes'
  BY <1>8 DEF DeleteScript
<1> QED
  BY <1>1, <1>2, <1>3, <1>4, <1>5, <1>6, <1>7, <1>8 DEF Edit

(* Only a group that has a reserved name is given one. *)
LEMMA ReservedStep ==
  ASSUME InventoryTypes, reserved \subseteq legacy, renaming \subseteq legacy,
         Edit \/ \E g \in Group : WriteReserved(g)
  PROVE  reserved' \subseteq legacy' /\ renaming' \subseteq legacy' /\ legacy' = legacy
<1>1. CASE \E d \in Device, n \in DeviceName, k \in Key \cup {NoKey} : PutDevice(d, n, k)
  BY <1>1 DEF PutDevice
<1>2. CASE \E d \in Device : DeleteDevice(d)
  BY <1>2 DEF DeleteDevice
<1>3. ASSUME NEW g \in Group, \/ CreateGroup(g) \/ RenameGroup(g) \/ CheckReserved(g)
                              \/ WriteReserved(g) \/ DeleteGroup(g)
      PROVE  reserved' \subseteq legacy' /\ renaming' \subseteq legacy' /\ legacy' = legacy
  BY <1>3 DEF CreateGroup, RenameGroup, CheckReserved, KeepsReserved, WriteReserved, DeleteGroup
<1>4. CASE \E d \in Device, g \in Group : Assign(d, g) \/ Unassign(d, g)
  BY <1>4 DEF Assign, Unassign
<1>5. CASE \E k \in Key : DeleteCredential(k)
  BY <1>5 DEF DeleteCredential
<1>6. CASE \E s \in Script : DeleteScript(s)
  BY <1>6 DEF DeleteScript
<1> QED
  BY <1>1, <1>2, <1>3, <1>4, <1>5, <1>6 DEF Edit

ResolutionTypes ==
  /\ ask \in [Resolution -> Ask] /\ stage \in [Resolution -> Stages]
  /\ ids \in [Resolution -> SUBSET Device]
  /\ hosts \in [Resolution -> SUBSET Host] /\ targets \in [Resolution -> SUBSET Host]

(* The rows that a resolution reads are those of devices that have a key. *)
LEMMA RowsAreHosts ==
  ASSUME InventoryTypes, NEW D \in SUBSET Device
  PROVE  RowsOf(D) \subseteq Host
BY DEF RowsOf, Host, InventoryTypes

LEMMA HostCopies == \A h \in Host : h = [h EXCEPT !.key = h.key]
BY DEF Host

LEMMA ResolutionTypesStep ==
  ASSUME InventoryTypes, ResolutionTypes, NEW c \in Resolution, ResolveHosts(c),
         UNCHANGED <<inventoryVars, ask>>
  PROVE  ResolutionTypes'
<1> USE DEF ResolutionTypes, Stages
<1>1. \A G : Members(G) \subseteq Device
  BY DEF Members
<1>2. CASE StartResolution(c) \/ ReadScript(c)
  BY <1>2 DEF StartResolution, ReadScript, Stage, Ask
<1>3. CASE ReadGroups(c)
  BY <1>1, <1>3 DEF ReadGroups, Stage
<1>4. CASE ReadAll(c)
  BY <1>4 DEF ReadAll, Stage, InventoryTypes
<1>5. CASE ReadDevices(c)
  <2> DEFINE H == RowsOf({d \in ids[c] \cap device : keyOf[d] # NoKey})
  <2>1. H \in SUBSET Host
    BY RowsAreHosts
  <2>2. \A T \in Written(H) : {[h EXCEPT !.key = KeyFile(H, h)] : h \in T} \subseteq H
    <3>1. \A h \in H : h = [h EXCEPT !.key = h.key]
      BY <2>1, HostCopies
    <3> QED
      BY <3>1, WrittenHosts
  <2> HIDE DEF H
  <2>3. CASE Refuses(c)
    BY <1>5, <2>3 DEF ReadDevices, Stage
  <2>4. CASE ~Refuses(c)
    <3>1. PICK T \in Written(H) :
            /\ hosts' = [hosts EXCEPT ![c] = H]
            /\ targets' = [targets EXCEPT ![c] = {[h EXCEPT !.key = KeyFile(H, h)] : h \in T}]
            /\ stage' = [stage EXCEPT ![c] = "ok"] /\ ids' = ids
      BY <1>5, <2>4 DEF ReadDevices, Stage, H
    <3>2. {[h EXCEPT !.key = KeyFile(H, h)] : h \in T} \in SUBSET Host
      BY <2>1, <2>2
    <3> QED
      BY <2>1, <3>1, <3>2
  <2> QED
    BY <2>3, <2>4
<1> QED
  BY <1>2, <1>3, <1>4, <1>5 DEF ResolveHosts

(* The histories of a resolution under way grow, and bound what it covers now. *)
LEMMA TrackBounds ==
  ASSUME Track, NEW c \in Resolution
  PROVE  /\ UnderWay(c)' => ever[c] \subseteq ever'[c] /\ always'[c] \subseteq always[c]
         /\ ~UnderWay(c)' => ever'[c] = ever[c] /\ always'[c] = always[c]
         /\ Covered(c)'
<1>1. UnderWay(c)' => /\ ever'[c] = ever[c] \cup Selected(ask[c])'
                      /\ always'[c] = always[c] \cap Selected(ask[c])'
  BY DEF Track
<1>2. ~UnderWay(c)' => ever'[c] = ever[c] /\ always'[c] = always[c]
  BY DEF Track
<1> QED
  BY <1>1, <1>2 DEF Covered

(* What a step leaves alone of a resolution stays as it was, edited or not. *)
LEMMA ResolvesStill ==
  ASSUME HostsInv, Track, NEW c \in Resolution, ask' = ask,
         stage'[c] = stage[c], ids'[c] = ids[c], hosts'[c] = hosts[c], targets'[c] = targets[c],
         changes' # 0 \/ UNCHANGED <<device, member, keyOf, changes>>
  PROVE  Resolves(c)'
<1>1. Resolves(c)
  BY DEF HostsInv
<1>2. /\ UnderWay(c)' <=> UnderWay(c)
      /\ ever[c] \subseteq ever'[c] /\ always'[c] \subseteq always[c]
      /\ stage[c] = "ok" => ever'[c] = ever[c] /\ always'[c] = always[c]
  BY TrackBounds DEF UnderWay
<1>3. Gathered(c)'
  BY <1>1, <1>2 DEF Resolves, Gathered
<1>4. Undisturbed(c)' /\ Resolved(c)'
  <2>1. CASE changes' # 0
    BY <2>1 DEF Undisturbed, Resolved
  <2>2. CASE UNCHANGED <<device, member, keyOf, changes>>
    <3>1. Selected(ask[c])' = Selected(ask[c]) /\ Members(ask[c].groups)' = Members(ask[c].groups)
      BY <2>2 DEF Selected, Members
    <3> QED
      BY <1>1, <2>2, <3>1 DEF Resolves, Undisturbed, Resolved
  <2> QED
    BY <2>1, <2>2
<1>5. OfSelected(c)' /\ OwnKeys(c)'
  BY <1>1, <1>2 DEF Resolves, OfSelected, OwnKeys, DevicesOf
<1> QED
  BY <1>3, <1>4, <1>5, TrackBounds DEF Resolves

(* The statements of a resolution. *)
LEMMA ResolvesOwn ==
  ASSUME HostsInv, Track, NEW c \in Resolution, ResolveHosts(c),
         UNCHANGED <<inventoryVars, changes, ask>>
  PROVE  Resolves(c)'
<1>1. Resolves(c) /\ PingsAsk /\ ResolutionTypes /\ InventoryTypes
  BY DEF HostsInv, RunHostsTypeOK, ResolutionTypes, InventoryTypes, Stages
<1>2. /\ Selected(ask[c])' = Selected(ask[c]) /\ UNCHANGED <<device, member, keyOf, scripts, ask, changes>>
      /\ \A G : Members(G)' = Members(G)
  BY DEF Selected, Members, inventoryVars
<1>3. /\ UnderWay(c)' => ever[c] \subseteq ever'[c] /\ always'[c] \subseteq always[c]
      /\ ~UnderWay(c)' => ever'[c] = ever[c] /\ always'[c] = always[c]
      /\ Covered(c)'
  BY TrackBounds
<1>4. Members(ask[c].groups) \subseteq Selected(ask[c]) /\ ask[c].devices \subseteq Selected(ask[c])
      /\ (ask[c].all => Selected(ask[c]) = ask[c].devices \cup device \cup Members(ask[c].groups))
      /\ (~ask[c].all => Selected(ask[c]) = ask[c].devices \cup Members(ask[c].groups))
      /\ Members(ask[c].groups) \subseteq device
  BY <1>1 DEF Members, Selected, InventoryTypes
<1>5. ask[c] \in Ask /\ (ask[c].kind = "ping" => Members(ask[c].groups) = {})
  BY <1>1 DEF ResolutionTypes, PingsAsk, Members
<1> USE DEF ResolutionTypes, Stages
<1>6. CASE StartResolution(c)
  <2>1. /\ stage'[c] = IF ask[c].kind = "script" THEN "script"
                       ELSE IF ask[c].kind = "ping" THEN "devices" ELSE "groups"
        /\ ids'[c] = ask[c].devices
    BY <1>1, <1>6 DEF StartResolution, Stage
  <2>2. UnderWay(c)'
    BY <2>1 DEF UnderWay
  <2>3. ask[c].kind = "ping" => Selected(ask[c]) = ask[c].devices /\ ask[c].devices # {}
    BY <1>1, <1>4, <1>5 DEF PingsAsk
  <2>4. Gathered(c)'
    BY <1>2, <1>3, <1>4, <2>1, <2>2, <2>3 DEF Gathered, Covered
  <2>5. Undisturbed(c)'
    BY <1>2, <2>1, <2>3 DEF Undisturbed
  <2> QED
    BY <1>3, <2>1, <2>4, <2>5 DEF Resolves, OfSelected, Resolved, OwnKeys
<1>7. CASE ReadScript(c)
  <2>1. /\ stage[c] = "script" /\ ids'[c] = ids[c]
        /\ stage'[c] = IF ask[c].script \in scripts THEN "groups" ELSE "refused"
    BY <1>1, <1>7 DEF ReadScript, Stage
  <2>2. changes = 0 => stage'[c] = "groups"
    BY <1>5, <2>1 DEF HostsInv, Ask
  <2>3. Gathered(c)'
    BY <1>1, <1>2, <1>3, <2>1 DEF Resolves, Gathered, UnderWay
  <2>4. Undisturbed(c)' /\ Resolved(c)'
    BY <1>1, <1>2, <2>1, <2>2 DEF Resolves, Undisturbed, Resolved
  <2> QED
    BY <1>3, <2>1, <2>3, <2>4 DEF Resolves, OfSelected, OwnKeys
<1>8. CASE ReadGroups(c)
  <2>1. /\ stage[c] = "groups" /\ stage'[c] = "all" /\ ids'[c] = ids[c] \cup Members(ask[c].groups)
    BY <1>1, <1>8 DEF ReadGroups, Stage
  <2>2. Gathered(c)'
    BY <1>1, <1>2, <1>3, <1>4, <2>1 DEF Resolves, Gathered, Covered, UnderWay
  <2>3. Undisturbed(c)'
    BY <1>1, <1>2, <2>1 DEF Resolves, Undisturbed
  <2> QED
    BY <1>3, <2>1, <2>2, <2>3 DEF Resolves, OfSelected, Resolved, OwnKeys
<1>9. CASE ReadAll(c)
  <2> DEFINE found == ids[c] \cup (IF ask[c].all THEN device ELSE {})
  <2>1. /\ stage[c] = "all" /\ ids'[c] = found
        /\ stage'[c] = IF found = {} THEN "refused" ELSE "devices"
    BY <1>1, <1>9 DEF ReadAll, Stage
  <2>2. changes = 0 => found = Selected(ask[c])
    BY <1>1, <1>4, <2>1 DEF Resolves, Undisturbed
  <2>3. always[c] \subseteq found /\ ask[c].devices \subseteq found
    BY <1>1, <1>4, <2>1, SelectedDevices, <1>5 DEF Resolves, Gathered, Covered, UnderWay, InventoryTypes
  <2>4. found \subseteq ever[c]
    BY <1>1, <1>4, <2>1 DEF Resolves, Gathered, Covered, UnderWay
  <2> HIDE DEF found
  <2>5. Gathered(c)'
    BY <1>1, <1>2, <1>3, <2>1, <2>3, <2>4 DEF Resolves, Gathered, UnderWay
  <2>6. Undisturbed(c)' /\ Resolved(c)'
    BY <1>2, <2>1, <2>2 DEF Undisturbed, Resolved
  <2> QED
    BY <1>3, <2>1, <2>5, <2>6 DEF Resolves, OfSelected, OwnKeys
<1>10. CASE ReadDevices(c)
  <2> DEFINE H == RowsOf({d \in ids[c] \cap device : keyOf[d] # NoKey})
  <2>1. stage[c] = "devices" /\ ids[c] \subseteq ever[c] /\ always[c] \subseteq ids[c]
        /\ (changes = 0 => ids[c] = Selected(ask[c]) /\ ids[c] # {})
    BY <1>1, <1>10 DEF ReadDevices, Resolves, Gathered, Undisturbed, UnderWay
  <2>2. CASE Refuses(c)
    <3>1. stage'[c] = "refused"
      BY <1>1, <1>10, <2>2 DEF ReadDevices, Stage
    <3>2. Resolved(c)'
      BY <1>2, <2>1, <2>2, <3>1 DEF Resolved, Refuses
    <3> QED
      BY <1>3, <3>1, <3>2 DEF Resolves, Gathered, Undisturbed, OfSelected, OwnKeys, UnderWay
  <2>3. CASE ~Refuses(c)
    <3>1. PICK T \in Written(H) :
            /\ hosts' = [hosts EXCEPT ![c] = H]
            /\ targets' = [targets EXCEPT ![c] = {[h EXCEPT !.key = KeyFile(H, h)] : h \in T}]
            /\ stage' = [stage EXCEPT ![c] = "ok"]
      BY <1>10, <2>3 DEF ReadDevices, Stage
    <3>2. hosts'[c] = H /\ stage'[c] = "ok"
          /\ targets'[c] = {[h EXCEPT !.key = KeyFile(H, h)] : h \in T}
      BY <1>1, <3>1
    <3>3. ids[c] \subseteq device /\ \A d \in ids[c] : keyOf[d] # NoKey
      BY <2>3 DEF Refuses
    <3>4. DevicesOf(H) = ids[c]
      <4>1. {d \in ids[c] \cap device : keyOf[d] # NoKey} = ids[c]
        BY <3>3
      <4> QED
        BY <4>1, RowsAreOfDevices
    <3>5. H \subseteq Host
      BY <1>1, RowsAreHosts
    <3> HIDE DEF H
    <3>6. OwnKeys(c)'
      <4>1. \A h \in H : h = [h EXCEPT !.key = h.key]
        BY <3>5, HostCopies
      <4> QED
        BY <3>2, <4>1, WrittenHosts DEF OwnKeys
    <3>7. OfSelected(c)'
      BY <1>3, <2>1, <3>2, <3>4 DEF OfSelected, DevicesOf, UnderWay
    <3>8. Resolved(c)'
      BY <1>2, <2>1, <3>2, <3>3, <3>4 DEF Resolved, DevicesOf
    <3> QED
      BY <1>3, <3>2, <3>6, <3>7, <3>8 DEF Resolves, Gathered, Undisturbed, UnderWay
  <2> QED
    BY <2>2, <2>3
<1> QED
  BY <1>6, <1>7, <1>8, <1>9, <1>10 DEF ResolveHosts

LEMMA HostsStart == RunHostsInit => HostsInv
<1> SUFFICES ASSUME RunHostsInit PROVE HostsInv
  OBVIOUS
<1> USE RunHostsAssumption
<1>1. InventoryTypes
  BY DEF RunHostsInit, InventoryTypes
<1>2. ResolutionTypes
  BY DEF RunHostsInit, ResolutionTypes, Stages
<1>3. RunHostsTypeOK
  BY <1>1, <1>2 DEF RunHostsInit, RunHostsTypeOK, InventoryTypes, ResolutionTypes, Stages
<1>4. PingsAsk
  <2>1. \A c \in Resolution : ask[c].kind = "ping" =>
          ~ask[c].all /\ ask[c].groups = {} /\ Cardinality(ask[c].devices) = 1
    BY DEF RunHostsInit
  <2>2. \A S : Cardinality(S) = 1 => S # {}
    BY FS_EmptySet
  <2> QED
    BY <2>1, <2>2 DEF PingsAsk
<1>5. \A c \in Resolution : Resolves(c)
  BY DEF RunHostsInit, Resolves, Covered, Gathered, Undisturbed, OfSelected, Resolved, OwnKeys, UnderWay
<1> QED
  BY <1>1, <1>3, <1>4, <1>5 DEF HostsInv, RunHostsInit

LEMMA HostsStep ==
  ASSUME HostsInv, [RunHostsNext]_runHostsVars
  PROVE  HostsInv'
<1> USE RunHostsAssumption
<1>1. RunHostsTypeOK /\ PingsAsk /\ InventoryTypes /\ ResolutionTypes
      /\ reserved \subseteq legacy /\ renaming \subseteq legacy
  BY DEF HostsInv, RunHostsTypeOK, InventoryTypes, ResolutionTypes, Stages
<1>2. CASE RunHostsNext
  <2>1. Track /\ ask' = ask
    BY <1>2 DEF RunHostsNext, resolutionVars
  <2>2. InventoryTypes' /\ reserved' \subseteq legacy' /\ renaming' \subseteq legacy'
    <3>1. CASE Edit \/ \E g \in Group : WriteReserved(g)
      BY <1>1, <3>1, InventoryTypesStep, ReservedStep
    <3>2. CASE UNCHANGED inventoryVars
      BY <1>1, <3>2 DEF InventoryTypes, inventoryVars
    <3> QED
      BY <1>2, <3>1, <3>2 DEF RunHostsNext
  <2>3. ResolutionTypes'
    <3>1. CASE UNCHANGED resolutionVars
      BY <1>1, <3>1 DEF ResolutionTypes, resolutionVars
    <3>2. ASSUME NEW c \in Resolution, ResolveHosts(c), UNCHANGED <<inventoryVars, changes, ask>>
          PROVE  ResolutionTypes'
      BY <1>1, <3>2, ResolutionTypesStep
    <3> QED
      BY <1>2, <3>1, <3>2 DEF RunHostsNext
  <2>4. changes' \in 0 .. MaxChanges /\ (changes' = 0 => scripts' = Script)
    <3>1. CASE \E g \in Group : WriteReserved(g) /\ UNCHANGED changes
      BY <1>1, <3>1 DEF HostsInv, RunHostsTypeOK, WriteReserved
    <3>2. CASE Edit /\ changes < MaxChanges /\ changes' = changes + 1
      BY <1>1, <3>2 DEF RunHostsTypeOK
    <3>3. CASE UNCHANGED <<inventoryVars, changes>>
      BY <1>1, <3>3 DEF HostsInv, RunHostsTypeOK, inventoryVars
    <3> QED
      BY <1>2, <3>1, <3>2, <3>3 DEF RunHostsNext
  <2>5. /\ ever' \in [Resolution -> SUBSET Device] /\ always' \in [Resolution -> SUBSET Device]
    <3>1. \A c \in Resolution : Selected(ask[c])' \subseteq Device
      <4>1. \A c \in Resolution : ask'[c] \in Ask
        BY <2>3 DEF ResolutionTypes
      <4> QED
        BY <2>2, <4>1 DEF Selected, Ask, InventoryTypes
    <3>2. /\ ever' = [c \in Resolution |-> IF UnderWay(c)' THEN ever[c] \cup Selected(ask[c])' ELSE ever[c]]
          /\ always' = [c \in Resolution |->
                          IF UnderWay(c)' THEN always[c] \cap Selected(ask[c])' ELSE always[c]]
      BY <2>1 DEF Track
    <3> QED
      BY <1>1, <3>1, <3>2 DEF RunHostsTypeOK
  <2>6. RunHostsTypeOK'
    BY <2>2, <2>3, <2>4, <2>5 DEF RunHostsTypeOK, InventoryTypes, ResolutionTypes, Stages
  <2>7. PingsAsk'
    BY <1>1, <2>1 DEF PingsAsk
  <2>8. ASSUME NEW c \in Resolution PROVE Resolves(c)'
    <3>1. CASE UNCHANGED resolutionVars /\ changes' # 0
      BY <2>1, <3>1, ResolvesStill DEF resolutionVars
    <3>2. CASE UNCHANGED resolutionVars /\ UNCHANGED changes /\ \E g \in Group : WriteReserved(g)
      <4>1. UNCHANGED <<device, member, keyOf, changes>>
        BY <3>2 DEF WriteReserved
      <4> QED
        BY <2>1, <2>8, <3>2, <4>1, ResolvesStill DEF resolutionVars
    <3>3. ASSUME NEW d \in Resolution, ResolveHosts(d), UNCHANGED <<inventoryVars, changes, ask>>
          PROVE  Resolves(c)'
      <4>1. CASE c = d
        BY <2>1, <3>3, <4>1, ResolvesOwn
      <4>2. CASE c # d
        <5>1. /\ stage'[c] = stage[c] /\ ids'[c] = ids[c]
              /\ hosts'[c] = hosts[c] /\ targets'[c] = targets[c]
          BY <1>1, <2>8, <3>3, <4>2 DEF ResolveHosts, StartResolution, ReadScript, ReadGroups, ReadAll,
             ReadDevices, Stage, ResolutionTypes
        <5> QED
          BY <2>1, <2>8, <3>3, <5>1, ResolvesStill DEF inventoryVars
      <4> QED
        BY <4>1, <4>2
    <3>4. Edit /\ changes' = changes + 1 => changes' # 0
      BY <1>1 DEF RunHostsTypeOK
    <3> QED
      BY <1>2, <2>8, <3>1, <3>2, <3>3, <3>4 DEF RunHostsNext
  <2> QED
    BY <2>2, <2>4, <2>6, <2>7, <2>8 DEF HostsInv
<1>3. CASE UNCHANGED runHostsVars
  <2>1. UNCHANGED <<inventoryVars, resolutionVars, changes, ever, always>>
    BY <1>3 DEF runHostsVars
  <2>2. RunHostsTypeOK'
    BY <1>1, <2>1 DEF RunHostsTypeOK, inventoryVars, resolutionVars
  <2>3. ASSUME NEW c \in Resolution PROVE Resolves(c)'
    <3>1. Resolves(c)
      BY DEF HostsInv
    <3>2. /\ Selected(ask[c])' = Selected(ask[c]) /\ Members(ask[c].groups)' = Members(ask[c].groups)
          /\ UNCHANGED <<device, keyOf, ask, stage, ids, hosts, targets, changes, ever, always>>
      BY <2>1 DEF inventoryVars, resolutionVars, Selected, Members
    <3> QED
      BY <3>1, <3>2 DEF Resolves, Covered, Gathered, Undisturbed, OfSelected, Resolved, OwnKeys,
         UnderWay, DevicesOf
  <2> QED
    BY <2>1, <2>2, <2>3 DEF HostsInv, PingsAsk, inventoryVars, resolutionVars
<1> QED
  BY <1>2, <1>3

(* A run contacts what was selected, each with its own key, by names that mean what they *)
(* say, whatever is edited between the statements that resolve it.                       *)
THEOREM HostsAlwaysRight == RunHostsSpec => []HostsAreRight
<1>1. RunHostsInit => HostsInv
  BY HostsStart
<1>2. HostsInv /\ [RunHostsNext]_runHostsVars => HostsInv'
  BY HostsStep
<1>3. HostsInv => HostsAreRight
  BY DEF HostsInv, Resolves, OfSelected, Resolved, OwnKeys, HostsAreRight, HostsWereSelected,
     SteadyResolution, TargetsHaveOwnKeys, ReservedNamesOnlyKept
<1> QED
  BY <1>1, <1>2, <1>3, PTL DEF RunHostsSpec

----------------------------------------------------------------------------
(* RunSecrets.                                                             *)

RowTypes ==
  /\ conn \in [Conn -> {"there", "bare", "gone"}]
  /\ book \in [Book -> BookRow \cup {NoRow}] /\ job \in [JobId -> JobRow \cup {NoRow}]
  /\ given \subseteq JobId

CallTypes ==
  /\ doing \in [Writer -> HandlerCall]
  /\ check \in [Writer -> {"connection", "usable", "jobs", "playbooks", "write"}]

\* A declaration that a call brings is one that the schema lets through.
Brought == \A w \in Writer : doing[w].op = "set" => doing[w].input \in Declaration

RowsInv == RowTypes /\ CallTypes /\ Brought /\ DeclarationsReadable

(* A call has what its kind of handler is called with. *)
LEMMA CallParts ==
  ASSUME NEW call \in HandlerCall
  PROVE  /\ call.op = "save" => call.job \in JobId /\ call.input \in JobRow
         /\ call.op = "set" => call.book \in Book /\ call.input \in BookRow
         /\ call.op = "drop" => call.conn \in Conn
BY DEF HandlerCall

LEMMA Calls ==
  /\ \A j \in JobId, i \in JobInput : [op |-> "save", job |-> j, input |-> i] \in HandlerCall
  /\ \A b \in Book, d \in Declaration : [op |-> "set", book |-> b, input |-> d] \in HandlerCall
  /\ \A c \in Conn : [op |-> "drop", conn |-> c] \in HandlerCall
  /\ [op |-> "none"] \in HandlerCall
BY RunSecretsInputs DEF HandlerCall

(* The steps of the handlers: the calls. *)
LEMMA CallStep ==
  ASSUME RowTypes, CallTypes, Brought, WriteStep
  PROVE  CallTypes' /\ Brought'
<1> USE DEF CallTypes, Brought
<1>1. ASSUME NEW w \in Writer, NEW s \in {"connection", "usable", "jobs", "playbooks", "write"}, GoesTo(w, s)
      PROVE  CallTypes' /\ Brought'
  BY <1>1 DEF GoesTo
<1>2. ASSUME NEW w \in Writer, Ends(w) PROVE CallTypes' /\ Brought'
  BY <1>2, Calls DEF Ends
<1>3. ASSUME NEW w \in Writer,
             \/ CheckConnection(w) \/ CheckUsable(w) \/ SaveJobRow(w) \/ SetDeclaration(w)
             \/ CheckJobs(w) \/ CheckPlaybooks(w) \/ DeleteConnection(w)
      PROVE  CallTypes' /\ Brought'
  <2>1. Ends(w) \/ \E s \in {"connection", "usable", "jobs", "playbooks", "write"} : GoesTo(w, s)
    BY <1>3 DEF CheckConnection, CheckUsable, SaveJobRow, SetDeclaration, CheckJobs, CheckPlaybooks,
       DeleteConnection, OnDelete, Fails
  <2> QED
    BY <1>1, <1>2, <2>1
<1>4. ASSUME NEW w \in Writer, NEW call \in HandlerCall, NEW s \in {"connection", "jobs"},
             Begins(w, call, s), call.op = "set" => call.input \in Declaration
      PROVE  CallTypes' /\ Brought'
  BY <1>4 DEF Begins
<1>5. CASE UNCHANGED callVars
  BY <1>5 DEF callVars
<1>6. ASSUME NEW w \in Writer, NEW j \in JobId, NEW i \in JobInput,
             Begins(w, [op |-> "save", job |-> j, input |-> i], "connection")
      PROVE  CallTypes' /\ Brought'
  BY <1>4, <1>6, Calls
<1>7. ASSUME NEW w \in Writer, NEW b \in Book, NEW d \in Declaration,
             Begins(w, [op |-> "set", book |-> b, input |-> d], "connection")
      PROVE  CallTypes' /\ Brought'
  BY <1>4, <1>7, Calls
<1>8. ASSUME NEW w \in Writer, NEW c \in Conn, Begins(w, [op |-> "drop", conn |-> c], "jobs")
      PROVE  CallTypes' /\ Brought'
  BY <1>4, <1>8, Calls
<1> QED
  BY <1>3, <1>5, <1>6, <1>7, <1>8 DEF WriteStep

(* The writes of rows: each keeps them readable. *)
LEMMA SaveReadable ==
  ASSUME RowsInv, NEW w \in Writer, SaveJobRow(w)
  PROVE  RowTypes' /\ DeclarationsReadable'
<1> DEFINE j == doing[w].job  i == doing[w].input
<1>1. j \in JobId /\ i \in JobRow
  BY CallParts DEF SaveJobRow, At, RowsInv, CallTypes
<1>2. CASE UNCHANGED rowVars
  BY <1>2 DEF RowsInv, RowTypes, DeclarationsReadable, Exists, rowVars
<1>3. CASE /\ Exists(i.conn) /\ job' = [job EXCEPT ![j] = i] /\ given' = given \cup {j}
           /\ UNCHANGED <<conn, book>>
  BY <1>1, <1>3 DEF RowsInv, RowTypes, DeclarationsReadable, Exists
<1> QED
  BY <1>2, <1>3 DEF SaveJobRow, Fails, References

LEMMA SetReadable ==
  ASSUME RowsInv, NEW w \in Writer, SetDeclaration(w)
  PROVE  RowTypes' /\ DeclarationsReadable'
<1> DEFINE b == doing[w].book  d == doing[w].input  row == Declared(d, book[b])
<1>1. b \in Book /\ d \in BookRow /\ d \in Declaration
  BY CallParts DEF SetDeclaration, At, RowsInv, CallTypes, Brought
<1>2. row \in BookRow /\ (row.vars # {} => row.conn # NoConn /\ row.env # NoEnv)
      /\ (Exists(d.conn) => Exists(row.conn))
  BY <1>1, RunSecretsAssumption DEF Declared, Bare, BookRow, Exists
<1> HIDE DEF row
<1>3. CASE UNCHANGED rowVars
  BY <1>3 DEF RowsInv, RowTypes, DeclarationsReadable, Exists, rowVars
<1>4. CASE Exists(d.conn) /\ book' = [book EXCEPT ![b] = row] /\ UNCHANGED <<conn, job, given>>
  BY <1>1, <1>2, <1>4 DEF RowsInv, RowTypes, DeclarationsReadable, Exists
<1> QED
  BY <1>3, <1>4 DEF SetDeclaration, Fails, row

LEMMA DeleteReadable ==
  ASSUME RowsInv, NEW w \in Writer, DeleteConnection(w)
  PROVE  RowTypes' /\ DeclarationsReadable'
<1> DEFINE c == doing[w].conn
<1>1. CASE UNCHANGED rowVars
  BY <1>1 DEF RowsInv, RowTypes, DeclarationsReadable, Exists, rowVars
<1>2. CASE ~JobsUse(c) /\ ~BooksUse(c) /\ conn' = [conn EXCEPT ![c] = "gone"]
           /\ UNCHANGED <<book, job, given>>
  <2>1. \A k \in Conn \cup {NoConn} : k # c /\ Exists(k) => Exists(k)'
    BY <1>2 DEF Exists, RowsInv, RowTypes
  <2>2. \A j \in JobId : job[j] # NoRow => job[j].conn # c /\ job[j].conn \in Conn \cup {NoConn}
    BY <1>2 DEF JobsUse, RowsInv, RowTypes, JobRow
  <2>3. \A b \in Book : book[b] # NoRow => book[b].conn # c /\ book[b].conn \in Conn \cup {NoConn}
    BY <1>2 DEF BooksUse, RowsInv, RowTypes, BookRow
  <2>4. RowTypes'
    BY <1>2 DEF RowsInv, RowTypes
  <2> QED
    BY <1>2, <2>1, <2>2, <2>3, <2>4 DEF RowsInv, DeclarationsReadable
<1> QED
  BY <1>1, <1>2 DEF DeleteConnection, OnDelete, Fails, Gone

LEMMA OtherReadable ==
  ASSUME RowsInv, \/ \E c \in Conn : UpdateConnection(c)
                  \/ \E j \in JobId : DeleteJob(j)
                  \/ \E b \in Book : DeletePlaybook(b)
  PROVE  RowTypes' /\ DeclarationsReadable'
<1> USE DEF RowsInv, RowTypes, DeclarationsReadable, Exists
<1>1. CASE \E c \in Conn : UpdateConnection(c)
  BY <1>1 DEF UpdateConnection
<1>2. CASE \E j \in JobId : DeleteJob(j)
  BY <1>2 DEF DeleteJob
<1>3. ASSUME NEW b \in Book, DeletePlaybook(b) PROVE RowTypes' /\ DeclarationsReadable'
  <2>1. \A j \in JobId :
          /\ job'[j] \in JobRow \cup {NoRow}
          /\ job[j] = NoRow \/ (job[j].book # b /\ job'[j] = job[j]) \/ job'[j].conn = job[j].conn
          /\ job[j] = NoRow => job'[j] = NoRow
    BY <1>3 DEF DeletePlaybook, JobRow
  <2>2. job' \in [JobId -> JobRow \cup {NoRow}]
    BY <1>3, <2>1 DEF DeletePlaybook
  <2>3. conn' = conn /\ given' = given /\ book' = [book EXCEPT ![b] = NoRow]
    BY <1>3 DEF DeletePlaybook
  <2> QED
    BY <2>1, <2>2, <2>3
<1> QED
  BY <1>1, <1>2, <1>3

LEMMA RowsStep ==
  ASSUME RowsInv, WriteStep
  PROVE  RowsInv'
<1>1. CallTypes' /\ Brought'
  BY CallStep DEF RowsInv
<1>2. CASE UNCHANGED rowVars
  BY <1>1, <1>2 DEF RowsInv, RowTypes, DeclarationsReadable, Exists, rowVars
<1>3. ASSUME NEW w \in Writer, CheckConnection(w) \/ CheckUsable(w) \/ CheckJobs(w) \/ CheckPlaybooks(w)
      PROVE  UNCHANGED rowVars
  BY <1>3 DEF CheckConnection, CheckUsable, CheckJobs, CheckPlaybooks, GoesTo, Fails
<1>4. ASSUME NEW w \in Writer, NEW call, NEW s, Begins(w, call, s) PROVE UNCHANGED rowVars
  BY <1>4 DEF Begins
<1> QED
  BY <1>1, <1>2, <1>3, <1>4, SaveReadable, SetReadable, DeleteReadable, OtherReadable
     DEF RowsInv, WriteStep

Progress == {"free", "own", "playbook", "declared", "connection", "resolved", "nothing", "refused"}

ReadTypes ==
  /\ progress \in [Secrets -> Progress]
  /\ asked \in [Secrets -> JobRow \cup {NoRow}] /\ jobOf \in [Secrets -> JobId \cup {NoRow}]
  /\ own \in [Secrets -> SUBSET Var]
  /\ settings \in [Secrets -> BookRow \cup {NoRow}]
  /\ merged \in [Secrets -> Merged] /\ reads \in [Secrets -> Reads \cup {NoRow}]
  /\ disturbed \in [Secrets -> BOOLEAN]

\* What a resolution knows at each statement, whatever is written meanwhile.
Follows(r) ==
  /\ progress[r] = "own" => jobOf[r] \in JobId
  /\ progress[r] \in {"own", "playbook", "declared", "connection", "resolved"} =>
       asked[r] \in JobRow /\ asked[r] # NoRow /\ asked[r].book # NoBook
  /\ progress[r] \in {"declared", "connection"} => settings[r] \in BookRow
  /\ progress[r] = "connection" =>
       Chosen(r) # NoConn /\ Names(merged[r]) \cap asked[r].extra = {}
  /\ progress[r] = "resolved" =>
       reads[r] \in Reads /\ Names(reads[r].vars) \cap asked[r].extra = {}

\* While nothing is written, that is what the rows say.
AsGiven(r) ==
  ~disturbed[r] =>
    /\ progress[r] = "own" => job[jobOf[r]] = asked[r]
    /\ progress[r] \in {"playbook", "declared", "connection"} => own[r] = asked[r].own
    /\ progress[r] \in {"declared", "connection"} =>
         settings[r] = book[asked[r].book] /\ settings[r] # NoRow
    /\ progress[r] = "connection" => merged[r] = Merge(settings[r].vars, own[r])

OwnSettings(r) ==
  progress[r] = "resolved" /\ ~disturbed[r] =>
    LET i == asked[r]
        b == book[i.book]
        R == reads[r]
    IN
    /\ \A v \in Var : /\ (R.vars[v] = "own") <=> (v \in i.own)
                      /\ (R.vars[v] # "no") <=> (v \in i.own \cup b.vars)
    /\ R.conn \in {i.conn, b.conn} \ {NoConn} /\ (i.conn # NoConn => R.conn = i.conn)
    /\ R.env \in {i.env, b.env} \ {NoEnv} /\ (i.env # NoEnv => R.env = i.env)
    /\ conn[R.conn] = "there"

Knows(r) == Follows(r) /\ AsGiven(r) /\ OwnSettings(r)

SecretsInv == RowsInv /\ ReadTypes /\ \A r \in Secrets : Knows(r)

(* Another step leaves what a resolution knows, and what it knows undisturbed if none of *)
(* the rows changed.                                                                     *)
LEMMA KnowsStill ==
  ASSUME NEW r \in Secrets, Knows(r),
         progress'[r] = progress[r], asked'[r] = asked[r], jobOf'[r] = jobOf[r], own'[r] = own[r],
         settings'[r] = settings[r], merged'[r] = merged[r], reads'[r] = reads[r],
         ~disturbed'[r] => ~disturbed[r] /\ (progress[r] = "free" \/ rowVars' = rowVars)
  PROVE  Knows(r)'
<1>1. Follows(r)'
  BY DEF Knows, Follows, Chosen, Names
<1>2. CASE disturbed'[r]
  BY <1>1, <1>2 DEF Knows, AsGiven, OwnSettings
<1>3. CASE progress[r] = "free"
  BY <1>1, <1>3 DEF Knows, AsGiven, OwnSettings
<1>4. CASE ~disturbed'[r] /\ UNCHANGED rowVars
  BY <1>1, <1>4 DEF Knows, AsGiven, OwnSettings, rowVars
<1> QED
  BY <1>1, <1>2, <1>3, <1>4

LEMMA MergedVars ==
  ASSUME NEW d, NEW o
  PROVE  /\ Merge(d, o) \in Merged
         /\ \A v \in Var : /\ (Merge(d, o)[v] = "own") <=> (v \in o)
                           /\ (Merge(d, o)[v] # "no") <=> (v \in o \cup d)
BY DEF Merge, Merged

(* The statements of a resolution. *)
LEMMA KnowsOwn ==
  ASSUME SecretsInv, NEW r \in Secrets, ResolveSecrets(r), UNCHANGED <<rowVars, callVars, disturbed>>
  PROVE  ReadTypes' /\ Knows(r)'
<1>1. Knows(r) /\ ReadTypes /\ RowTypes
  BY DEF SecretsInv, RowsInv
<1>2. UNCHANGED <<conn, book, job, disturbed>>
  BY DEF rowVars
<1> USE DEF ReadTypes, Progress
<1>3. ASSUME NEW j \in JobId, StartJob(r, j)
      PROVE  ReadTypes' /\ Knows(r)'
  <2>1. job[j] \in JobRow /\ job[j] # NoRow
    BY <1>1, <1>3 DEF StartJob, RowTypes
  <2>2. ReadTypes'
    BY <1>1, <1>2, <1>3, <2>1 DEF StartJob, Moves
  <2>3. /\ asked'[r] = job[j] /\ jobOf'[r] = j
        /\ progress'[r] = IF job[j].book = NoBook THEN "refused" ELSE "own"
    BY <1>1, <1>3 DEF StartJob, Moves
  <2> QED
    BY <1>2, <1>3, <2>1, <2>2, <2>3 DEF Knows, Follows, AsGiven, OwnSettings
<1>4. ASSUME NEW i \in JobInput, StartInput(r, i)
      PROVE  ReadTypes' /\ Knows(r)'
  <2>1. i \in JobRow /\ i # NoRow /\ i.own \subseteq Var
    BY RunSecretsInputs, RunSecretsAssumption DEF JobRow
  <2>2. ReadTypes'
    BY <1>1, <1>2, <1>4, <2>1 DEF StartInput, Moves
  <2>3. asked'[r] = i /\ own'[r] = i.own /\ progress'[r] = "playbook" /\ i.book # NoBook
    BY <1>1, <1>4 DEF StartInput, Moves
  <2> QED
    BY <2>1, <2>2, <2>3 DEF Knows, Follows, AsGiven, OwnSettings
<1>5. CASE ReadOwn(r)
  <2> DEFINE o == IF job[jobOf[r]] = NoRow THEN {} ELSE job[jobOf[r]].own
  <2>1. progress[r] = "own" /\ jobOf[r] \in JobId /\ asked[r] \in JobRow /\ asked[r] # NoRow
        /\ asked[r].book # NoBook
    BY <1>1, <1>5 DEF ReadOwn, Knows, Follows
  <2>2. o \subseteq Var
    BY <1>1, <2>1 DEF RowTypes, JobRow
  <2>3. ~disturbed[r] => o = asked[r].own
    BY <1>1, <2>1 DEF Knows, AsGiven
  <2> HIDE DEF o
  <2>4. own' = [own EXCEPT ![r] = o] /\ progress' = [progress EXCEPT ![r] = "playbook"]
        /\ UNCHANGED <<asked, jobOf, settings, merged, reads>>
    BY <1>5 DEF ReadOwn, Moves, o
  <2>5. ReadTypes'
    BY <1>1, <1>2, <2>2, <2>4
  <2> QED
    BY <1>1, <1>2, <2>1, <2>3, <2>4, <2>5 DEF Knows, Follows, AsGiven, OwnSettings
<1>6. CASE ReadSettings(r)
  <2> DEFINE b == book[asked[r].book]
  <2>1. progress[r] = "playbook" /\ asked[r] \in JobRow /\ asked[r] # NoRow
        /\ asked[r].book # NoBook /\ asked[r].book \in Book
    BY <1>1, <1>6 DEF ReadSettings, Knows, Follows, JobRow
  <2>2. b \in BookRow \cup {NoRow}
    BY <1>1, <2>1 DEF RowTypes
  <2> HIDE DEF b
  <2>3. settings' = [settings EXCEPT ![r] = b]
        /\ progress' = [progress EXCEPT ![r] = IF b = NoRow THEN "refused" ELSE "declared"]
        /\ UNCHANGED <<asked, jobOf, own, merged, reads>>
    BY <1>6 DEF ReadSettings, Moves, b
  <2>4. ReadTypes'
    BY <1>1, <1>2, <2>2, <2>3
  <2>5. Follows(r)' /\ OwnSettings(r)'
    BY <1>1, <2>1, <2>2, <2>3 DEF Follows, OwnSettings
  <2>6. AsGiven(r)'
    BY <1>1, <1>2, <2>1, <2>3 DEF Knows, AsGiven, b
  <2> QED
    BY <2>4, <2>5, <2>6 DEF Knows
<1>7. CASE ReadDeclared(r)
  <2> DEFINE b == book[asked[r].book]
             m == Merge(IF b = NoRow THEN {} ELSE b.vars, own[r])
  <2>1. progress[r] = "declared" /\ asked[r] \in JobRow /\ asked[r] # NoRow
        /\ asked[r].book # NoBook /\ settings[r] \in BookRow
    BY <1>1, <1>7 DEF ReadDeclared, Knows, Follows
  <2>2. m \in Merged
    BY MergedVars
  <2>3. ~disturbed[r] => m = Merge(settings[r].vars, own[r])
    BY <1>1, <2>1 DEF Knows, AsGiven
  <2> HIDE DEF m
  <2>4. merged' = [merged EXCEPT ![r] = m]
        /\ progress' = [progress EXCEPT ![r] =
                          IF Names(m) = {} /\ asked[r].conn = NoConn THEN "nothing"
                          ELSE IF Collides(m, asked[r]) \/ Chosen(r) = NoConn THEN "refused"
                          ELSE "connection"]
        /\ UNCHANGED <<asked, jobOf, own, settings, reads>>
    BY <1>7 DEF ReadDeclared, Moves, m
  <2>5. ReadTypes'
    BY <1>1, <1>2, <2>2, <2>4
  <2>6. progress'[r] = "connection" => Chosen(r)' # NoConn /\ Names(m) \cap asked[r].extra = {}
    BY <1>1, <2>4 DEF Chosen, Collides
  <2>7. progress'[r] \in {"nothing", "refused", "connection"}
        /\ merged'[r] = m /\ Names(merged[r])' = Names(m)
    BY <1>1, <2>4 DEF Names
  <2>8. Follows(r)' /\ OwnSettings(r)'
    BY <1>1, <2>1, <2>4, <2>6, <2>7 DEF Follows, OwnSettings
  <2>9. AsGiven(r)'
    BY <1>1, <1>2, <2>1, <2>3, <2>4, <2>7 DEF Knows, AsGiven
  <2> QED
    BY <2>5, <2>8, <2>9 DEF Knows
<1>8. CASE ReadConnection(r)
  <2> DEFINE c == Chosen(r)
             found == [conn |-> c, env |-> ChosenEnv(r), vars |-> merged[r]]
  <2>1. /\ progress[r] = "connection" /\ asked[r] \in JobRow /\ asked[r] # NoRow
        /\ asked[r].book # NoBook /\ settings[r] \in BookRow
        /\ c # NoConn /\ Names(merged[r]) \cap asked[r].extra = {}
    BY <1>1, <1>8 DEF ReadConnection, Knows, Follows
  <2>2. c \in Conn /\ ChosenEnv(r) \in Env \cup {NoEnv}
    BY <2>1 DEF Chosen, ChosenEnv, JobRow, BookRow
  <2>3. /\ progress' = [progress EXCEPT ![r] =
                          IF conn[c] = "gone" THEN "refused"
                          ELSE IF Names(merged[r]) = {} THEN "nothing"
                          ELSE IF ChosenEnv(r) = NoEnv \/ conn[c] = "bare" THEN "refused"
                          ELSE "resolved"]
        /\ reads' = [reads EXCEPT ![r] = IF progress'[r] = "resolved" THEN found ELSE @]
        /\ UNCHANGED <<asked, jobOf, own, settings, merged>>
    BY <1>8 DEF ReadConnection, Moves
  <2>4. progress'[r] \in {"nothing", "refused", "resolved"}
    BY <1>1, <2>3
  <2>5. progress'[r] = "resolved" => /\ ChosenEnv(r) # NoEnv /\ conn[c] = "there"
                                     /\ found \in Reads /\ reads'[r] = found
    BY <1>1, <2>2, <2>3 DEF Reads, RowTypes
  <2>6. ReadTypes'
    BY <1>1, <1>2, <2>3, <2>5
  <2>7. Follows(r)' /\ AsGiven(r)'
    BY <1>1, <2>1, <2>3, <2>4, <2>5 DEF Follows, AsGiven, Names
  <2>8. OwnSettings(r)'
    <3>1. SUFFICES ASSUME progress'[r] = "resolved", ~disturbed[r] PROVE OwnSettings(r)'
      BY <1>2 DEF OwnSettings
    <3>2. own[r] = asked[r].own /\ settings[r] = book[asked[r].book]
          /\ merged[r] = Merge(settings[r].vars, own[r])
      BY <1>1, <2>1, <3>1 DEF Knows, AsGiven
    <3>3. asked'[r] = asked[r] /\ book' = book /\ conn' = conn
      BY <1>2, <2>3
    <3>4. /\ reads'[r].vars = merged[r] /\ reads'[r].conn = c /\ reads'[r].env = ChosenEnv(r)
      BY <2>5, <3>1
    <3>5. \A v \in Var :
            /\ (merged[r][v] = "own") <=> (v \in asked[r].own)
            /\ (merged[r][v] # "no") <=> (v \in asked[r].own \cup book[asked[r].book].vars)
      BY <3>2, MergedVars
    <3>6. /\ c \in {asked[r].conn, book[asked[r].book].conn} \ {NoConn}
          /\ asked[r].conn # NoConn => c = asked[r].conn
      BY <2>1, <3>2 DEF Chosen
    <3>7. /\ ChosenEnv(r) \in {asked[r].env, book[asked[r].book].env} \ {NoEnv}
          /\ asked[r].env # NoEnv => ChosenEnv(r) = asked[r].env
      BY <2>5, <3>1, <3>2 DEF ChosenEnv
    <3> HIDE DEF c, found
    <3> QED
      BY <2>5, <3>1, <3>3, <3>4, <3>5, <3>6, <3>7 DEF OwnSettings
  <2> QED
    BY <2>6, <2>7, <2>8 DEF Knows
<1> QED
  BY <1>3, <1>4, <1>5, <1>6, <1>7, <1>8 DEF ResolveSecrets

LEMMA SecretsStart == RunSecretsInit => SecretsInv
<1> SUFFICES ASSUME RunSecretsInit PROVE SecretsInv
  OBVIOUS
<1>1. RowTypes /\ CallTypes
  BY RunSecretsInputs, Calls DEF RunSecretsInit, RowTypes, CallTypes
<1>2. Brought
  BY DEF RunSecretsInit, Brought
<1>3. DeclarationsReadable
  BY RunSecretsInputs, RunSecretsAssumption DEF RunSecretsInit, DeclarationsReadable, Exists, BookRow
<1>4. ReadTypes
  BY DEF RunSecretsInit, ReadTypes, Progress, Merged
<1>5. \A r \in Secrets : Knows(r)
  BY DEF RunSecretsInit, Knows, Follows, AsGiven, OwnSettings
<1> QED
  BY <1>1, <1>2, <1>3, <1>4, <1>5 DEF SecretsInv, RowsInv

LEMMA SecretsStep ==
  ASSUME SecretsInv, [RunSecretsNext]_secretsVars
  PROVE  SecretsInv'
<1>1. RowsInv /\ ReadTypes /\ \A r \in Secrets : Knows(r)
  BY DEF SecretsInv
<1>2. CASE /\ WriteStep /\ UNCHANGED readVars
           /\ disturbed' = [r \in Secrets |->
                              disturbed[r] \/ (progress[r] # "free" /\ rowVars' # rowVars)]
  <2>1. RowsInv' /\ ReadTypes'
    BY <1>1, <1>2, RowsStep DEF ReadTypes, readVars
  <2>2. ASSUME NEW r \in Secrets PROVE Knows(r)'
    <3>1. ~disturbed'[r] => ~disturbed[r] /\ (progress[r] = "free" \/ rowVars' = rowVars)
      BY <1>2, <2>2
    <3>2. UNCHANGED <<progress, asked, jobOf, own, settings, merged, reads>>
      BY <1>2 DEF readVars
    <3>3. Knows(r)
      BY <1>1, <2>2
    <3> QED
      BY <2>2, <3>1, <3>2, <3>3, KnowsStill
  <2> QED
    BY <2>1, <2>2 DEF SecretsInv
<1>3. ASSUME NEW s \in Secrets, ResolveSecrets(s), UNCHANGED <<rowVars, callVars, disturbed>>
      PROVE  SecretsInv'
  <2>1. RowsInv'
    BY <1>1, <1>3 DEF RowsInv, RowTypes, CallTypes, Brought, DeclarationsReadable, Exists, rowVars, callVars
  <2>2. ReadTypes' /\ Knows(s)'
    BY <1>3, KnowsOwn
  <2>3. ASSUME NEW r \in Secrets, r # s PROVE Knows(r)'
    <3>1. /\ progress'[r] = progress[r] /\ asked'[r] = asked[r] /\ jobOf'[r] = jobOf[r]
          /\ own'[r] = own[r] /\ settings'[r] = settings[r] /\ merged'[r] = merged[r]
          /\ reads'[r] = reads[r] /\ disturbed' = disturbed /\ rowVars' = rowVars
      BY <1>1, <1>3, <2>3 DEF ReadTypes, ResolveSecrets, ReadOwn, ReadSettings, ReadDeclared,
         ReadConnection, StartJob, StartInput, Moves
    <3>2. Knows(r)
      BY <1>1, <2>3
    <3> QED
      BY <2>3, <3>1, <3>2, KnowsStill
  <2> QED
    BY <2>1, <2>2, <2>3 DEF SecretsInv
<1>4. CASE UNCHANGED secretsVars
  <2>1. UNCHANGED <<rowVars, callVars, readVars, disturbed>>
    BY <1>4 DEF secretsVars
  <2>2. RowsInv'
    BY <1>1, <2>1 DEF RowsInv, RowTypes, CallTypes, Brought, DeclarationsReadable, Exists, rowVars, callVars
  <2>3. ReadTypes'
    BY <1>1, <2>1 DEF ReadTypes, readVars
  <2>4. ASSUME NEW r \in Secrets PROVE Knows(r)'
    <3>1. UNCHANGED <<progress, asked, jobOf, own, settings, merged, reads, disturbed>> /\ rowVars' = rowVars
      BY <2>1 DEF readVars
    <3>2. Knows(r)
      BY <1>1, <2>4
    <3> QED
      BY <2>4, <3>1, <3>2, KnowsStill
  <2> QED
    BY <2>2, <2>3, <2>4 DEF SecretsInv
<1> QED
  BY <1>2, <1>3, <1>4 DEF RunSecretsNext

(* The connection of a job that stays changes only when the job is saved itself. *)
LEMMA CredentialsStep ==
  ASSUME RowsInv, RunSecretsNext, NEW j \in JobId,
         job[j] # NoRow, job'[j] # NoRow, job'[j].conn # job[j].conn
  PROVE  \E w \in Writer : At(w, "save", "write") /\ doing[w].job = j
<1>1. job[j] \in JobRow /\ job \in [JobId -> JobRow \cup {NoRow}]
  BY DEF RowsInv, RowTypes
<1>2. job' # job
  OBVIOUS
<1>3. ASSUME NEW w \in Writer, SaveJobRow(w)
      PROVE  At(w, "save", "write") /\ doing[w].job = j
  BY <1>1, <1>2, <1>3 DEF SaveJobRow, Fails, rowVars
<1>4. ASSUME NEW w \in Writer, \/ CheckConnection(w) \/ CheckUsable(w) \/ SetDeclaration(w)
                               \/ CheckJobs(w) \/ CheckPlaybooks(w) \/ DeleteConnection(w)
      PROVE  job' = job
  BY <1>4 DEF CheckConnection, CheckUsable, SetDeclaration, CheckJobs, CheckPlaybooks,
     DeleteConnection, OnDelete, Fails, GoesTo, rowVars
<1>5. ASSUME NEW w \in Writer, NEW call, NEW s, Begins(w, call, s) PROVE job' = job
  BY <1>5 DEF Begins, rowVars
<1>6. ASSUME NEW c \in Conn, UpdateConnection(c) PROVE job' = job
  BY <1>6 DEF UpdateConnection
<1>7. ASSUME NEW k \in JobId, DeleteJob(k) PROVE FALSE
  BY <1>1, <1>7 DEF DeleteJob
<1>8. ASSUME NEW b \in Book, DeletePlaybook(b) PROVE FALSE
  BY <1>1, <1>8 DEF DeletePlaybook, JobRow
<1>9. ASSUME NEW r \in Secrets, UNCHANGED <<rowVars, callVars, disturbed>> PROVE job' = job
  BY <1>9 DEF rowVars
<1> QED
  BY <1>2, <1>3, <1>4, <1>5, <1>6, <1>7, <1>8, <1>9 DEF RunSecretsNext, WriteStep

(* A run reads its secrets through a connection it was given, and all that it was given; *)
(* no job or playbook is left with a connection that is gone, nor loses it silently.     *)
THEOREM SecretsAlwaysRight == RunSecretsSpec => SecretsAreRight
<1>1. RunSecretsInit => SecretsInv
  BY SecretsStart
<1>2. SecretsInv /\ [RunSecretsNext]_secretsVars => SecretsInv'
  BY SecretsStep
<1>3. SecretsInv => DeclarationsReadable /\ NoSecretReplaced /\ OwnSettingsWin
  BY DEF SecretsInv, RowsInv, Knows, Follows, OwnSettings, NoSecretReplaced, OwnSettingsWin
<1>4. SecretsInv /\ [RunSecretsNext]_secretsVars =>
        [\A j \in JobId :
           job[j] # NoRow /\ job'[j] # NoRow /\ job'[j].conn # job[j].conn =>
             \E w \in Writer : At(w, "save", "write") /\ doing[w].job = j]_secretsVars
  BY CredentialsStep DEF SecretsInv
<1> QED
  BY <1>1, <1>2, <1>3, <1>4, PTL DEF RunSecretsSpec, SecretsAreRight, CredentialsKept

----------------------------------------------------------------------------
(* PlaybooksPage.                                                          *)

USE PlaybooksPageAssumption

PlaybookRows == {p \in [Playbook -> Place] : \A b \in Playbook : p[b] \in PlacesOf(b)}

\* Every inline playbook is in a folder that is there, and every file in a repository that is.
PageRowsInv ==
  /\ stored \in Rows /\ troubles \in 0 .. MaxSteps
  /\ \A b \in Inline : stored.playbooks[b] \in stored.folders \cup {Root, Absent}
  /\ \A b \in RepoFile : stored.playbooks[b] # Absent => b[1] \in stored.repositories

PageCallRow ==
  [op : {"move", "delete", "deleteFolder", "deleteRepository", "sync"},
   what : Playbook \cup Folder \cup Repo, to : Destination, by : {"page", "api"},
   at : {"sent", "inline", "ready", "written", "refused"}, told : BOOLEAN,
   found : {<<>>} \cup {<<r>> : r \in UNION {RowsOfList[q] : q \in Query}}, picked : BOOLEAN]

\* A file is never moved or deleted by hand, and a move of the page was picked.
PageCallInv(c) ==
  \/ calls[c] = NoCall
  \/ /\ calls[c] \in PageCallRow
     /\ Want(calls[c].op, calls[c].what, calls[c].to) \in Wants
     /\ calls[c].found = <<>> \/ calls[c].found[1] \in RowsOfList[ListOf(calls[c].op)]
     /\ calls[c].at \in {"inline", "ready"} => ByHand(c) /\ calls[c].what \in Inline
     /\ calls[c].op = "move" /\ calls[c].by = "page" => calls[c].picked
PageCallsInv == DOMAIN calls = Call /\ \A c \in Call : PageCallInv(c)

PageDialogInv ==
  /\ dialog \in [op : {"none", "move", "delete", "deleteFolder", "deleteRepository"},
                 what : Playbook \cup Folder \cup Repo \cup {Root}, from : Destination,
                 to : Destination, picked : BOOLEAN]
  /\ dialog = NoDialog \/ Want(dialog.op, dialog.what, dialog.to) \in Wants
  /\ dialog.op \in {"move", "delete"} => dialog.what \in Inline
  /\ dialog.op = "move" => dialog.picked \/ dialog.to = dialog.from

PageListsTyped == DOMAIN lists = Query /\ \A q \in Query : IsListOver(lists[q], RowsOfList[q])

\* A list, and an answer on its way, is right unless the page waits for a call that changes it.
Changes(c, q) == Awaited(c) /\ q \in Refreshes(calls[c].op)
ShownInv(q) ==
  (\A c \in Call : ~Changes(c, q)) =>
    /\ UpToDate(lists[q]) => lists[q].rows[1] = stored[q]
    /\ lists[q].answer # <<>> /\ ~lists[q].late => lists[q].answer[1] = stored[q]
AllShown == \A q \in Query : ShownInv(q)

PlaybooksPageInv ==
  PageRowsInv /\ PageCallsInv /\ PageDialogInv /\ PageListsTyped /\ AllShown

\* What the lists may hold.
LEMMA RowsOfEach ==
  /\ RowsOfList["playbooks"] = PlaybookRows /\ RowsOfList["folders"] = SUBSET Folder
  /\ RowsOfList["repositories"] = SUBSET Repo
  /\ \A rows \in Rows : \A q \in Query : rows[q] \in RowsOfList[q]
<1>1. Rows = [playbooks : PlaybookRows, folders : SUBSET Folder, repositories : SUBSET Repo]
  BY DEF Rows, PlaybookRows
<1>2. PICK p \in PlaybookRows : TRUE
  <2>1. [b \in Playbook |-> Absent] \in PlaybookRows
    BY DEF PlaybookRows, Place, PlacesOf
  <2>2. QED
    BY <2>1
<1>3. \A x \in PlaybookRows, f \in SUBSET Folder, r \in SUBSET Repo :
        [playbooks |-> x, folders |-> f, repositories |-> r] \in Rows
  BY <1>1
<1>4. \A q \in Query : RowsOfList[q] = {rows[q] : rows \in Rows}
  BY DEF RowsOfList
<1>5. RowsOfList["playbooks"] = PlaybookRows
  <2>1. RowsOfList["playbooks"] \subseteq PlaybookRows
    BY <1>1, <1>4 DEF Query
  <2>2. ASSUME NEW x \in PlaybookRows PROVE x \in RowsOfList["playbooks"]
    <3>1. [playbooks |-> x, folders |-> {}, repositories |-> {}] \in Rows
      BY <1>3
    <3>2. QED
      BY <1>4, <3>1 DEF Query
  <2>3. QED
    BY <2>1, <2>2
<1>6. RowsOfList["folders"] = SUBSET Folder
  <2>1. RowsOfList["folders"] \subseteq SUBSET Folder
    BY <1>1, <1>4 DEF Query
  <2>2. ASSUME NEW x \in SUBSET Folder PROVE x \in RowsOfList["folders"]
    <3>1. [playbooks |-> p, folders |-> x, repositories |-> {}] \in Rows
      BY <1>2, <1>3
    <3>2. QED
      BY <1>4, <3>1 DEF Query
  <2>3. QED
    BY <2>1, <2>2
<1>7. RowsOfList["repositories"] = SUBSET Repo
  <2>1. RowsOfList["repositories"] \subseteq SUBSET Repo
    BY <1>1, <1>4 DEF Query
  <2>2. ASSUME NEW x \in SUBSET Repo PROVE x \in RowsOfList["repositories"]
    <3>1. [playbooks |-> p, folders |-> {}, repositories |-> x] \in Rows
      BY <1>2, <1>3
    <3>2. QED
      BY <1>4, <3>1 DEF Query
  <2>3. QED
    BY <2>1, <2>2
<1>8. QED
  BY <1>4, <1>5, <1>6, <1>7

\* What can be asked for.
LEMMA WantFacts ==
  ASSUME NEW k \in Wants
  PROVE  /\ k = Want(k.op, k.what, k.to) /\ k.to \in Destination
         /\ k.op \in {"move", "delete", "deleteFolder", "deleteRepository", "sync"}
         /\ k.what \in Playbook \cup Folder \cup Repo
         /\ k.op \in {"move", "delete"} => k.what \in Playbook
         /\ k.op = "deleteFolder" => k.what \in Folder
         /\ k.op \in {"deleteRepository", "sync"} => k.what \in Repo
BY DEF Wants, Want, Destination

\* A call asks again for the list that it patches.
LEMMA ListOfRefreshed == \A op : ListOf(op) \in Query /\ ListOf(op) \in Refreshes(op)
                                 /\ Refreshes(op) \subseteq Query
BY DEF ListOf, Refreshes, Query

\* What a call is that has not gone out.
LEMMA NoPageCall ==
  NoCall.op = "none" /\ NoCall.at = "new" /\ NoCall.by = "api" /\ NoCall.what = Root
BY DEF NoCall

\* A list that says no more than it did.
LEMMA ShownStep ==
  ASSUME NEW q, ShownInv(q), stored'[q] = stored[q],
         (\A c \in Call : ~Changes(c, q)') => \A c \in Call : ~Changes(c, q),
         Mute(lists'[q]) \/ Echo(lists[q], lists'[q])
  PROVE  ShownInv(q)'
BY DEF ShownInv, Mute, Echo

\* A step that leaves the tables, and every list as true as it was.
LEMMA CalmPage ==
  ASSUME AllShown, UNCHANGED stored,
         \A c \in Call, q \in Query : Changes(c, q) => Changes(c, q)',
         \A q \in Query : \/ Mute(lists'[q]) \/ Echo(lists[q], lists'[q])
                          \/ \E c \in Call : Changes(c, q)'
  PROVE  AllShown'
<1>1. ASSUME NEW q \in Query PROVE ShownInv(q)'
  <2>1. ShownInv(q)
    BY DEF AllShown
  <2>2. CASE \E c \in Call : Changes(c, q)'
    BY <2>2 DEF ShownInv
  <2>3. CASE ~\E c \in Call : Changes(c, q)'
    BY <2>1, <2>3, ShownStep
  <2>4. QED
    BY <2>2, <2>3
<1>2. QED
  BY <1>1 DEF AllShown

\* One list changes.
LEMMA OneOfThePage ==
  ASSUME PageListsTyped, NEW x \in Query, NEW l, IsListOver(l, RowsOfList[x]),
         lists' = [lists EXCEPT ![x] = l]
  PROVE  /\ PageListsTyped' /\ lists'[x] = l
         /\ \A q \in Query \ {x} : lists'[q] = lists[q]
BY DEF PageListsTyped

\* The type invariant is a part of the inductive one.
LEMMA PageTyped == PlaybooksPageInv => PlaybooksPageTypeOK
<1> SUFFICES ASSUME PlaybooksPageInv PROVE PlaybooksPageTypeOK
  OBVIOUS
<1>1. ASSUME NEW c \in Call
      PROVE  /\ calls[c].at \in {"new", "sent", "inline", "ready", "written", "refused"}
             /\ calls[c].at = "new" \/ Want(calls[c].op, calls[c].what, calls[c].to) \in Wants
  <2>1. PageCallInv(c)
    BY DEF PlaybooksPageInv, PageCallsInv
  <2>2. QED
    BY <2>1, NoPageCall DEF PageCallInv, PageCallRow
<1>2. QED
  BY <1>1 DEF PlaybooksPageInv, PageRowsInv, PageDialogInv, PageListsTyped, PlaybooksPageTypeOK

----------------------------------------------------------------------------
(* Every step keeps PlaybooksPageInv.                                      *)

\* The page opens.
LEMMA InitPage == PlaybooksPageInit => PlaybooksPageInv
<1> SUFFICES ASSUME PlaybooksPageInit PROVE PlaybooksPageInv
  OBVIOUS
<1> USE DEF PlaybooksPageInit
<1>1. PageRowsInv
  <2>1. stored \in Rows /\ stored.repositories = Repo /\ troubles = 0
        /\ \A b \in Inline : stored.playbooks[b] \in stored.folders \cup {Root}
    OBVIOUS
  <2>2. \A b \in RepoFile : b[1] \in Repo
    BY DEF RepoFile
  <2>3. QED
    BY <2>1, <2>2 DEF PageRowsInv
<1>2. PageCallsInv
  BY DEF PageCallsInv, PageCallInv
<1>3. PageDialogInv
  BY DEF PageDialogInv, NoDialog, Destination
<1>4. lists = [q \in Query |-> Asked(Unread)]
  OBVIOUS
<1>5. /\ \A R : IsListOver(Asked(Unread), R)
      /\ ~UpToDate(Asked(Unread)) /\ Asked(Unread).answer = <<>>
  <2>1. /\ Asked(Unread).rows = <<>> /\ Asked(Unread).answer = <<>> /\ Asked(Unread).asked
        /\ Asked(Unread) \in [rows : {<<>>}, asked : BOOLEAN, answer : {<<>>}, failed : BOOLEAN,
                             missed : BOOLEAN, late : BOOLEAN]
    BY DEF Asked, Cancelled, Unread
  <2>2. QED
    BY <2>1 DEF IsListOver, UpToDate
<1>6. PageListsTyped
  BY <1>4, <1>5 DEF PageListsTyped
<1>7. AllShown
  BY <1>4, <1>5 DEF AllShown, ShownInv
<1>8. QED
  BY <1>1, <1>2, <1>3, <1>6, <1>7 DEF PlaybooksPageInv

\* Steps of the dialogs that send nothing.
LEMMA SamePage ==
  ASSUME PlaybooksPageInv, UNCHANGED <<stored, lists, calls, troubles>>
  PROVE  PageRowsInv' /\ PageCallsInv' /\ PageListsTyped' /\ AllShown'
BY DEF PlaybooksPageInv, PageRowsInv, PageCallsInv, PageCallInv, ByHand, PageListsTyped, AllShown,
       ShownInv, Changes, Awaited

\* What is drawn is of its kind.
LEMMA DrawnRows ==
  ASSUME PageListsTyped, ~PageError, ~PagePending
  PROVE  /\ Loaded("playbooks") \in PlaybookRows
         /\ Loaded("folders") \in SUBSET Folder /\ Loaded("repositories") \in SUBSET Repo
         /\ \A q \in Query : lists[q].rows # <<>>
<1>1. \A q \in Query : lists[q].rows # <<>>
  BY DEF PageError, PagePending, IsError, IsPending
<1>2. \A q \in Query : Loaded(q) \in RowsOfList[q]
  BY <1>1 DEF PageListsTyped, IsListOver, Loaded
<1>3. QED
  BY <1>1, <1>2, RowsOfEach DEF Query

\* A dialog opens, a folder is picked in it, or it is closed.
LEMMA DialogSteps ==
  ASSUME PlaybooksPageInv,
         \/ \E op \in {"delete", "deleteFolder", "deleteRepository"} :
              \E x \in Inline \cup Folder \cup Repo : AskDelete(op, x)
         \/ \E b \in Inline : OpenMove(b)
         \/ \E d \in Destination : PickFolder(d)
         \/ CloseDialog
  PROVE  PlaybooksPageInv'
<1>1. UNCHANGED <<stored, lists, calls, troubles>>
  BY DEF AskDelete, OpenMove, PickFolder, CloseDialog
<1>2. PageListsTyped /\ PageDialogInv
  BY DEF PlaybooksPageInv
<1>3. ASSUME NEW op \in {"delete", "deleteFolder", "deleteRepository"},
             NEW x \in Inline \cup Folder \cup Repo, AskDelete(op, x)
      PROVE  PageDialogInv'
  <2>1. /\ dialog' = [op |-> op, what |-> x, from |-> Root, to |-> Root, picked |-> FALSE]
        /\ ~PageError /\ ~PagePending
    BY <1>3 DEF AskDelete, NoDialog, CanBeUsed
  <2>2. /\ op = "delete" => x \in Inline
        /\ op = "deleteFolder" => x \in Folder
        /\ op = "deleteRepository" => x \in Repo
    BY <1>2, <1>3, <2>1, DrawnRows DEF AskDelete, WithActions, FolderGroups, RepositoryGroups
  <2>3. Want(op, x, Root) \in Wants
    BY <2>2 DEF Wants, Playbook
  <2>4. QED
    BY <2>1, <2>2, <2>3 DEF PageDialogInv, Destination, Playbook
<1>4. ASSUME NEW b \in Inline, OpenMove(b)
      PROVE  PageDialogInv'
  <2>1. PICK d : d = Loaded("playbooks")[b]
    OBVIOUS
  <2>2. /\ dialog' = [op |-> "move", what |-> b, from |-> d, to |-> d, picked |-> FALSE]
        /\ ~PageError /\ ~PagePending /\ d # Absent
    BY <1>4, <2>1 DEF OpenMove, MoveBegins, CanBeUsed, WithActions
  <2>3. d \in Destination
    BY <1>2, <2>1, <2>2, DrawnRows DEF PlaybookRows, PlacesOf, Playbook
  <2>4. Want("move", b, d) \in Wants
    BY <2>3 DEF Wants, Playbook
  <2>5. QED
    BY <2>2, <2>3, <2>4 DEF PageDialogInv, Playbook
<1>5. ASSUME NEW d \in Destination, PickFolder(d)
      PROVE  PageDialogInv'
  <2>1. dialog.op = "move" /\ dialog' = [dialog EXCEPT !.to = d, !.picked = TRUE]
    BY <1>5 DEF PickFolder
  <2>2. Want("move", dialog.what, d) \in Wants
    BY <1>2, <2>1 DEF PageDialogInv, Wants, Playbook
  <2>3. QED
    BY <1>2, <2>1, <2>2 DEF PageDialogInv
<1>6. ASSUME CloseDialog
      PROVE  PageDialogInv'
  <2>1. dialog' = NoDialog
    BY <1>6 DEF CloseDialog
  <2>2. QED
    BY <2>1 DEF PageDialogInv, NoDialog, Destination
<1>7. PageDialogInv'
  BY <1>3, <1>4, <1>5, <1>6, Zenon
<1>8. QED
  BY <1>1, <1>7, SamePage DEF PlaybooksPageInv

\* A call joins the others.
LEMMA CallJoins ==
  ASSUME PageCallsInv, NEW c \in Call, NEW row, calls[c] = NoCall,
         calls' = [calls EXCEPT ![c] = row]
  PROVE  /\ DOMAIN calls' = Call /\ calls'[c] = row
         /\ \A d \in Call \ {c} : calls'[d] = calls[d] /\ PageCallInv(d)'
         /\ \A d \in Call, q \in Query : Changes(d, q) => Changes(d, q)'
<1>1. DOMAIN calls' = Call /\ calls'[c] = row /\ \A d \in Call \ {c} : calls'[d] = calls[d]
  BY DEF PageCallsInv
<1>2. \A d \in Call \ {c} : PageCallInv(d)'
  BY <1>1 DEF PageCallsInv, PageCallInv, ByHand
<1>3. \A d \in Call, q \in Query : Changes(d, q) => Changes(d, q)'
  BY <1>1, NoPageCall DEF Changes, Awaited
<1>4. QED
  BY <1>1, <1>2, <1>3

\* A call of the page or of somebody else.
LEMMA CallTyped ==
  ASSUME NEW k \in Wants, NEW by \in {"page", "api"}, NEW picked \in BOOLEAN,
         NEW found, found = <<>> \/ (found = <<found[1]>> /\ found[1] \in RowsOfList[ListOf(k.op)]),
         k.op = "move" /\ by = "page" => picked,
         NEW c \in Call, calls'[c] = CallOf(k, by, found, picked)
  PROVE  /\ PageCallInv(c)' /\ calls'[c].op = k.op
         /\ calls'[c].by = by /\ ~calls'[c].told
<1>1. ListOf(k.op) \in Query
  BY ListOfRefreshed
<1>2. found \in {<<>>} \cup {<<r>> : r \in UNION {RowsOfList[q] : q \in Query}}
  <2>1. CASE found = <<>>
    BY <2>1
  <2>2. CASE found # <<>>
    <3>1. found = <<found[1]>> /\ found[1] \in UNION {RowsOfList[q] : q \in Query}
      BY <1>1, <2>2
    <3>2. QED
      BY <3>1
  <2>3. QED
    BY <2>1, <2>2
<1>3. CallOf(k, by, found, picked) \in PageCallRow
  BY <1>2, WantFacts DEF CallOf, PageCallRow
<1>4. Want(calls'[c].op, calls'[c].what, calls'[c].to) = k
  BY WantFacts DEF CallOf
<1>5. /\ calls'[c].op = k.op /\ calls'[c].by = by /\ ~calls'[c].told /\ calls'[c].found = found
      /\ calls'[c].at = "sent" /\ calls'[c].picked = picked
  BY DEF CallOf
<1>6. QED
  BY <1>3, <1>4, <1>5 DEF PageCallInv

\* The patch of a list is a list of its kind.
LEMMA PatchTyped ==
  ASSUME NEW k \in Wants, k.op \in {"move", "delete"} => k.what \in Inline,
         NEW rows \in RowsOfList[ListOf(k.op)]
  PROVE  Patch(k, rows) \in RowsOfList[ListOf(k.op)]
<1>1. /\ k.to \in Destination
      /\ k.op \in {"move", "delete", "deleteFolder", "deleteRepository", "sync"}
  BY WantFacts
<1>2. CASE k.op = "move"
  <2>1. ListOf(k.op) = "playbooks" /\ rows \in PlaybookRows
    BY <1>2, RowsOfEach DEF ListOf
  <2>2. [rows EXCEPT ![k.what] = k.to] \in PlaybookRows
    BY <1>1, <1>2, <2>1 DEF PlaybookRows, PlacesOf, Place, Destination
  <2>3. QED
    BY <1>2, <2>1, <2>2, RowsOfEach DEF Patch
<1>3. CASE k.op = "delete"
  <2>1. ListOf(k.op) = "playbooks" /\ rows \in PlaybookRows
    BY <1>3, RowsOfEach DEF ListOf
  <2>2. [rows EXCEPT ![k.what] = Absent] \in PlaybookRows
    BY <2>1 DEF PlaybookRows, PlacesOf, Place
  <2>3. QED
    BY <1>3, <2>1, <2>2, RowsOfEach DEF Patch
<1>4. CASE k.op = "deleteFolder"
  BY <1>4, RowsOfEach DEF ListOf, Patch
<1>5. CASE k.op = "deleteRepository"
  BY <1>5, RowsOfEach DEF ListOf, Patch
<1>6. CASE k.op = "sync"
  BY <1>6 DEF Patch
<1>7. QED
  BY <1>1, <1>2, <1>3, <1>4, <1>5, <1>6

\* A call goes out: it is patched into its list, which is wrong until it is told.
LEMMA SendStep ==
  ASSUME PlaybooksPageInv, NEW k \in Wants, NEW picked \in BOOLEAN,
         k.op \in {"move", "delete"} => k.what \in Inline, k.op = "move" => picked,
         Send(k, picked), UNCHANGED <<stored, troubles>>
  PROVE  PageRowsInv' /\ PageCallsInv' /\ PageListsTyped' /\ AllShown'
<1>1. PICK its, l, rows : its = ListOf(k.op) /\ l = lists[its] /\ rows = l.rows
  OBVIOUS
<1>2. PICK c \in Call :
        /\ IsNext(c) /\ calls' = [calls EXCEPT ![c] = CallOf(k, "page", rows, picked)]
        /\ lists' = [lists EXCEPT ![its] = IF k.op = "sync" THEN Cancelled(l)
                                           ELSE PatchedList(l, Patch(k, l.rows[1]))]
  BY <1>1 DEF Send
<1>3. its \in Query /\ its \in Refreshes(k.op) /\ IsListOver(l, RowsOfList[its])
  BY <1>1, ListOfRefreshed DEF PlaybooksPageInv, PageListsTyped
<1>4. l.rows = <<>> \/ (l.rows = <<l.rows[1]>> /\ l.rows[1] \in RowsOfList[its])
  BY <1>3 DEF IsListOver
<1>5. l.rows = <<>> \/ Patch(k, l.rows[1]) \in RowsOfList[its]
  BY <1>1, <1>4, PatchTyped
<1>6. IsListOver(PatchedList(l, Patch(k, l.rows[1])), RowsOfList[its])
  BY <1>3, <1>5, SetLists
<1>7. IsListOver(Cancelled(l), RowsOfList[its])
  BY <1>3, AskedLists
<1>8. PageListsTyped' /\ \A q \in Query \ {its} : lists'[q] = lists[q]
  BY <1>2, <1>3, <1>6, <1>7, OneOfThePage DEF PlaybooksPageInv
<1>9. calls[c] = NoCall
  BY <1>2 DEF IsNext
<1>10. /\ DOMAIN calls' = Call /\ calls'[c] = CallOf(k, "page", rows, picked)
       /\ \A d \in Call \ {c} : PageCallInv(d)'
       /\ \A d \in Call, q \in Query : Changes(d, q) => Changes(d, q)'
  BY <1>2, <1>9, CallJoins DEF PlaybooksPageInv
<1>11. PageCallInv(c)' /\ calls'[c].op = k.op /\ calls'[c].by = "page" /\ ~calls'[c].told
  <2>1. \/ rows = <<>>
        \/ rows = <<rows[1]>> /\ rows[1] \in RowsOfList[ListOf(k.op)]
    BY <1>1, <1>4
  <2>2. QED
    BY <1>10, <2>1, CallTyped
<1>12. PageCallsInv'
  BY <1>10, <1>11 DEF PageCallsInv
<1>13. Changes(c, its)'
  BY <1>3, <1>11 DEF Changes, Awaited, Refreshes
<1>14. AllShown'
  BY <1>8, <1>10, <1>13, CalmPage DEF PlaybooksPageInv, Echo
<1>15. PageRowsInv'
  BY DEF PlaybooksPageInv, PageRowsInv
<1>16. QED
  BY <1>8, <1>12, <1>14, <1>15

\* What is deleted was asked about.
LEMMA ConfirmPage ==
  ASSUME PlaybooksPageInv, Confirm
  PROVE  PlaybooksPageInv'
<1>1. PICK k : k = Want(dialog.op, dialog.what, Root)
  OBVIOUS
<1>2. /\ dialog.op \in {"delete", "deleteFolder", "deleteRepository"} /\ Send(k, FALSE)
      /\ dialog' = NoDialog /\ UNCHANGED <<stored, troubles>>
  BY <1>1 DEF Confirm
<1>3. Want(dialog.op, dialog.what, dialog.to) \in Wants /\ PageDialogInv
  BY <1>2 DEF PlaybooksPageInv, PageDialogInv, NoDialog
<1>4. /\ Want(dialog.op, dialog.what, dialog.to).op = dialog.op
      /\ Want(dialog.op, dialog.what, dialog.to).what = dialog.what
      /\ k.op = dialog.op /\ k.what = dialog.what
  BY <1>1 DEF Want
<1>5. k \in Wants
  BY <1>1, <1>2, <1>3, <1>4, WantFacts DEF Wants
<1>6. PageRowsInv' /\ PageCallsInv' /\ PageListsTyped' /\ AllShown'
  BY <1>2, <1>3, <1>4, <1>5, SendStep DEF PageDialogInv
<1>7. PageDialogInv'
  BY <1>2 DEF PageDialogInv, NoDialog, Destination
<1>8. QED
  BY <1>6, <1>7 DEF PlaybooksPageInv

\* What is moved was picked, or it would be where it is.
LEMMA SubmitMovePage ==
  ASSUME PlaybooksPageInv, SubmitMove
  PROVE  PlaybooksPageInv'
<1>1. PICK k, picked : k = Want("move", dialog.what, dialog.to) /\ picked = dialog.picked
  OBVIOUS
<1>2. /\ dialog.op = "move" /\ dialog.to # dialog.from /\ Send(k, picked)
      /\ UNCHANGED <<stored, dialog, troubles>>
  BY <1>1 DEF SubmitMove
<1>3. PageDialogInv
  BY DEF PlaybooksPageInv
<1>4. k \in Wants /\ k.op = "move" /\ k.what \in Inline /\ picked \in BOOLEAN /\ picked
  BY <1>1, <1>2, <1>3 DEF PageDialogInv, Want, NoDialog
<1>5. PageRowsInv' /\ PageCallsInv' /\ PageListsTyped' /\ AllShown'
  BY <1>2, <1>4, SendStep
<1>6. PageDialogInv'
  BY <1>2, <1>3 DEF PageDialogInv
<1>7. QED
  BY <1>5, <1>6 DEF PlaybooksPageInv

\* A sync leaves the list of repositories.
LEMMA SyncPage ==
  ASSUME PlaybooksPageInv, NEW r \in Repo, SyncRepository(r)
  PROVE  PlaybooksPageInv'
<1>1. PICK k : k = Want("sync", r, Root)
  OBVIOUS
<1>2. Send(k, FALSE) /\ UNCHANGED <<stored, dialog, troubles>>
  BY <1>1 DEF SyncRepository
<1>3. k \in Wants /\ k.op = "sync"
  BY <1>1 DEF Wants, Want
<1>4. PageRowsInv' /\ PageCallsInv' /\ PageListsTyped' /\ AllShown'
  BY <1>2, <1>3, SendStep
<1>5. PageDialogInv'
  BY <1>2 DEF PlaybooksPageInv, PageDialogInv
<1>6. QED
  BY <1>4, <1>5 DEF PlaybooksPageInv

\* A call that the page does not know of.
LEMMA CallElsewherePage ==
  ASSUME PlaybooksPageInv, NEW k \in Wants, CallElsewhere(k)
  PROVE  PlaybooksPageInv'
<1>1. PICK c \in Call : /\ IsNext(c) /\ calls' = [calls EXCEPT ![c] = CallOf(k, "api", <<>>, FALSE)]
                        /\ UNCHANGED <<stored, lists, dialog, troubles>>
  BY DEF CallElsewhere
<1>2. calls[c] = NoCall
  BY <1>1 DEF IsNext
<1>3. /\ DOMAIN calls' = Call /\ calls'[c] = CallOf(k, "api", <<>>, FALSE)
      /\ \A d \in Call \ {c} : PageCallInv(d)'
      /\ \A d \in Call, q \in Query : Changes(d, q) => Changes(d, q)'
  BY <1>1, <1>2, CallJoins DEF PlaybooksPageInv
<1>4. PageCallInv(c)'
  BY <1>3, CallTyped
<1>5. PageCallsInv'
  BY <1>3, <1>4 DEF PageCallsInv
<1>6. AllShown'
  BY <1>1, <1>3, CalmPage DEF PlaybooksPageInv, Echo
<1>7. PageRowsInv' /\ PageDialogInv' /\ PageListsTyped'
  BY <1>1 DEF PlaybooksPageInv, PageRowsInv, PageDialogInv, PageListsTyped
<1>8. QED
  BY <1>5, <1>6, <1>7 DEF PlaybooksPageInv

\* A call goes on to its next step: the rest of it stays.
LEMMA CallGoes ==
  ASSUME PageCallsInv, NEW c \in Call, calls[c] # NoCall,
         NEW s \in {"inline", "ready", "written", "refused"}, Goes(c, s),
         s \in {"inline", "ready"} => ByHand(c) /\ calls[c].what \in Inline
  PROVE  /\ PageCallsInv'
         /\ \A d \in Call, q \in Query : Changes(d, q) => Changes(d, q)'
         /\ \A d \in Call, q \in Query : Changes(d, q)' => Changes(d, q)
<1>1. PageCallInv(c) /\ calls[c] \in PageCallRow
  BY DEF PageCallsInv, PageCallInv
<1>2. calls' = [calls EXCEPT ![c].at = s]
  BY DEF Goes
<1>3. /\ DOMAIN calls' = Call /\ calls'[c] = [calls[c] EXCEPT !.at = s]
      /\ \A d \in Call \ {c} : calls'[d] = calls[d]
  BY <1>2 DEF PageCallsInv
<1>4. calls'[c] \in PageCallRow
  BY <1>1, <1>3 DEF PageCallRow
<1>5. /\ calls'[c].op = calls[c].op /\ calls'[c].what = calls[c].what /\ calls'[c].to = calls[c].to
      /\ calls'[c].by = calls[c].by /\ calls'[c].told = calls[c].told
      /\ calls'[c].found = calls[c].found /\ calls'[c].picked = calls[c].picked
      /\ calls'[c].at = s
  BY <1>1, <1>3 DEF PageCallRow
<1>6. PageCallInv(c)'
  BY <1>1, <1>4, <1>5 DEF PageCallInv, ByHand
<1>7. \A d \in Call \ {c} : PageCallInv(d)'
  BY <1>3 DEF PageCallsInv, PageCallInv, ByHand
<1>8. PageCallsInv'
  BY <1>3, <1>6, <1>7 DEF PageCallsInv
<1>9. \A d \in Call, q \in Query : Changes(d, q) <=> Changes(d, q)'
  BY <1>3, <1>5 DEF Changes, Awaited, Refreshes
<1>10. QED
  BY <1>8, <1>9

\* The checks before a statement, and its refusal.
LEMMA CheckSteps ==
  ASSUME PlaybooksPageInv, NEW c \in Call,
         AssertInline(c) \/ AssertFolderExists(c) \/ RefuseCall(c)
  PROVE  PlaybooksPageInv'
<1>1. /\ calls[c].at # "new" /\ UNCHANGED <<stored, lists, dialog, troubles>>
      /\ \E s \in {"inline", "ready", "refused"} :
           Goes(c, s) /\ (s \in {"inline", "ready"} => ByHand(c) /\ calls[c].what \in Inline)
  <2>1. PageCallInv(c)
    BY DEF PlaybooksPageInv, PageCallsInv
  <2>2. CASE AssertInline(c)
    BY <2>2 DEF AssertInline, MayTouch
  <2>3. CASE AssertFolderExists(c)
    BY <2>1, <2>3, NoPageCall DEF AssertFolderExists, PageCallInv
  <2>4. CASE RefuseCall(c)
    BY <2>4 DEF RefuseCall
  <2>5. QED
    BY <2>2, <2>3, <2>4
<1>2. calls[c] # NoCall
  BY <1>1, NoPageCall
<1>3. PageCallsInv' /\ \A d \in Call, q \in Query : Changes(d, q) => Changes(d, q)'
  BY <1>1, <1>2, CallGoes DEF PlaybooksPageInv
<1>4. AllShown'
  BY <1>1, <1>3, CalmPage DEF PlaybooksPageInv, Echo
<1>5. PageRowsInv' /\ PageDialogInv' /\ PageListsTyped'
  BY <1>1 DEF PlaybooksPageInv, PageRowsInv, PageDialogInv, PageListsTyped
<1>6. QED
  BY <1>3, <1>4, <1>5 DEF PlaybooksPageInv

\* What a statement leaves in the tables, and which of them it changes.
LEMMA StatementRows ==
  ASSUME PlaybooksPageInv, NEW c \in Call, stored' \in Effects(calls[c]),
         calls[c].at = "ready" \/ (calls[c].at = "sent" /\ ~ByHand(c)), troubles' = troubles
  PROVE  /\ PageRowsInv' /\ calls[c] # NoCall
         /\ \A q \in Query : stored'[q] # stored[q] => q \in Refreshes(calls[c].op)
         /\ \A b \in RepoFile : stored'.playbooks[b] # stored.playbooks[b] =>
              calls[c].op \in {"sync", "deleteRepository"} /\ calls[c].what = b[1]
<1>1. PICK k : k = calls[c]
  OBVIOUS
<1>2. k # NoCall /\ PageRowsInv /\ PageCallInv(c)
  BY <1>1, NoPageCall DEF PlaybooksPageInv, PageCallsInv
<1>3. /\ Want(k.op, k.what, k.to) \in Wants
      /\ k.op \in {"move", "delete", "deleteFolder", "deleteRepository", "sync"}
      /\ k.op \in {"move", "delete"} => k.what \in Inline
  BY <1>1, <1>2 DEF PageCallInv, PageCallRow, ByHand
<1>4. /\ k.to \in Destination
      /\ k.op = "deleteFolder" => k.what \in Folder
      /\ k.op \in {"deleteRepository", "sync"} => k.what \in Repo
  BY <1>3, WantFacts DEF Want
<1>5. PICK p, f, r : p = stored.playbooks /\ f = stored.folders /\ r = stored.repositories
  OBVIOUS
<1>6. /\ stored = [playbooks |-> p, folders |-> f, repositories |-> r]
      /\ p \in PlaybookRows /\ f \subseteq Folder /\ r \subseteq Repo
  BY <1>2, <1>5 DEF PageRowsInv, Rows, PlaybookRows
<1>7. /\ \A b \in Inline : p[b] \in f \cup {Root, Absent}
      /\ \A b \in RepoFile : p[b] # Absent => b[1] \in r
      /\ \A b \in RepoFile : b[1] \in Repo /\ b \notin Inline
      /\ Playbook = Inline \cup RepoFile
  BY <1>2, <1>5 DEF PageRowsInv, RepoFile, Playbook
<1>8. \A x, y, z : x \in PlaybookRows /\ y \subseteq Folder /\ z \subseteq Repo
        => [playbooks |-> x, folders |-> y, repositories |-> z] \in Rows
  BY DEF Rows, PlaybookRows
<1> DEFINE Leaves(x, y, z) ==
      /\ stored' = [playbooks |-> x, folders |-> y, repositories |-> z]
      /\ x \in PlaybookRows /\ y \subseteq Folder /\ z \subseteq Repo
      /\ \A b \in Inline : x[b] \in y \cup {Root, Absent}
      /\ \A b \in RepoFile : x[b] # Absent => b[1] \in z
<1>9. ASSUME NEW x, NEW y, NEW z, Leaves(x, y, z)
      PROVE  PageRowsInv'
  <2>1. stored'.playbooks = x /\ stored'.folders = y /\ stored'.repositories = z
    BY <1>9
  <2>2. stored' \in Rows
    BY <1>8, <1>9
  <2>3. QED
    BY <1>2, <1>9, <2>1, <2>2 DEF PageRowsInv
<1>10. CASE k.op = "move"
  <2>1. stored' = [stored EXCEPT !.playbooks[k.what] = k.to] /\ k.to \in f \cup {Root}
    BY <1>1, <1>5, <1>10 DEF Effects
  <2>2. PICK x : x = [p EXCEPT ![k.what] = k.to]
    OBVIOUS
  <2>3. stored' = [playbooks |-> x, folders |-> f, repositories |-> r]
    BY <1>6, <2>1, <2>2
  <2>4. /\ x \in PlaybookRows
        /\ \A b \in Playbook : x[b] = IF b = k.what THEN k.to ELSE p[b]
    BY <1>3, <1>4, <1>6, <1>10, <2>2 DEF PlaybookRows, PlacesOf, Place
  <2>5. Leaves(x, f, r)
    BY <1>3, <1>6, <1>7, <1>10, <2>1, <2>3, <2>4
  <2>6. \A b \in RepoFile : x[b] = p[b]
    BY <1>3, <1>7, <1>10, <2>4
  <2>7. QED
    BY <1>1, <1>2, <1>5, <1>9, <1>10, <2>3, <2>5, <2>6 DEF Query, Refreshes, ListOf
<1>11. CASE k.op = "delete"
  <2>1. stored' = [stored EXCEPT !.playbooks[k.what] = Absent]
    BY <1>1, <1>11 DEF Effects
  <2>2. PICK x : x = [p EXCEPT ![k.what] = Absent]
    OBVIOUS
  <2>3. stored' = [playbooks |-> x, folders |-> f, repositories |-> r]
    BY <1>6, <2>1, <2>2
  <2>4. /\ x \in PlaybookRows
        /\ \A b \in Playbook : x[b] = IF b = k.what THEN Absent ELSE p[b]
    BY <1>3, <1>6, <1>11, <2>2 DEF PlaybookRows, PlacesOf, Place
  <2>5. Leaves(x, f, r)
    BY <1>3, <1>6, <1>7, <1>11, <2>3, <2>4
  <2>6. \A b \in RepoFile : x[b] = p[b]
    BY <1>3, <1>7, <1>11, <2>4
  <2>7. QED
    BY <1>1, <1>2, <1>5, <1>9, <1>11, <2>3, <2>5, <2>6 DEF Query, Refreshes, ListOf
<1>12. CASE k.op = "deleteFolder"
  <2>1. stored' = [stored EXCEPT !.folders = @ \ {k.what},
                     !.playbooks = [b \in Playbook |-> IF @[b] = k.what THEN Root ELSE @[b]]]
    BY <1>1, <1>12 DEF Effects
  <2>2. PICK x : x = [b \in Playbook |-> IF p[b] = k.what THEN Root ELSE p[b]]
    OBVIOUS
  <2>3. stored' = [playbooks |-> x, folders |-> f \ {k.what}, repositories |-> r]
    BY <1>6, <2>1, <2>2
  <2>4. \A b \in RepoFile : x[b] = p[b]
    <3>1. k.what \notin {"there", "missing", Absent}
      BY <1>4, <1>12 DEF Absent
    <3>2. \A b \in RepoFile : b \in Playbook /\ b \notin Inline
      BY <1>7
    <3>3. \A b \in RepoFile : p[b] \in {"there", "missing", Absent}
      BY <1>6, <3>2 DEF PlaybookRows, PlacesOf
    <3>4. QED
      BY <2>2, <3>1, <3>2, <3>3
  <2>5. \A b \in Inline : x[b] = IF p[b] = k.what THEN Root ELSE p[b]
    BY <1>7, <2>2
  <2>6. x \in PlaybookRows
    BY <1>6, <1>7, <2>2, <2>4, <2>5 DEF PlaybookRows, PlacesOf, Place, Destination
  <2>7. Leaves(x, f \ {k.what}, r)
    BY <1>6, <1>7, <2>3, <2>4, <2>5, <2>6
  <2>8. QED
    BY <1>1, <1>2, <1>5, <1>9, <1>12, <2>3, <2>4, <2>7 DEF Query, Refreshes, ListOf
<1>13. CASE k.op = "deleteRepository"
  <2>1. stored' = [stored EXCEPT !.repositories = @ \ {k.what},
                     !.playbooks = [b \in Playbook |-> IF b \in FilesOf(k.what) THEN Absent ELSE @[b]]]
    BY <1>1, <1>13 DEF Effects
  <2>2. PICK x : x = [b \in Playbook |-> IF b \in FilesOf(k.what) THEN Absent ELSE p[b]]
    OBVIOUS
  <2>3. stored' = [playbooks |-> x, folders |-> f, repositories |-> r \ {k.what}]
    BY <1>6, <2>1, <2>2
  <2>4. \A b \in RepoFile : x[b] = IF b[1] = k.what THEN Absent ELSE p[b]
    BY <1>7, <2>2 DEF FilesOf
  <2>5. \A b \in Inline : x[b] = p[b]
    BY <1>7, <2>2 DEF FilesOf
  <2>6. x \in PlaybookRows
    BY <1>6, <1>7, <2>2, <2>4, <2>5 DEF PlaybookRows, PlacesOf, Place
  <2>7. Leaves(x, f, r \ {k.what})
    BY <1>6, <1>7, <2>3, <2>4, <2>5, <2>6
  <2>8. QED
    BY <1>1, <1>2, <1>5, <1>9, <1>13, <2>3, <2>4, <2>7 DEF Query, Refreshes, ListOf
<1>14. CASE k.op = "sync"
  <2>1. PICK x \in Synced(k.what) : stored' = [stored EXCEPT !.playbooks = x]
    BY <1>1, <1>14 DEF Effects
  <2>2. k.what \in r
    BY <1>1, <1>5, <1>14 DEF Effects
  <2>3. stored' = [playbooks |-> x, folders |-> f, repositories |-> r]
    BY <1>6, <2>1
  <2>4. /\ x \in [Playbook -> Place] /\ \A b \in Inline : x[b] = p[b]
        /\ \A b \in RepoFile : \/ x[b] = p[b]
                               \/ b[1] = k.what /\ x[b] \in {"there", "missing", Absent}
    BY <1>5, <1>7 DEF Synced, FilesOf
  <2>5. x \in PlaybookRows
    BY <1>6, <1>7, <2>4 DEF PlaybookRows, PlacesOf
  <2>6. Leaves(x, f, r)
    BY <1>6, <1>7, <2>2, <2>3, <2>4, <2>5
  <2>7. QED
    BY <1>1, <1>2, <1>5, <1>9, <1>14, <2>3, <2>4, <2>6 DEF Query, Refreshes, ListOf
<1>15. QED
  BY <1>3, <1>10, <1>11, <1>12, <1>13, <1>14

\* A statement: the lists are asked for again when the page is told, or overtaken now.
LEMMA WriteRowsPage ==
  ASSUME PlaybooksPageInv, NEW c \in Call, WriteRows(c)
  PROVE  PlaybooksPageInv'
<1>1. /\ calls[c].at = "ready" \/ (calls[c].at = "sent" /\ ~ByHand(c))
      /\ stored' \in Effects(calls[c]) /\ Goes(c, "written") /\ UNCHANGED <<dialog, troubles>>
      /\ lists' = [q \in Query |-> IF Awaited(c) \/ stored'[q] = stored[q] THEN lists[q]
                                   ELSE Overtaken(lists[q])]
  BY DEF WriteRows
<1>2. /\ PageRowsInv' /\ calls[c] # NoCall
      /\ \A q \in Query : stored'[q] # stored[q] => q \in Refreshes(calls[c].op)
  BY <1>1, StatementRows
<1>3. /\ PageCallsInv' /\ \A d \in Call, q \in Query : Changes(d, q) => Changes(d, q)'
  BY <1>1, <1>2, CallGoes DEF PlaybooksPageInv
<1>4. ASSUME NEW q \in Query
      PROVE  /\ IsListOver(lists[q], RowsOfList[q])
             /\ IsListOver(Overtaken(lists[q]), RowsOfList[q]) /\ Mute(Overtaken(lists[q]))
  <2>1. IsListOver(lists[q], RowsOfList[q])
    BY DEF PlaybooksPageInv, PageListsTyped
  <2>2. QED
    BY <2>1, AskedLists, MuteLists
<1>5. PageListsTyped'
  BY <1>1, <1>4 DEF PageListsTyped
<1>6. ASSUME NEW q \in Query PROVE ShownInv(q)'
  <2>1. ShownInv(q)
    BY DEF PlaybooksPageInv, AllShown
  <2>2. CASE stored'[q] = stored[q]
    BY <1>1, <1>3, <2>1, <2>2, ShownStep DEF Echo
  <2>3. CASE stored'[q] # stored[q] /\ Awaited(c)
    <3>1. Changes(c, q)'
      BY <1>2, <1>3, <2>3 DEF Changes
    <3>2. QED
      BY <3>1 DEF ShownInv
  <2>4. CASE stored'[q] # stored[q] /\ ~Awaited(c)
    BY <1>1, <1>4, <2>4 DEF ShownInv, Mute
  <2>5. QED
    BY <2>2, <2>3, <2>4
<1>7. AllShown' /\ PageDialogInv'
  BY <1>1, <1>6 DEF AllShown, PlaybooksPageInv, PageDialogInv
<1>8. QED
  BY <1>2, <1>3, <1>5, <1>7 DEF PlaybooksPageInv

\* An answer: the lists that the call changes are asked for again.
LEMMA SettlePage ==
  ASSUME PlaybooksPageInv, NEW c \in Call, NEW ok \in BOOLEAN, SettleCall(c, ok)
  PROVE  PlaybooksPageInv'
<1>1. PICK k, its, back :
        /\ k = calls[c] /\ its = ListOf(k.op)
        /\ back = [lists EXCEPT ![its] = IF ok THEN lists[its] ELSE RolledBack(lists[its], k.found)]
  OBVIOUS
<1>2. /\ Awaited(c) /\ UNCHANGED <<stored, troubles>>
      /\ calls' = [calls EXCEPT ![c].told = TRUE, ![c].found = <<>>]
      /\ lists' = [q \in Query |-> IF q \in Refreshes(k.op) THEN Refetched(back[q]) ELSE back[q]]
      /\ dialog' = IF ok /\ k.op = "move" /\ dialog.op = "move" THEN NoDialog ELSE dialog
  BY <1>1 DEF SettleCall
<1>3. k # NoCall /\ PageCallInv(c) /\ k \in PageCallRow
  BY <1>1, <1>2, NoPageCall DEF PlaybooksPageInv, PageCallsInv, PageCallInv, Awaited
<1>4. /\ DOMAIN calls' = Call /\ \A d \in Call \ {c} : calls'[d] = calls[d]
      /\ calls'[c] = [k EXCEPT !.told = TRUE, !.found = <<>>]
  BY <1>1, <1>2, <1>3 DEF PlaybooksPageInv, PageCallsInv, PageCallRow
<1>5. /\ calls'[c] \in PageCallRow /\ calls'[c].op = k.op /\ calls'[c].what = k.what
      /\ calls'[c].to = k.to /\ calls'[c].by = k.by /\ calls'[c].told /\ calls'[c].found = <<>>
      /\ calls'[c].picked = k.picked /\ calls'[c].at = k.at
  BY <1>3, <1>4 DEF PageCallRow
<1>6. PageCallInv(c)'
  BY <1>1, <1>3, <1>5 DEF PageCallInv, ByHand
<1>7. \A d \in Call \ {c} : PageCallInv(d)'
  BY <1>4 DEF PlaybooksPageInv, PageCallsInv, PageCallInv, ByHand
<1>8. PageCallsInv'
  BY <1>4, <1>6, <1>7 DEF PageCallsInv
<1>9. its \in Query /\ its \in Refreshes(k.op)
  BY <1>1, ListOfRefreshed
<1>10. IsListOver(back[its], RowsOfList[its]) /\ \A q \in Query \ {its} : back[q] = lists[q]
  <2>1. IsListOver(lists[its], RowsOfList[its])
    BY <1>9 DEF PlaybooksPageInv, PageListsTyped
  <2>2. k.found = <<>> \/ k.found[1] \in RowsOfList[its]
    BY <1>1, <1>3 DEF PageCallInv
  <2>3. PICK r \in RowsOfList[its] : TRUE
    <3>1. stored[its] \in RowsOfList[its]
      BY <1>9, RowsOfEach DEF PlaybooksPageInv, PageRowsInv
    <3>2. QED
      BY <3>1
  <2>4. IsListOver(RolledBack(lists[its], k.found), RowsOfList[its])
    BY <2>1, <2>2, <2>3, SetLists
  <2>5. QED
    BY <1>1, <1>9, <2>1, <2>4 DEF PlaybooksPageInv, PageListsTyped
<1>11. \A q \in Query : IsListOver(back[q], RowsOfList[q])
  BY <1>10 DEF PlaybooksPageInv, PageListsTyped
<1>12. ASSUME NEW q \in Query
       PROVE  /\ IsListOver(Refetched(back[q]), RowsOfList[q]) /\ Mute(Refetched(back[q]))
  <2>1. IsListOver(back[q], RowsOfList[q])
    BY <1>11
  <2>2. QED
    BY <2>1, AskedLists, MuteLists
<1>13. PageListsTyped'
  BY <1>2, <1>11, <1>12 DEF PageListsTyped
<1>14. ASSUME NEW q \in Query PROVE ShownInv(q)'
  <2>1. CASE q \in Refreshes(k.op)
    BY <1>2, <1>12, <2>1 DEF ShownInv, Mute
  <2>2. CASE q \notin Refreshes(k.op)
    <3>1. lists'[q] = lists[q]
      BY <1>2, <1>9, <1>10, <2>2
    <3>2. \A d \in Call : Changes(d, q) => Changes(d, q)'
      BY <1>1, <1>4, <2>2 DEF Changes, Awaited
    <3>3. ShownInv(q)
      BY DEF PlaybooksPageInv, AllShown
    <3>4. QED
      BY <1>2, <3>1, <3>2, <3>3, ShownStep DEF Echo
  <2>3. QED
    BY <2>1, <2>2
<1>15. PageDialogInv'
  BY <1>2 DEF PlaybooksPageInv, PageDialogInv, NoDialog, Destination
<1>16. AllShown' /\ PageRowsInv'
  BY <1>2, <1>14 DEF AllShown, PlaybooksPageInv, PageRowsInv
<1>17. QED
  BY <1>8, <1>13, <1>15, <1>16 DEF PlaybooksPageInv

\* A fetch brings what was stored when it read, unless it is late.
LEMMA FetchPages ==
  ASSUME PlaybooksPageInv, NEW x \in Query, FetchPage(x)
  PROVE  PlaybooksPageInv'
<1>1. PICK l, rows : l = lists[x] /\ rows = stored[x]
  OBVIOUS
<1>2. /\ UNCHANGED <<stored, calls, dialog, troubles>>
      /\ \/ lists' = [lists EXCEPT ![x] = HasRead(l, rows)]
         \/ l.answer # <<>> /\ lists' = [lists EXCEPT ![x] = Arrived(l)]
  BY <1>1 DEF FetchPage
<1>3. IsListOver(l, RowsOfList[x]) /\ rows \in RowsOfList[x]
  BY <1>1, RowsOfEach DEF PlaybooksPageInv, PageListsTyped, PageRowsInv
<1>4. /\ IsListOver(HasRead(l, rows), RowsOfList[x]) /\ HasRead(l, rows).answer = <<rows>>
      /\ HasRead(l, rows).rows = l.rows /\ (UpToDate(HasRead(l, rows)) <=> UpToDate(l))
      /\ l.answer # <<>> =>
           /\ IsListOver(Arrived(l), RowsOfList[x]) /\ Arrived(l).rows = l.answer
           /\ Arrived(l).answer = <<>> /\ Arrived(l).missed = l.late
  BY <1>3, ReadLists
<1>5. /\ PageListsTyped' /\ \A q \in Query \ {x} : lists'[q] = lists[q]
      /\ lists'[x] = HasRead(l, rows) \/ (l.answer # <<>> /\ lists'[x] = Arrived(l))
  BY <1>2, <1>4, OneOfThePage DEF PlaybooksPageInv
<1>6. /\ UpToDate(lists'[x]) =>
           \/ UpToDate(l) /\ lists'[x].rows = l.rows
           \/ l.answer # <<>> /\ ~l.late /\ lists'[x].rows = l.answer
      /\ lists'[x].answer # <<>> => lists'[x].answer[1] = rows
  <2>1. CASE lists'[x] = HasRead(l, rows)
    BY <1>4, <2>1
  <2>2. CASE l.answer # <<>> /\ lists'[x] = Arrived(l)
    <3>1. lists'[x].rows = l.answer /\ lists'[x].answer = <<>> /\ lists'[x].missed = l.late
      BY <1>4, <2>2
    <3>2. UpToDate(lists'[x]) => ~lists'[x].missed
      BY DEF UpToDate
    <3>3. QED
      BY <2>2, <3>1, <3>2
  <2>3. QED
    BY <1>5, <2>1, <2>2
<1>7. PageRowsInv' /\ PageCallsInv' /\ PageDialogInv'
  BY <1>2 DEF PlaybooksPageInv, PageRowsInv, PageCallsInv, PageCallInv, ByHand, PageDialogInv
<1>8. \A c \in Call, q \in Query : Changes(c, q) => Changes(c, q)'
  BY <1>2 DEF Changes, Awaited
<1>9. ASSUME NEW q \in Query PROVE ShownInv(q)'
  <2>1. ShownInv(q)
    BY DEF PlaybooksPageInv, AllShown
  <2>2. CASE q # x
    BY <1>2, <1>5, <1>8, <2>1, <2>2, ShownStep DEF Echo
  <2>3. CASE q = x
    BY <1>1, <1>2, <1>6, <1>8, <2>1, <2>3 DEF ShownInv
  <2>4. QED
    BY <2>2, <2>3
<1>10. AllShown'
  BY <1>9 DEF AllShown
<1>11. QED
  BY <1>5, <1>7, <1>10 DEF PlaybooksPageInv

\* Fetches that fail or begin, one of them or all.
LEMMA TroublePages ==
  ASSUME PlaybooksPageInv, RetryPage \/ \E q \in Query : TroubleFetch(q)
  PROVE  PlaybooksPageInv'
<1>1. UNCHANGED <<stored, calls, dialog>> /\ troubles' \in 0 .. MaxSteps
  <2>1. SentCalls \in Nat
    <3>1. IsFiniteSet(Call)
      BY FS_Interval DEF Call
    <3>2. IsFiniteSet({c \in Call : calls[c] # NoCall})
      BY <3>1, FS_Subset
    <3>3. QED
      BY <3>2, FS_CardinalityType DEF SentCalls
  <2>2. troubles \in 0 .. MaxSteps
    BY DEF PlaybooksPageInv, PageRowsInv
  <2>3. QED
    BY <2>1, <2>2 DEF RetryPage, TroubleFetch
<1>2. ASSUME NEW q \in Query
      PROVE  /\ IsListOver(lists[q], RowsOfList[q])
             /\ IsListOver(Refetched(lists[q]), RowsOfList[q]) /\ Mute(Refetched(lists[q]))
             /\ IsListOver(Asked(lists[q]), RowsOfList[q]) /\ Mute(Asked(lists[q]))
             /\ IsListOver(FetchFailed(lists[q]), RowsOfList[q]) /\ Mute(FetchFailed(lists[q]))
  <2>1. IsListOver(lists[q], RowsOfList[q])
    BY DEF PlaybooksPageInv, PageListsTyped
  <2>2. QED
    BY <2>1, AskedLists, MuteLists
<1>3. PageListsTyped' /\ \A q \in Query : Mute(lists'[q]) \/ lists'[q] = lists[q]
  <2>1. CASE RetryPage
    BY <1>2, <2>1 DEF RetryPage, PageListsTyped
  <2>2. ASSUME NEW x \in Query, TroubleFetch(x)
        PROVE  PageListsTyped' /\ \A q \in Query : Mute(lists'[q]) \/ lists'[q] = lists[q]
    <3>1. PICK m : m = IF lists[x].asked THEN FetchFailed(lists[x]) ELSE Asked(lists[x])
      OBVIOUS
    <3>2. IsListOver(m, RowsOfList[x]) /\ Mute(m) /\ lists' = [lists EXCEPT ![x] = m]
      BY <1>2, <2>2, <3>1 DEF TroubleFetch
    <3>3. QED
      BY <3>2, OneOfThePage DEF PlaybooksPageInv
  <2>3. QED
    BY <2>1, <2>2
<1>4. \A c \in Call, q \in Query : Changes(c, q) => Changes(c, q)'
  BY <1>1 DEF Changes, Awaited
<1>5. AllShown'
  BY <1>1, <1>3, <1>4, CalmPage DEF PlaybooksPageInv, Echo
<1>6. PageRowsInv' /\ PageCallsInv' /\ PageDialogInv'
  BY <1>1 DEF PlaybooksPageInv, PageRowsInv, PageCallsInv, PageCallInv, ByHand, PageDialogInv
<1>7. QED
  BY <1>3, <1>5, <1>6 DEF PlaybooksPageInv

\* PlaybooksPageInv is inductive.
LEMMA PlaybooksPageStep ==
  PlaybooksPageInv /\ [PlaybooksPageNext]_pageVars => PlaybooksPageInv'
<1> SUFFICES ASSUME PlaybooksPageInv, [PlaybooksPageNext]_pageVars PROVE PlaybooksPageInv'
  OBVIOUS
<1>1. CASE UNCHANGED pageVars
  <2>1. UNCHANGED <<stored, lists, calls, dialog, troubles>>
    BY <1>1 DEF pageVars
  <2>2. PageDialogInv'
    BY <2>1 DEF PlaybooksPageInv, PageDialogInv
  <2>3. QED
    BY <2>1, <2>2, SamePage DEF PlaybooksPageInv
<1>2. CASE PlaybooksPageNext
  BY <1>2, DialogSteps, ConfirmPage, SubmitMovePage, SyncPage, CallElsewherePage, CheckSteps,
     WriteRowsPage, SettlePage, FetchPages, TroublePages DEF PlaybooksPageNext
<1>3. QED
  BY <1>1, <1>2

----------------------------------------------------------------------------
(* What the page shows.                                                    *)

\* Once nothing is under way, every list is what is stored.
LEMMA QuietPage ==
  ASSUME PlaybooksPageInv, PageQuiet
  PROVE  /\ \A q \in Query : Loaded(q) = stored[q] /\ UpToDate(lists[q])
         /\ ~PageError /\ ~PagePending
<1>1. ASSUME NEW q \in Query PROVE Loaded(q) = stored[q] /\ UpToDate(lists[q])
  <2>1. ShownInv(q) /\ UpToDate(lists[q])
    BY DEF PlaybooksPageInv, AllShown, PageQuiet
  <2>2. \A c \in Call : ~Changes(c, q)
    BY DEF PageQuiet, Changes
  <2>3. QED
    BY <2>1, <2>2 DEF ShownInv, Loaded
<1>2. QED
  BY <1>1 DEF UpToDate, PageError, PagePending, IsError, IsPending

\* Where the playbooks are that are stored.
LEMMA StoredPlaces ==
  ASSUME PageRowsInv
  PROVE  /\ Playbook = Inline \cup RepoFile /\ Inline \cap RepoFile = {}
         /\ stored.folders \subseteq Folder /\ stored.repositories \subseteq Repo
         /\ \A b \in Inline : /\ SectionOf(b) = stored.playbooks[b]
                              /\ b \in Present <=> stored.playbooks[b] # Absent
                              /\ b \in Present => stored.playbooks[b] \in stored.folders \cup {Root}
         /\ \A b \in RepoFile : /\ SectionOf(b) = b[1] /\ b[1] \in Repo
                                /\ b \in Present <=> stored.playbooks[b] = "there"
                                /\ b \in Present => b[1] \in stored.repositories
<1>1. Playbook = Inline \cup RepoFile /\ Inline \cap RepoFile = {}
  BY DEF Playbook, RepoFile
<1>2. /\ stored.folders \subseteq Folder /\ stored.repositories \subseteq Repo
      /\ \A b \in Playbook : stored.playbooks[b] \in PlacesOf(b)
  BY DEF PageRowsInv, Rows
<1>3. ASSUME NEW b \in Inline
      PROVE  /\ SectionOf(b) = stored.playbooks[b]
             /\ b \in Present <=> stored.playbooks[b] # Absent
             /\ b \in Present => stored.playbooks[b] \in stored.folders \cup {Root}
  <2>1. stored.playbooks[b] \in stored.folders \cup {Root, Absent}
    BY DEF PageRowsInv
  <2>2. stored.playbooks[b] # "missing"
    BY <1>2, <2>1 DEF Root, Absent
  <2>3. QED
    BY <1>1, <2>1, <2>2 DEF SectionOf, Present
<1>4. ASSUME NEW b \in RepoFile
      PROVE  /\ SectionOf(b) = b[1] /\ b[1] \in Repo
             /\ b \in Present <=> stored.playbooks[b] = "there"
             /\ b \in Present => b[1] \in stored.repositories
  <2>1. stored.playbooks[b] \in {"there", "missing", Absent} /\ b \notin Inline /\ b \in Playbook
    BY <1>1, <1>2 DEF PlacesOf
  <2>2. b[1] \in Repo /\ (stored.playbooks[b] # Absent => b[1] \in stored.repositories)
    BY DEF PageRowsInv, RepoFile
  <2>3. "there" \notin {"missing", Absent}
    BY DEF Absent
  <2>4. QED
    BY <2>1, <2>2, <2>3 DEF SectionOf, Present
<1>5. QED
  BY <1>1, <1>2, <1>3, <1>4

\* What a section has of its playbooks.
LEMMA QuietSections ==
  ASSUME PlaybooksPageInv, PageQuiet, NEW look
  PROVE  /\ \A d : InlineAt(look, d) =
                     {b \in Inline : stored.playbooks[b] = d /\ Matching(look, b)}
         /\ \A r : InRepository(look, r) =
                     {b \in RepoFile : b[1] = r /\ b \in Present /\ Matching(look, b)}
         /\ FolderGroups(look) =
              {f \in stored.folders : /\ look.inside = <<>> /\ look.filter \in {"all", "folders"}
                                      /\ InlineAt(look, f) # {} \/ Matching(look, f)}
         /\ RepositoryGroups(look) =
              {r \in stored.repositories :
                 /\ look.inside = <<>> /\ look.filter \in {"all", "repositories"}
                 /\ InRepository(look, r) # {} \/ Matching(look, r)}
<1>1. /\ Loaded("playbooks") = stored.playbooks /\ Loaded("folders") = stored.folders
      /\ Loaded("repositories") = stored.repositories
  BY QuietPage DEF Query
<1>2. \A b \in RepoFile : b \in Present <=> stored.playbooks[b] = "there"
  BY StoredPlaces DEF PlaybooksPageInv
<1>3. QED
  BY <1>1, <1>2 DEF InlineAt, InRepository, FilesOf, FolderGroups, RepositoryGroups

\* A playbook shows in its section, when that is open and the search wants it, and nowhere else.
LEMMA OverviewHolds ==
  ASSUME PlaybooksPageInv
  PROVE  OverviewIsTrue
<1> SUFFICES ASSUME PageQuiet, NEW look \in Looks
             PROVE  Visible(look) =
                      {b \in Present :
                        /\ Matching(look, b)
                        /\ look.inside # <<>> => SectionOf(b) = look.inside[1]
                        /\ look.inside = <<>> /\ look.search = <<>> =>
                             SectionOf(b) \notin look.collapsed}
  BY DEF OverviewIsTrue
<1> DEFINE Asks(b) == /\ Matching(look, b)
                      /\ look.inside # <<>> => SectionOf(b) = look.inside[1]
                      /\ look.inside = <<>> /\ look.search = <<>> =>
                           SectionOf(b) \notin look.collapsed
           FoldersOpen == {f \in FolderGroups(look) : ~IsCollapsed(look, f)}
           ReposOpen == {r \in RepositoryGroups(look) : ~IsCollapsed(look, r)}
           Shown(b) == \/ b \in Loose(look)
                       \/ \E f \in FoldersOpen : b \in InlineAt(look, f)
                       \/ \E r \in ReposOpen : b \in InRepository(look, r)
<1>1. PageRowsInv /\ Root \notin Folder \cup Repo /\ Absent \notin Folder \cup Repo
      /\ Root # Absent
  BY DEF PlaybooksPageInv, Root, Absent
<1>2. /\ look.inside = <<>> \/ \E f \in Folder : look.inside = <<f>>
      /\ look.collapsed \subseteq Folder \cup Repo /\ look.filter = "all"
  BY DEF Looks, Look
<1>3. /\ \A b, d : b \in InlineAt(look, d) <=>
                     b \in Inline /\ stored.playbooks[b] = d /\ Matching(look, b)
      /\ \A b, r : b \in InRepository(look, r) <=>
                     b \in RepoFile /\ b[1] = r /\ b \in Present /\ Matching(look, b)
  <2>1. ASSUME NEW d PROVE InlineAt(look, d) =
                             {b \in Inline : stored.playbooks[b] = d /\ Matching(look, b)}
    BY QuietSections
  <2>2. ASSUME NEW r PROVE InRepository(look, r) =
                             {b \in RepoFile : b[1] = r /\ b \in Present /\ Matching(look, b)}
    BY QuietSections
  <2>3. QED
    BY <2>1, <2>2
<1>4. Playbook = Inline \cup RepoFile /\ Inline \cap RepoFile = {}
  BY <1>1, StoredPlaces
<1>5. Visible(look) = {b \in Playbook : Shown(b)}
  <2> DEFINE InFolders == UNION {InlineAt(look, f) : f \in FoldersOpen}
             InRepos == UNION {InRepository(look, r) : r \in ReposOpen}
  <2>1. Visible(look) = Loose(look) \cup InFolders \cup InRepos
    BY DEF Visible
  <2>2. ASSUME NEW b
        PROVE  /\ b \in InFolders <=> \E f \in FoldersOpen : b \in InlineAt(look, f)
               /\ b \in InRepos <=> \E r \in ReposOpen : b \in InRepository(look, r)
    <3> HIDE DEF FoldersOpen, ReposOpen
    <3>1. b \in InFolders <=> \E f \in FoldersOpen : b \in InlineAt(look, f)
      OBVIOUS
    <3>2. b \in InRepos <=> \E r \in ReposOpen : b \in InRepository(look, r)
      OBVIOUS
    <3>3. QED
      BY <3>1, <3>2
  <2> HIDE DEF InFolders, InRepos
  <2>3. \A b : b \in Visible(look) <=> Shown(b)
    BY <2>1, <2>2
  <2>4. \A b : Shown(b) => b \in Playbook
    BY <1>3, <1>4 DEF Loose
  <2>5. QED
    BY <2>4, <2>3
<1>6. ASSUME NEW b \in Playbook, look.inside = <<>>
      PROVE  Shown(b) <=> b \in Present /\ Asks(b)
  <2>1. Loose(look) = InlineAt(look, Root)
    BY <1>2, <1>6 DEF Loose
  <2>2. /\ FoldersOpen = {f \in stored.folders : /\ InlineAt(look, f) # {} \/ Matching(look, f)
                                                /\ ~IsCollapsed(look, f)}
        /\ ReposOpen = {r \in stored.repositories :
                          /\ InRepository(look, r) # {} \/ Matching(look, r)
                          /\ ~IsCollapsed(look, r)}
    BY <1>2, <1>6, QuietSections
  <2> HIDE DEF FoldersOpen, ReposOpen
  <2>3. CASE b \in Inline
    <3>1. \A r : b \notin InRepository(look, r)
      BY <1>3, <1>4, <2>3
    <3>2. \A d : b \in InlineAt(look, d) <=> stored.playbooks[b] = d /\ Matching(look, b)
      BY <1>3, <2>3
    <3>3. /\ SectionOf(b) = stored.playbooks[b] /\ stored.folders \subseteq Folder
          /\ b \in Present <=> stored.playbooks[b] # Absent
          /\ b \in Present => stored.playbooks[b] \in stored.folders \cup {Root}
      BY <1>1, <2>3, StoredPlaces
    <3>4. CASE stored.playbooks[b] = Root
      BY <1>1, <1>2, <1>6, <2>1, <2>2, <3>1, <3>2, <3>3, <3>4
    <3>5. CASE stored.playbooks[b] # Root
      <4>1. Shown(b) <=> /\ stored.playbooks[b] \in FoldersOpen /\ Matching(look, b)
        BY <2>1, <3>1, <3>2, <3>5
      <4>2. Matching(look, b) => InlineAt(look, stored.playbooks[b]) # {}
        BY <3>2
      <4>3. Shown(b) <=> /\ stored.playbooks[b] \in stored.folders /\ Matching(look, b)
                         /\ ~IsCollapsed(look, stored.playbooks[b])
        BY <2>2, <4>1, <4>2
      <4>4. b \in Present <=> stored.playbooks[b] \in stored.folders
        BY <1>1, <3>3, <3>5
      <4>5. QED
        BY <1>6, <3>3, <4>3, <4>4 DEF IsCollapsed
    <3>6. QED
      BY <3>4, <3>5
  <2>4. CASE b \in RepoFile
    <3>1. \A d : b \notin InlineAt(look, d)
      BY <1>3, <1>4, <2>4
    <3>2. \A r : b \in InRepository(look, r) <=>
                   r = b[1] /\ b \in Present /\ Matching(look, b)
      BY <1>3, <2>4
    <3>3. SectionOf(b) = b[1] /\ (b \in Present => b[1] \in stored.repositories)
      BY <1>1, <2>4, StoredPlaces
    <3>4. Shown(b) <=> b[1] \in ReposOpen /\ b \in Present /\ Matching(look, b)
      BY <2>1, <3>1, <3>2
    <3>5. b \in Present /\ Matching(look, b) => InRepository(look, b[1]) # {}
      BY <3>2
    <3>6. QED
      BY <1>6, <2>2, <3>3, <3>4, <3>5 DEF IsCollapsed
  <2>5. QED
    BY <1>1, <2>3, <2>4, StoredPlaces
<1>7. ASSUME NEW b \in Playbook, NEW f \in Folder, look.inside = <<f>>
      PROVE  Shown(b) <=> b \in Present /\ Asks(b)
  <2>1. look.inside # <<>> /\ look.inside[1] = f
    BY <1>7
  <2>2. Loose(look) = InlineAt(look, f) /\ FolderGroups(look) = {} /\ RepositoryGroups(look) = {}
    BY <2>1, QuietSections DEF Loose
  <2>3. Shown(b) <=> b \in InlineAt(look, f)
    BY <2>2
  <2>4. CASE b \in Inline
    BY <1>1, <1>3, <2>1, <2>3, <2>4, StoredPlaces
  <2>5. CASE b \in RepoFile
    <3>1. b \notin InlineAt(look, f)
      BY <1>3, <1>4, <2>5
    <3>2. SectionOf(b) # f
      BY <1>1, <2>5, StoredPlaces
    <3>3. QED
      BY <2>1, <2>3, <3>1, <3>2
  <2>6. QED
    BY <1>1, <2>4, <2>5, StoredPlaces
<1>8. \A b \in Playbook : Shown(b) <=> b \in Present /\ Asks(b)
  BY <1>2, <1>6, <1>7
<1>9. QED
  BY <1>5, <1>8 DEF Present

\* The card that says that there is nothing.
LEMMA EmptyHolds ==
  ASSUME PlaybooksPageInv
  PROVE  EmptyIsEmpty
<1> SUFFICES ASSUME PageQuiet
             PROVE  PageCard(Plain) = "empty"
                      <=> Present = {} /\ stored.folders = {} /\ stored.repositories = {}
  BY DEF EmptyIsEmpty
<1>1. PageRowsInv /\ Root # Absent
  BY DEF PlaybooksPageInv, Root, Absent
<1>2. Plain.inside = <<>> /\ Plain.filter = "all" /\ Plain.search = <<>>
      /\ \A x : Matching(Plain, x)
  BY DEF Plain, Look, Matching
<1>3. /\ FolderGroups(Plain) = stored.folders /\ RepositoryGroups(Plain) = stored.repositories
      /\ Loose(Plain) = {b \in Inline : stored.playbooks[b] = Root}
  <2>1. InlineAt(Plain, Root) =
          {b \in Inline : stored.playbooks[b] = Root /\ Matching(Plain, b)}
    BY QuietSections
  <2>2. Loose(Plain) = InlineAt(Plain, Root)
    BY <1>2 DEF Loose
  <2>3. FolderGroups(Plain) = stored.folders
    BY <1>2, QuietSections
  <2>4. RepositoryGroups(Plain) = stored.repositories
    BY <1>2, QuietSections
  <2>5. QED
    BY <1>2, <2>1, <2>2, <2>3, <2>4
<1>4. PageCard(Plain) = "empty" <=>
        Loose(Plain) = {} /\ stored.folders = {} /\ stored.repositories = {}
  BY <1>2, <1>3, QuietPage DEF PageCard, CardOf
<1>5. stored.folders = {} /\ stored.repositories = {} => (Present = {} <=> Loose(Plain) = {})
  <2> SUFFICES ASSUME stored.folders = {}, stored.repositories = {}
               PROVE  Present = Loose(Plain)
    OBVIOUS
  <2>1. \A b \in Inline : b \in Present <=> stored.playbooks[b] = Root
    BY <1>1, StoredPlaces
  <2>2. \A b \in RepoFile : b \notin Present /\ b \notin Inline
    BY <1>1, StoredPlaces
  <2>3. Present \subseteq Inline \cup RepoFile
    BY <1>1, StoredPlaces DEF Present
  <2>4. QED
    BY <1>3, <2>1, <2>2, <2>3
<1>6. QED
  BY <1>4, <1>5

\* What the runs check of a state follows from the invariant.
LEMMA PagePropertiesHold ==
  ASSUME PlaybooksPageInv
  PROVE  PlaybooksPageTypeOK /\ OverviewIsTrue /\ EmptyIsEmpty /\ ContentIsThere /\ MovesArePicked
<1>1. ContentIsThere
  BY DEF ContentIsThere, PageError, PagePending, IsPending
<1>2. MovesArePicked
  BY NoPageCall DEF MovesArePicked, PlaybooksPageInv, PageCallsInv, PageCallInv
<1>3. QED
  BY <1>1, <1>2, PageTyped, OverviewHolds, EmptyHolds

\* FilesAreReadOnly, of one step.
FilesUntouchedStep ==
  \A b \in RepoFile : stored'.playbooks[b] # stored.playbooks[b] =>
    \E c \in Call : /\ calls[c].op \in {"sync", "deleteRepository"} /\ calls[c].what = b[1]
                    /\ calls[c].at = "sent" /\ calls'[c].at = "written"

\* Only a statement touches the rows.
LEMMA FilesStep ==
  ASSUME PlaybooksPageInv, [PlaybooksPageNext]_pageVars, NEW b \in RepoFile,
         stored'.playbooks[b] # stored.playbooks[b]
  PROVE  \E c \in Call : /\ calls[c].op \in {"sync", "deleteRepository"} /\ calls[c].what = b[1]
                         /\ calls[c].at = "sent" /\ calls'[c].at = "written"
<1>1. PICK c \in Call : WriteRows(c)
  <2>1. stored' # stored
    OBVIOUS
  <2>2. (\E c \in Call : WriteRows(c)) \/ stored' = stored
    BY DEF PlaybooksPageNext, pageVars, AskDelete, Confirm, SubmitMove, CloseDialog, RetryPage,
           OpenMove, PickFolder, SyncRepository, CallElsewhere, AssertInline,
           AssertFolderExists, RefuseCall, SettleCall, FetchPage, TroubleFetch
  <2>3. QED
    BY <2>1, <2>2
<1>2. /\ stored' \in Effects(calls[c]) /\ troubles' = troubles /\ Goes(c, "written")
      /\ calls[c].at = "ready" \/ (calls[c].at = "sent" /\ ~ByHand(c))
  BY <1>1 DEF WriteRows
<1>3. /\ calls[c] # NoCall /\ calls[c].op \in {"sync", "deleteRepository"}
      /\ calls[c].what = b[1]
  BY <1>2, StatementRows
<1>4. PageCallInv(c) /\ DOMAIN calls = Call
  BY DEF PlaybooksPageInv, PageCallsInv
<1>5. calls[c].at = "sent"
  BY <1>2, <1>3, <1>4 DEF PageCallInv, ByHand
<1>6. calls'[c].at = "written"
  BY <1>2, <1>3, <1>4 DEF Goes, PageCallInv, PageCallRow
<1>7. QED
  BY <1>3, <1>5, <1>6

\* What the page shows of the playbooks once nothing is under way is what is stored, a move
\* goes where the user put it, and files come and go only by their repository, for any
\* playbooks, folders, repositories and calls.
THEOREM PlaybooksPageAlwaysTrue == PlaybooksPageSpec => PlaybooksPageIsTrue
<1>1. PlaybooksPageInv =>
        PlaybooksPageTypeOK /\ OverviewIsTrue /\ EmptyIsEmpty /\ ContentIsThere /\ MovesArePicked
  BY PagePropertiesHold
<1>2. PlaybooksPageInv /\ [PlaybooksPageNext]_pageVars => [FilesUntouchedStep]_pageVars
  BY FilesStep DEF FilesUntouchedStep
<1>3. PlaybooksPageSpec => []PlaybooksPageInv /\ [][FilesUntouchedStep]_pageVars
  BY <1>2, InitPage, PlaybooksPageStep, PTL DEF PlaybooksPageSpec
<1>4. [][FilesUntouchedStep]_pageVars => FilesAreReadOnly
  BY PTL DEF FilesAreReadOnly, FilesUntouchedStep
<1>5. QED
  BY <1>1, <1>3, <1>4, PTL DEF PlaybooksPageIsTrue

----------------------------------------------------------------------------
(* PlaybookRoles.                                                          *)

HIDE PlaybooksPageAssumption
USE PlaybookRolesAssumption

\* Of a discovery: the files on its way down are read, and the imports of every file that is
\* read and no longer on the way are read too, unless the limit could cut a chain of them.
WayDown ==
  /\ path \in Seq(File) /\ visited \subseteq File
  /\ \A i \in 1 .. Len(path) : path[i] \in visited
  /\ work = "discover" => ~moved
  /\ ~moved =>
       /\ Main \in visited /\ visited \subseteq Played
       /\ work # "discover" => path = <<>>
       /\ Cardinality(File) <= MaxImportDepth + 1 =>
            /\ Len(path) <= Cardinality(visited)
            /\ \A f \in visited : (\E i \in 1 .. Len(path) : path[i] = f) \/ Imports(f) \subseteq visited

ListedOnce ==
  listed \subseteq Undefined /\ \A u \in Undefined : \E l \in listed : {k \in listed : k[1] = u[1]} = {l}

\* What the form was made of, and what was chosen in it.
Offers ==
  /\ work = "choose" => ~moved
  /\ work \in {"discover", "choose"} => unchecked = {}
  /\ Discovered => ListedOnce
  /\ ~moved => unchecked \subseteq Selectable

\* The copy of a run: what is disabled, and the files to go through, which are all reached.
CopyInv ==
  /\ work \in {"discover", "choose", "locate", "disable"} => through = {}
  /\ work = "no_role" => \E r \in unchecked : FoldersOf(r) = {}
  /\ work \in {"retarget", "launched", "encrypted"} =>
       /\ \A r \in unchecked : FoldersOf(r) # {} /\ FoldersOf(r) \subseteq emptied
       /\ pending \subseteq Reached /\ through \subseteq Reached /\ Main \in pending \cup through
       /\ \A f \in through : Followed(f) \subseteq pending \cup through /\ ~Encrypted(f)
  /\ work = "launched" => pending = {}
  /\ work = "encrypted" => \E f \in pending : Encrypted(f)

RolesInv == file \in [File -> FileContent] /\ WayDown /\ Offers /\ CopyInv

\* The files of a run are the least set with the playbook and what its files import.
LEMMA PlayedIs ==
  ASSUME file \in [File -> FileContent]
  PROVE  /\ Played \subseteq File /\ Main \in Played
         /\ \A f \in Played : Imports(f) \subseteq Played
         /\ \A S \in SUBSET File : Main \in S /\ Closed(S) => Played \subseteq S
<1>1. \A f \in File : Imports(f) \subseteq File
  BY DEF Imports, FileContent
<1>2. Played \subseteq File /\ Main \in Played
  BY DEF Played
<1>3. ASSUME NEW f \in Played, NEW g \in Imports(f) PROVE g \in Played
  BY <1>1, <1>2, <1>3 DEF Played, Closed
<1>4. \A S \in SUBSET File : Main \in S /\ Closed(S) => Played \subseteq S
  BY DEF Played
<1>5. QED
  BY <1>2, <1>3, <1>4

\* The files to rewrite are the least set with the playbook and what its files import.
LEMMA ReachedIs ==
  ASSUME file \in [File -> FileContent]
  PROVE  /\ Reached \subseteq File /\ Main \in Reached
         /\ \A f \in Reached : Followed(f) \subseteq Reached
         /\ \A S \in SUBSET File :
              Main \in S /\ (\A g \in S : Followed(g) \subseteq S) => Reached \subseteq S
<1>1. \A f \in File : Followed(f) \subseteq File
  BY DEF Followed, FileContent
<1>2. \A f, S : (file[f].kind = "plain" => file[f].imports \subseteq S) <=> Followed(f) \subseteq S
  BY DEF Followed, Rewritable
<1>3. Reached = {f \in File :
        \A S \in SUBSET File : Main \in S /\ (\A g \in S : Followed(g) \subseteq S) => f \in S}
  BY <1>2 DEF Reached
<1>4. Reached \subseteq File /\ Main \in Reached
  BY <1>3
<1>5. ASSUME NEW f \in Reached, NEW g \in Followed(f) PROVE g \in Reached
  BY <1>1, <1>3, <1>4, <1>5
<1>6. QED
  BY <1>3, <1>4, <1>5

\* What is derived from the source stays while it does.
LEMMA SameSource ==
  ASSUME UNCHANGED <<sourceVars, visited>>
  PROVE  /\ UNCHANGED <<Played, Reached, UsedRoles, RolePaths, Undefined, Selectable, Known, AllDeclared,
                        RoleVariables, PlayVariables>>
         /\ \A f : Imports(f)' = Imports(f) /\ Encrypted(f)' = Encrypted(f)
                 /\ Followed(f)' = Followed(f)
         /\ \A r : FoldersOf(r)' = FoldersOf(r)
<1>1. UNCHANGED <<roleAt, file, scope, visited>>
  BY DEF sourceVars
<1>2. /\ \A f : Imports(f)' = Imports(f) /\ Encrypted(f)' = Encrypted(f) /\ Readable(f)' = Readable(f)
             /\ Followed(f)' = Followed(f)
      /\ \A r : FoldersOf(r)' = FoldersOf(r)
  BY <1>1 DEF Imports, Encrypted, FoldersOf, Readable, Followed, Rewritable
<1>3. Played' = Played /\ Reached' = Reached
  BY <1>1, <1>2 DEF Played, Closed, Reached
<1>4. Plays' = Plays
  BY <1>1, <1>2 DEF Plays
<1>5. UsedRoles' = UsedRoles /\ PlayVariables' = PlayVariables
  BY <1>1, <1>4 DEF UsedRoles, PlayVariables
<1>6. RolePaths' = RolePaths
  BY <1>1 DEF RolePaths
<1>7. AllDeclared' = AllDeclared
  BY <1>1, <1>4, <1>6 DEF AllDeclared, DeclaredBy
<1>8. RoleVariables' = RoleVariables
  BY <1>1, <1>4, <1>7 DEF RoleVariables
<1>9. Known' = Known
  <2>1. PlayAssigns' = PlayAssigns /\ RoleAssigns' = RoleAssigns
    BY <1>1, <1>4, <1>7 DEF PlayAssigns, RoleAssigns
  <2>2. QED
    BY <1>5, <1>8, <2>1 DEF Known
<1>10. Undefined' = Undefined
  BY <1>7, <1>9 DEF Undefined
<1>11. Selectable' = Selectable
  BY <1>5, <1>6 DEF Selectable
<1>12. QED
  BY <1>2, <1>3, <1>5, <1>6, <1>7, <1>8, <1>9, <1>10, <1>11

\* The invariant holds at first.
LEMMA RolesInit == PlaybookRolesInit => RolesInv
<1> SUFFICES ASSUME PlaybookRolesInit PROVE RolesInv
  OBVIOUS
<1>1. file \in [File -> FileContent]
  BY DEF PlaybookRolesInit
<1>2. CASE moved
  BY <1>1, <1>2 DEF PlaybookRolesInit, RolesInv, WayDown, Offers, CopyInv, Discovered
<1>3. CASE ~moved
  <2>1. work = "discover" /\ path = <<Main>> /\ visited = {Main} /\ unchecked = {} /\ ~moved
    BY <1>3 DEF PlaybookRolesInit
  <2>2. path \in Seq(File) /\ Len(path) = 1 /\ path[1] = Main /\ 1 \in 1 .. Len(path)
    BY <2>1
  <2>3. Cardinality(visited) = 1
    BY <2>1, FS_Singleton
  <2>4. WayDown
    BY <1>1, <2>1, <2>2, <2>3, PlayedIs DEF WayDown
  <2>5. Offers /\ CopyInv
    BY <2>1 DEF PlaybookRolesInit, Offers, CopyInv, Discovered
  <2>6. QED
    BY <1>1, <2>4, <2>5 DEF RolesInv
<1>4. QED
  BY <1>2, <1>3 DEF PlaybookRolesInit

\* A step of the discovery.
LEMMA VisitInv ==
  ASSUME RolesInv, Visit
  PROVE  RolesInv'
<1> DEFINE n == Len(path)
           f == path[n]
<1>1. /\ WayDown /\ file \in [File -> FileContent] /\ work = "discover" /\ ~moved /\ path # <<>>
      /\ n \in Nat /\ n > 0 /\ f \in visited /\ f \in File /\ path \in Seq(File)
      /\ visited \subseteq Played /\ visited \subseteq File
  <2>1. /\ WayDown /\ file \in [File -> FileContent] /\ work = "discover" /\ ~moved /\ path # <<>>
        /\ path \in Seq(File) /\ visited \subseteq Played /\ visited \subseteq File
    BY DEF RolesInv, Visit, WayDown
  <2>2. n \in Nat /\ n > 0 /\ n \in 1 .. n
    BY <2>1
  <2>3. f \in visited
    BY <2>1, <2>2 DEF WayDown
  <2>4. QED
    BY <2>1, <2>2, <2>3
<1>2. /\ UNCHANGED <<sourceVars, work, listed, unchecked, copyVars>>
      /\ UNCHANGED <<roleAt, file, scope, moved, emptied, pending, through>>
  BY DEF Visit, sourceVars, copyVars
<1>3. Played' = Played /\ \A g : Imports(g)' = Imports(g)
  BY <1>2 DEF Played, Closed, Imports, Readable
<1>4. CASE Follow(f) = {}
  <2>1. path' = SubSeq(path, 1, n - 1) /\ visited' = visited
    BY <1>4 DEF Visit
  <2>2. path' \in Seq(File) /\ Len(path') = n - 1 /\ \A i \in 1 .. n - 1 : path'[i] = path[i]
    <3>1. n - 1 \in Int /\ 1 \in Int /\ \A i \in 1 .. n - 1 : path[i] \in File
      BY <1>1
    <3>2. /\ SubSeq(path, 1, n - 1) \in Seq(File)
          /\ Len(SubSeq(path, 1, n - 1)) = IF 1 <= n - 1 THEN n - 1 - 1 + 1 ELSE 0
          /\ \A i \in 1 .. n - 1 - 1 + 1 : SubSeq(path, 1, n - 1)[i] = path[1 + i - 1]
      BY <3>1, SubSeqProperties
    <3>3. n - 1 - 1 + 1 = n - 1 /\ \A i \in 1 .. n - 1 : 1 + i - 1 = i
      BY <1>1
    <3>4. QED
      BY <1>1, <2>1, <3>2, <3>3
  <2>3. ASSUME Cardinality(File) <= MaxImportDepth + 1
        PROVE  /\ Len(path') <= Cardinality(visited')
               /\ \A g \in visited' : (\E i \in 1 .. Len(path') : path'[i] = g)
                                      \/ Imports(g) \subseteq visited'
    <3>1. /\ n <= Cardinality(visited)
          /\ \A g \in visited : (\E i \in 1 .. n : path[i] = g) \/ Imports(g) \subseteq visited
      BY <1>1, <2>3 DEF WayDown
    <3>2. IsFiniteSet(visited) /\ Cardinality(visited) \in Nat /\ Cardinality(File) \in Nat
          /\ Cardinality(visited) <= Cardinality(File)
          /\ (Cardinality(File) = Cardinality(visited) => visited = File)
      BY <1>1, FS_Subset, FS_CardinalityType
    <3>3. Imports(f) \subseteq visited
      <4>1. CASE n > MaxImportDepth
        <5>1. visited = File
          BY <1>1, <2>3, <3>1, <3>2, <4>1
        <5>2. QED
          BY <1>1, <5>1 DEF Imports, FileContent
      <4>2. CASE ~(n > MaxImportDepth)
        BY <1>4, <4>2 DEF Follow
      <4>3. QED
        BY <4>1, <4>2
    <3>4. ASSUME NEW g \in visited', ~(Imports(g) \subseteq visited')
          PROVE  \E i \in 1 .. Len(path') : path'[i] = g
      <4>1. PICK i \in 1 .. n : path[i] = g
        BY <2>1, <3>1, <3>4
      <4>2. i # n
        BY <2>1, <3>3, <3>4, <4>1
      <4>3. i \in 1 .. n - 1
        BY <1>1, <4>2
      <4>4. QED
        BY <2>2, <4>1, <4>3
    <3>5. Len(path') <= Cardinality(visited')
      BY <1>1, <2>1, <2>2, <3>1, <3>2
    <3>6. QED
      BY <3>4, <3>5
  <2>4. \A i \in 1 .. Len(path') : path'[i] \in visited'
    BY <1>1, <2>1, <2>2 DEF WayDown
  <2>5. WayDown'
    <3>1. Cardinality(File) <= MaxImportDepth + 1 =>
            /\ Len(path') <= Cardinality(visited')
            /\ \A g \in visited' : (\E i \in 1 .. Len(path') : path'[i] = g)
                                   \/ Imports(g)' \subseteq visited'
      BY <1>3, <2>3
    <3>2. QED
      BY <1>1, <1>2, <1>3, <2>1, <2>2, <2>4, <3>1 DEF WayDown
  <2>6. Offers'
    BY <1>1, <1>2, <2>1, SameSource DEF RolesInv, Offers, Discovered
  <2>7. CopyInv'
    BY <1>1, <1>2 DEF RolesInv, CopyInv
  <2>8. QED
    BY <1>1, <1>2, <2>5, <2>6, <2>7 DEF RolesInv
<1>5. ASSUME NEW g \in Follow(f), path' = Append(path, g), visited' = visited \cup {g}
      PROVE  RolesInv'
  <2>1. g \in Imports(f) /\ g \notin visited /\ g \in File
    BY <1>1, <1>5 DEF Follow, Imports, FileContent
  <2>2. g \in Played
    BY <1>1, <2>1, PlayedIs
  <2>3. path' \in Seq(File) /\ Len(path') = n + 1 /\ path'[n + 1] = g
        /\ \A i \in 1 .. n : path'[i] = path[i]
    BY <1>1, <1>5, <2>1
  <2>4. ASSUME NEW i \in 1 .. Len(path') PROVE path'[i] \in visited'
    <3>1. CASE i = n + 1
      BY <1>5, <2>3, <3>1
    <3>2. CASE i # n + 1
      BY <1>1, <1>5, <2>3, <3>2 DEF WayDown
    <3>3. QED
      BY <3>1, <3>2
  <2>5. ASSUME Cardinality(File) <= MaxImportDepth + 1
        PROVE  /\ Len(path') <= Cardinality(visited')
               /\ \A h \in visited' : (\E i \in 1 .. Len(path') : path'[i] = h)
                                      \/ Imports(h) \subseteq visited'
    <3>1. /\ n <= Cardinality(visited)
          /\ \A h \in visited : (\E i \in 1 .. n : path[i] = h) \/ Imports(h) \subseteq visited
      BY <1>1, <2>5 DEF WayDown
    <3>2. IsFiniteSet(visited) /\ Cardinality(visited) \in Nat
      BY <1>1, FS_Subset, FS_CardinalityType
    <3>3. Cardinality(visited') = Cardinality(visited) + 1
      BY <1>5, <2>1, <3>2, FS_AddElement
    <3>4. ASSUME NEW h \in visited', ~(Imports(h) \subseteq visited')
          PROVE  \E i \in 1 .. Len(path') : path'[i] = h
      <4>1. CASE h = g
        <5>1. n + 1 \in 1 .. Len(path')
          BY <1>1, <2>3
        <5>2. QED
          BY <2>3, <4>1, <5>1
      <4>2. CASE h # g
        <5>1. h \in visited /\ ~(Imports(h) \subseteq visited)
          BY <1>5, <3>4, <4>2
        <5>2. PICK i \in 1 .. n : path[i] = h
          BY <3>1, <5>1
        <5>3. i \in 1 .. Len(path') /\ path'[i] = h
          BY <1>1, <2>3, <5>2
        <5>4. QED
          BY <5>3
      <4>3. QED
        BY <4>1, <4>2
    <3>5. Len(path') <= Cardinality(visited')
      BY <1>1, <2>3, <3>1, <3>2, <3>3
    <3>6. QED
      BY <3>4, <3>5
  <2>6. WayDown'
    <3>1. Cardinality(File) <= MaxImportDepth + 1 =>
            /\ Len(path') <= Cardinality(visited')
            /\ \A h \in visited' : (\E i \in 1 .. Len(path') : path'[i] = h)
                                   \/ Imports(h)' \subseteq visited'
      BY <1>3, <2>5
    <3>2. Main \in visited' /\ visited' \subseteq Played' /\ visited' \subseteq File
      BY <1>1, <1>3, <1>5, <2>1, <2>2 DEF WayDown
    <3>3. QED
      BY <1>1, <1>2, <2>3, <2>4, <3>1, <3>2 DEF WayDown
  <2>7. Offers'
    <3>1. unchecked' = {}
      BY <1>1, <1>2 DEF RolesInv, Offers, WayDown
    <3>2. QED
      BY <1>1, <1>2, <3>1 DEF Offers, Discovered
  <2>8. CopyInv'
    BY <1>1, <1>2 DEF RolesInv, CopyInv
  <2>9. QED
    BY <1>1, <1>2, <2>6, <2>7, <2>8 DEF RolesInv
<1>6. QED
  BY <1>4, <1>5 DEF Visit

\* The variables are listed.
LEMMA ListInv ==
  ASSUME RolesInv, ListVariables
  PROVE  RolesInv'
<1>1. /\ WayDown /\ file \in [File -> FileContent] /\ work = "discover" /\ ~moved /\ path = <<>>
      /\ work' = "choose" /\ UNCHANGED <<sourceVars, path, visited, unchecked, copyVars>>
      /\ UNCHANGED <<file, moved, emptied, pending, through>> /\ unchecked = {}
  BY DEF RolesInv, ListVariables, WayDown, sourceVars, copyVars, Offers
<1>2. /\ listed' \subseteq Undefined
      /\ \A u \in Undefined : \E l \in listed' : {k \in listed' : k[1] = u[1]} = {l}
  BY DEF ListVariables
<1>3. Played' = Played /\ Undefined' = Undefined /\ \A f : Imports(f)' = Imports(f)
  BY <1>1, SameSource
<1>4. WayDown'
  BY <1>1, <1>3 DEF WayDown
<1>5. Offers'
  BY <1>1, <1>2, <1>3 DEF Offers, ListedOnce
<1>6. CopyInv'
  BY <1>1 DEF RolesInv, CopyInv
<1>7. QED
  BY <1>1, <1>4, <1>5, <1>6 DEF RolesInv

\* The roles left out are chosen among those that are offered.
LEMMA ChooseInv ==
  ASSUME RolesInv, Choose \/ Locate
  PROVE  RolesInv'
<1>1. /\ WayDown /\ Offers /\ file \in [File -> FileContent]
      /\ work \in {"choose", "locate"} /\ work' \in {"locate", "no_file", "disable"}
      /\ UNCHANGED <<sourceVars, discoveryVars, copyVars>>
      /\ UNCHANGED <<file, moved, path, visited, listed, emptied, pending, through>>
      /\ UNCHANGED unchecked \/ unchecked' \subseteq Selectable
  BY DEF RolesInv, Choose, Locate, sourceVars, discoveryVars, copyVars
<1>2. /\ Played' = Played /\ Undefined' = Undefined /\ Selectable' = Selectable
      /\ \A f : Imports(f)' = Imports(f)
  BY <1>1, SameSource
<1>3. WayDown'
  BY <1>1, <1>2 DEF WayDown
<1>4. Offers'
  BY <1>1, <1>2 DEF Offers, ListedOnce, Discovered
<1>5. CopyInv'
  BY <1>1 DEF RolesInv, CopyInv
<1>6. QED
  BY <1>1, <1>3, <1>4, <1>5 DEF RolesInv

\* The copy is made: roles are emptied, and files gone through as they are imported.
LEMMA CopyStep ==
  ASSUME RolesInv, DisableRoles \/ Retarget
  PROVE  RolesInv'
<1>1. /\ WayDown /\ Offers /\ CopyInv /\ file \in [File -> FileContent]
      /\ work \in {"disable", "retarget"}
      /\ work' \in {"no_role", "retarget", "launched", "encrypted"}
      /\ UNCHANGED <<sourceVars, discoveryVars, unchecked>>
      /\ UNCHANGED <<file, moved, path, visited, listed>>
  BY DEF RolesInv, DisableRoles, Retarget, sourceVars, discoveryVars
<1>2. /\ Played' = Played /\ Undefined' = Undefined /\ Selectable' = Selectable /\ Reached' = Reached
      /\ \A f : Imports(f)' = Imports(f) /\ Encrypted(f)' = Encrypted(f) /\ Followed(f)' = Followed(f)
      /\ \A r : FoldersOf(r)' = FoldersOf(r)
  BY <1>1, SameSource
<1>3. WayDown'
  BY <1>1, <1>2 DEF WayDown
<1>4. Offers'
  BY <1>1, <1>2 DEF Offers, ListedOnce, Discovered
<1>5. Reached \subseteq File /\ Main \in Reached /\ \A f \in Reached : Followed(f) \subseteq Reached
  BY <1>1, ReachedIs
<1>6. CASE DisableRoles
  <2>1. /\ emptied' = UNION {FoldersOf(r) : r \in unchecked} /\ UNCHANGED through
        /\ IF \E r \in unchecked : FoldersOf(r) = {}
             THEN work' = "no_role" /\ UNCHANGED pending
             ELSE work' = "retarget" /\ pending' = {Main}
    BY <1>6 DEF DisableRoles
  <2>2. \A r \in unchecked : FoldersOf(r) \subseteq emptied'
    BY <2>1
  <2>3. ASSUME \E r \in unchecked : FoldersOf(r) = {} PROVE CopyInv'
    BY <1>1, <1>2, <2>1, <2>3 DEF CopyInv
  <2>4. ASSUME \A r \in unchecked : FoldersOf(r) # {} PROVE CopyInv'
    <3>1. through = {}
      BY <1>1, <1>6 DEF RolesInv, CopyInv, DisableRoles
    <3>2. QED
      BY <1>1, <1>2, <1>5, <2>1, <2>2, <2>4, <3>1 DEF CopyInv
  <2>5. CopyInv'
    BY <2>3, <2>4
  <2>6. QED
    BY <1>1, <1>3, <1>4, <2>5 DEF RolesInv
<1>7. CASE Retarget
  <2>1. /\ work = "retarget" /\ emptied' = emptied
        /\ \A r \in unchecked : FoldersOf(r) # {} /\ FoldersOf(r) \subseteq emptied
        /\ pending \subseteq Reached /\ through \subseteq Reached /\ Main \in pending \cup through
        /\ \A f \in through : Followed(f) \subseteq pending \cup through /\ ~Encrypted(f)
    BY <1>1, <1>7 DEF Retarget, CopyInv
  <2>2. CASE pending = {} \/ UNCHANGED <<pending, through>>
    <3>1. /\ UNCHANGED <<pending, through>> /\ work' \in {"launched", "encrypted"}
          /\ work' = "launched" => pending = {}
          /\ work' = "encrypted" => \E f \in pending : Encrypted(f)
      BY <1>7, <2>2 DEF Retarget
    <3>2. CopyInv'
      BY <1>1, <1>2, <2>1, <3>1 DEF CopyInv
    <3>3. QED
      BY <1>1, <1>3, <1>4, <3>2 DEF RolesInv
  <2>3. ASSUME NEW f \in pending, ~Encrypted(f), through' = through \cup {f},
               pending' = (pending \cup Followed(f)) \ through', work' = "retarget"
        PROVE  RolesInv'
    <3>1. pending' \subseteq Reached /\ through' \subseteq Reached
      BY <1>5, <2>1, <2>3
    <3>2. pending \cup through \cup Followed(f) \subseteq pending' \cup through'
      BY <2>3
    <3>3. \A g \in through' : Followed(g) \subseteq pending' \cup through' /\ ~Encrypted(g)
      BY <2>1, <2>3, <3>2
    <3>4. CopyInv'
      BY <1>1, <1>2, <2>1, <2>3, <3>1, <3>2, <3>3 DEF CopyInv
    <3>5. QED
      BY <1>1, <1>3, <1>4, <3>4 DEF RolesInv
  <2>4. QED
    BY <1>7, <2>2, <2>3 DEF Retarget
<1>8. QED
  BY <1>6, <1>7

\* Every step keeps the invariant.
LEMMA RolesStep == RolesInv /\ [PlaybookRolesNext]_playbookVars => RolesInv'
<1>1. ASSUME RolesInv, UNCHANGED playbookVars PROVE RolesInv'
  <2>1. /\ UNCHANGED <<sourceVars, visited>>
        /\ UNCHANGED <<file, moved, path, visited, listed, work, unchecked, emptied, pending, through>>
    BY <1>1 DEF playbookVars, sourceVars, discoveryVars, copyVars
  <2>2. /\ Played' = Played /\ Undefined' = Undefined /\ Selectable' = Selectable /\ Reached' = Reached
        /\ \A f : Imports(f)' = Imports(f) /\ Encrypted(f)' = Encrypted(f) /\ Followed(f)' = Followed(f)
        /\ \A r : FoldersOf(r)' = FoldersOf(r)
    BY <2>1, SameSource
  <2>3. WayDown'
    BY <1>1, <2>1, <2>2 DEF RolesInv, WayDown
  <2>4. Offers' /\ CopyInv'
    BY <1>1, <2>1, <2>2 DEF RolesInv, Offers, ListedOnce, Discovered, CopyInv
  <2>5. QED
    BY <1>1, <2>1, <2>3, <2>4 DEF RolesInv
<1>2. QED
  BY <1>1, VisitInv, ListInv, ChooseInv, CopyStep DEF PlaybookRolesNext

\* What is chosen of a playbook's roles is what is left out, and its plays are on the hosts.
LEMMA InvChoice == RolesInv => ChoiceIsHonoured
<1> SUFFICES ASSUME RolesInv PROVE ChoiceIsHonoured
  OBVIOUS
<1>1. OfferedCanBeDisabled
  <2>1. SUFFICES ASSUME work = "no_role", ~moved PROVE FALSE
    BY DEF OfferedCanBeDisabled
  <2>2. PICK r \in unchecked : FoldersOf(r) = {}
    BY <2>1 DEF RolesInv, CopyInv
  <2>3. r \in Selectable
    BY <2>1 DEF RolesInv, Offers
  <2>4. PICK d \in RolePaths : d[2] = r
    BY <2>3 DEF Selectable
  <2>5. d \in Dir \X {r} /\ roleAt[d] # "none"
    BY <2>4 DEF RolePaths
  <2>6. QED
    BY <2>2, <2>5 DEF FoldersOf
<1>2. DisabledRunsNothing
  <2>1. SUFFICES ASSUME work \in {"retarget", "launched"}, NEW r \in unchecked
                 PROVE  /\ \E d \in emptied : d[2] = r
                        /\ \A d \in Dir \X {r} : roleAt[d] # "none" => d \in emptied
    BY DEF DisabledRunsNothing
  <2>2. FoldersOf(r) # {} /\ FoldersOf(r) \subseteq emptied
    BY <2>1 DEF RolesInv, CopyInv
  <2>3. QED
    BY <2>2 DEF FoldersOf
<1>3. ASSUME work = "launched" PROVE Reached \subseteq through /\ \A f \in Reached : ~Encrypted(f)
  <2>1. /\ through \subseteq Reached /\ Main \in through
        /\ \A f \in through : Followed(f) \subseteq through /\ ~Encrypted(f)
    BY <1>3 DEF RolesInv, CopyInv
  <2>2. Reached \subseteq through
    BY <2>1, ReachedIs DEF RolesInv
  <2>3. QED
    BY <2>1, <2>2
<1>4. work = "encrypted" => \E f \in Reached : Encrypted(f)
  BY DEF RolesInv, CopyInv
<1>5. SelectionDecides
  BY <1>3, <1>4 DEF SelectionDecides, Encrypted
<1>6. QED
  BY <1>1, <1>2, <1>5 DEF ChoiceIsHonoured

\* The form offers all that a run will need.
LEMMA InvForm == RolesInv => FormIsComplete
<1> SUFFICES ASSUME RolesInv PROVE FormIsComplete
  OBVIOUS
<1>1. ASSUME Discovered, Cardinality(File) <= MaxImportDepth + 1 PROVE visited = Played
  <2>1. Discovered /\ Cardinality(File) <= MaxImportDepth + 1
    BY <1>1
  <2>2. ~moved /\ path = <<>> /\ Len(path) = 0
    BY <2>1 DEF RolesInv, WayDown, Discovered
  <2>3. /\ Main \in visited /\ visited \subseteq Played /\ visited \subseteq File
        /\ \A f \in visited : (\E i \in 1 .. Len(path) : path[i] = f) \/ Imports(f) \subseteq visited
    BY <2>1, <2>2 DEF RolesInv, WayDown
  <2>4. \A f \in visited : Imports(f) \subseteq visited
    BY <2>2, <2>3
  <2>5. QED
    BY <2>3, <2>4, PlayedIs DEF RolesInv, Closed
<1>2. UsageComplete
  BY <1>1 DEF UsageComplete, UsedRoles, Plays
<1>3. VariablesOfTheRunRole
  <2>1. SUFFICES ASSUME NEW r \in file[Main].uses, RunRole(r) \subseteq RolePaths
                 PROVE  NearestIn(Main, r, RolePaths) = RunRole(r)
    BY DEF VariablesOfTheRunRole
  <2> DEFINE up == Up[DirOf[Main]]
             found == {i \in DOMAIN up : <<up[i], r>> \in RolePaths}
  <2>2. DOMAIN up = 1 .. Len(up) /\ Len(up) \in Nat
    OBVIOUS
  <2>3. \A d : d \in RolePaths => roleAt[d] # "none"
    BY DEF RolePaths
  <2>4. /\ NearestIn(Main, r, RolePaths) = {<<up[j], r>> : j \in {i \in found : \A k \in found : i <= k}}
        /\ RunRole(r) = {<<up[i], r>> : i \in {i \in DOMAIN up :
             roleAt[<<up[i], r>>] # "none" /\ \A k \in 1 .. i - 1 : roleAt[<<up[k], r>>] = "none"}}
    BY DEF NearestIn, RunRole
  <2> DEFINE here == {i \in DOMAIN up : roleAt[<<up[i], r>>] # "none"}
  <2>5. here \subseteq Nat /\ found \subseteq here
    BY <2>2, <2>3
  <2>6. \A i \in DOMAIN up : \A k \in 1 .. i - 1 : k \in DOMAIN up /\ k < i
    BY <2>2
  <2>7. ASSUME NEW i \in here, \A k \in here : i <= k
        PROVE  <<up[i], r>> \in RunRole(r) /\ i \in found
    <3>1. ASSUME NEW k \in 1 .. i - 1 PROVE k \notin here
      <4>1. i \in Nat /\ k < i /\ ~(i <= k)
        BY <2>5
      <4>2. \A m \in here : i <= m
        BY <2>7
      <4>3. QED
        BY <4>1, <4>2
    <3>2. \A k \in 1 .. i - 1 : roleAt[<<up[k], r>>] = "none"
      BY <2>6, <3>1
    <3>3. <<up[i], r>> \in RunRole(r)
      BY <2>4, <3>2
    <3>4. QED
      BY <2>1, <3>3
  <2>8. CASE here = {}
    <3>1. NearestIn(Main, r, RolePaths) = {} /\ RunRole(r) = {}
      BY <2>4, <2>5, <2>8
    <3>2. QED
      BY <3>1
  <2>9. ASSUME NEW i \in here, \A k \in here : i <= k
        PROVE  NearestIn(Main, r, RolePaths) = RunRole(r)
    <3>1. NearestIn(Main, r, RolePaths) = {<<up[i], r>>}
      <4>1. i \in found /\ \A k \in found : i <= k
        BY <2>5, <2>7, <2>9
      <4>2. ASSUME NEW j \in found, \A k \in found : j <= k PROVE j = i
        <5>1. j <= i /\ i <= j /\ i \in Nat /\ j \in Nat
          BY <2>5, <4>1, <4>2
        <5>2. QED
          BY <5>1
      <4>3. QED
        BY <2>4, <4>1, <4>2
    <3>2. RunRole(r) = {<<up[i], r>>}
      <4>1. ASSUME NEW j \in here, \A k \in 1 .. j - 1 : roleAt[<<up[k], r>>] = "none"
            PROVE  j = i
        <5>1. ~(i < j)
          BY <2>2, <2>9, <4>1
        <5>2. i <= j /\ i \in Nat /\ j \in Nat
          BY <2>5, <2>9, <4>1
        <5>3. QED
          BY <5>1, <5>2
      <4>2. <<up[i], r>> \in RunRole(r)
        BY <2>7, <2>9
      <4>3. QED
        BY <2>4, <4>1, <4>2
    <3>3. QED
      BY <3>1, <3>2
  <2>10. QED
    BY <2>5, <2>8, <2>9, LeastOf
<1>4. ASSUME Discovered, NEW d \in AllDeclared, NEW v \in Code[d].uses,
             v \notin PlayAssigns \cup RoleAssigns, v \notin Offered(unchecked)
      PROVE  LET of == {l \in RoleVariables \cup listed : l[1] = v}
             IN of # {} /\ \A l \in of : l[2] \in unchecked
  <2>1. v \notin PlayVariables /\ \A k \in RoleVariables \cup listed : k[1] = v => k[2] \in unchecked
    BY <1>4 DEF Offered
  <2>2. CASE v \in Known
    BY <1>4, <2>1, <2>2 DEF Known
  <2>3. CASE v \notin Known
    <3>1. <<v, d[2]>> \in Undefined
      BY <1>4, <2>3 DEF Undefined
    <3>2. PICK l \in listed : {k \in listed : k[1] = v} = {l}
      BY <1>4, <3>1 DEF RolesInv, Offers, ListedOnce
    <3>3. l[1] = v
      BY <3>2
    <3>4. QED
      BY <2>1, <3>3
  <2>4. QED
    BY <2>2, <2>3
<1>5. NeededIsOffered
  BY <1>4 DEF NeededIsOffered
<1>6. AskedIsUndefined
  <2>1. SUFFICES ASSUME Discovered, Cardinality(File) <= MaxImportDepth + 1, NEW l \in listed
                 PROVE  /\ \A f \in Played : Readable(f) =>
                             /\ l[1] \notin file[f].vars \cup file[f].assigns
                             /\ \A r \in Role : <<l[1], r>> \notin file[f].entries
                        /\ \A d \in AllDeclared : l[1] \notin Code[d].defines \cup Code[d].assigns
    BY DEF AskedIsUndefined
  <2>2. Plays = {f \in Played : Readable(f)}
    BY <1>1, <2>1 DEF Plays
  <2>3. l \in Undefined
    BY <2>1 DEF RolesInv, Offers, ListedOnce
  <2>4. l[1] \notin Known
    BY <2>3 DEF Undefined
  <2>5. /\ l[1] \notin PlayVariables \cup PlayAssigns \cup RoleAssigns
        /\ \A v \in RoleVariables : v[1] # l[1]
    BY <2>4 DEF Known
  <2>6. \A f \in Plays : l[1] \notin file[f].vars \cup file[f].assigns
    BY <2>5 DEF PlayVariables, PlayAssigns
  <2>7. ASSUME NEW f \in Plays, NEW r \in Role PROVE <<l[1], r>> \notin file[f].entries
    <3>1. <<l[1], r>> \notin RoleVariables
      BY <2>5
    <3>2. QED
      BY <3>1 DEF RoleVariables
  <2>8. ASSUME NEW d \in AllDeclared PROVE l[1] \notin Code[d].defines \cup Code[d].assigns
    <3>1. l[1] \notin Code[d].assigns
      BY <2>5 DEF RoleAssigns
    <3>2. <<l[1], d[2]>> \notin RoleVariables
      BY <2>5
    <3>3. QED
      BY <3>1, <3>2 DEF RoleVariables
  <2>9. QED
    BY <2>2, <2>6, <2>7, <2>8
<1>7. QED
  BY <1>3, <1>5, <1>6, <1>2 DEF FormIsComplete

\* The run form offers all that the run will need and asks for nothing else, whatever files
\* import each other, up to the limit, and whatever roles there are (discover.py,
\* playbook-roles.ts).
THEOREM FormAlwaysComplete == PlaybookRolesSpec => []FormIsComplete
<1>1. QED
  BY RolesInit, RolesStep, InvForm, PTL DEF PlaybookRolesSpec

\* The run is the one that was chosen in the form, at whatever commit it is made
\* (disabled_roles.py, play_targets.py).
THEOREM ChoiceAlwaysHonoured == PlaybookRolesSpec => []ChoiceIsHonoured
<1>1. QED
  BY RolesInit, RolesStep, InvChoice, PTL DEF PlaybookRolesSpec
=============================================================================
