------------------------------ MODULE MCRecords ------------------------------
(***************************************************************************)
(* What a run is made of, each part on a small instance: hosts, secret     *)
(* variables, and a playbook with its roles; and the page on which         *)
(* playbooks are kept.  A behaviour is one of one part.                    *)
(***************************************************************************)
EXTENDS RunHosts, RunSecrets, PlaybookRoles, PlaybooksPage, TLC

CONSTANTS c1, c2, b1, e1, e2, v1, v2, f1, f2, f3, top, sub, side, r1, r2, s1, s2

----------------------------------------------------------------------------
(* RunSecrets: a playbook with or without a connection, own variables      *)
(* that meet the declared ones and extra vars that meet both.              *)

JobOf(b, c, e, o, x) == [book |-> b, conn |-> c, env |-> e, own |-> o, extra |-> x]
MCJobInput ==
  { JobOf(b1, NoConn, NoEnv, {v1}, {v2}), JobOf(b1, c1, NoEnv, {}, {}),
    JobOf(b1, NoConn, e1, {v2}, {}), JobOf(b1, c1, e1, {v1}, {v2}) }

Declares(c, e, v) == [conn |-> c, env |-> e, vars |-> v]
MCDeclaration ==
  {Declares(NoConn, e2, {}), Declares(c2, e2, {v1}), Declares(c1, e2, {v1, v2}), Declares(c2, NoEnv, {})}

----------------------------------------------------------------------------
(* PlaybookRoles: a playbook in a folder, one it may import beside it and  *)
(* one at the root, and two roles.                                         *)

MCUp == [d \in {top, sub, side} |-> IF d = top THEN <<top>> ELSE <<d, top>>]
MCDirOf == (f1 :> sub) @@ (f2 :> side) @@ (f3 :> top)

MCLayouts ==
  { [d \in {top, sub, side} \X {r1, r2} |->
       IF d[2] = r1 THEN l[d[1]] ELSE IF d[1] = top THEN x ELSE "none"] :
    l \in {m \in [{top, sub, side} -> {"none", "bare", "marked", "linked"}] :
             m[top] # "bare" /\ m[side] \in {"none", "marked"}},
    x \in {"none", "marked"} }

FileOf(k, u, e, v, a, i) ==
  [kind |-> k, uses |-> u, entries |-> e, vars |-> v, assigns |-> a, imports |-> i]
Nothing == FileOf("none", {}, {}, {}, {}, {})

\* What cannot be rewritten is the playbook, importing an encrypted one, or the one beside it.
\* The one at the root sets a variable on its role, or assigns it, in some.
MCContents ==
  { (f1 :> FileOf(k1, {r1}, {}, {}, {}, i1)) @@ (f2 :> FileOf(k2, {r1}, {}, {v2}, {}, i2))
      @@ (f3 :> FileOf(k3, {r2}, IF f3 \in i1 THEN {<<v1, r2>>} ELSE {}, {},
                       IF i3 = {} THEN {} ELSE {v1}, i3)) :
    <<k1, k2, i2>> \in ({"plain"} \X {"plain", "broken", "vault"} \X {{}, {f1}, {f3}})
                       \cup {<<"plain", "fixed", {f3}>>, <<"fixed", "vault", {}>>},
    i1 \in {{}, {f2}, {f2, f3}}, k3 \in {"plain", "none"}, i3 \in {{}, {f2}} }
  \cup {[f \in {f1, f2, f3} |-> Nothing]}

CodeOf(u, d, a) == [uses |-> u, defines |-> d, assigns |-> a]
MCCode ==
  [d \in {top, sub, side} \X {r1, r2} |->
     IF d = <<sub, r1>> THEN CodeOf({v1}, {}, {v2})
     ELSE IF d = <<top, r2>> THEN CodeOf({v2}, {v1}, {})
     ELSE CodeOf({v1, v2}, IF d[1] = top THEN {} ELSE {v1}, {})]

----------------------------------------------------------------------------
VARIABLE part

recordVars == <<part, runHostsVars, secretsVars, playbookVars, pageVars>>

\* The parts that rest start in one state.
Rests ==
  /\ part # "hosts" =>
       /\ device = {} /\ group = {} /\ reserved = {} /\ member = {}
       /\ nameOf = [d \in Device |-> CHOOSE n \in DeviceName : TRUE]
       /\ keyOf = [d \in Device |-> NoKey]
       /\ ask = [r \in Resolution |-> CHOOSE a \in Ask : a.kind = "run" /\ a.devices = {}]
  /\ part = "resolves" => conn = (c1 :> "there") @@ (c2 :> "bare")
  /\ part \notin {"resolves", "saves"} =>
       /\ conn = [c \in Conn |-> "there"]
       /\ book = [b \in Book |-> Declares(NoConn, e2, {})]
  /\ part # "roles" =>
       /\ roleAt = [d \in Dir \X Role |-> "none"] /\ scope = top /\ moved = TRUE /\ unchecked = {}
       /\ file = [f \in File |-> Nothing]

\* The page opens when every playbook is in its section, or none is.
InSections == \A b \in Playbook : stored.playbooks[b] \in Folder \cup {"there"}

MCInit ==
  /\ part \in {"hosts", "resolves", "saves", "roles", "page"}
  /\ Rests
  /\ RunHostsInit /\ RunSecretsInit /\ PlaybookRolesInit
  /\ PlaybooksPageInit /\ stored.folders = Folder
  /\ stored.playbooks \in [Playbook -> {Root, Absent}] \/ (part = "page" /\ InSections)

Hosts == RunHostsNext /\ UNCHANGED <<secretsVars, playbookVars, pageVars>>
Secret == RunSecretsNext /\ UNCHANGED <<runHostsVars, playbookVars, pageVars>>
Roles == PlaybookRolesNext /\ UNCHANGED <<runHostsVars, secretsVars, pageVars>>
Page == PlaybooksPageNext /\ UNCHANGED <<runHostsVars, secretsVars, playbookVars>>

\* Runs resolve while one handler writes, or two handlers write.
MCNext ==
  /\ UNCHANGED part
  /\ \/ part = "hosts" /\ Hosts
     \/ part = "resolves" /\ Secret /\ doing'[s2].op = "none"
     \/ part = "saves" /\ Secret /\ UNCHANGED readVars
     \/ part = "roles" /\ Roles
     \/ part = "page" /\ Page

\* Devices are alike, and so are credentials.
Alike == Permutations(Device) \cup Permutations(Key)

MCSpec == MCInit /\ [][MCNext]_recordVars
=============================================================================
