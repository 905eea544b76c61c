---------------------------- MODULE PlaybookRoles ----------------------------
(***************************************************************************)
(* A playbook of a repository at one commit: what the ansible service      *)
(* finds in it (services/git/discover.py), what the run page offers of it  *)
(* (playbooks/lib/playbook-roles.ts), and the copy that a run is given     *)
(* (materialize.py), where roles are disabled (disabled_roles.py) and      *)
(* plays made to target the selection (play_targets.py).                   *)
(***************************************************************************)
EXTENDS Naturals, Sequences, FiniteSets

CONSTANTS
  File, Main,       \* YAML files, and the playbook itself
  Dir, Up, DirOf,   \* folders, the way from each to the root, and each file's
  Role, Variable,
  Layouts,          \* role folders there may be
  Contents,         \* contents the files may have
  Code,             \* of a role in a folder: variables used, defined and assigned
  MaxImportDepth

\* Its plays' roles, with the vars on their entries, its plays' vars, what its plays' own tasks
\* assign, and its imports.  The hosts of a "fixed" file cannot be rewritten: an anchor, say.
FileContent ==
  {c \in [kind : {"plain", "fixed", "broken", "vault", "none"}, uses : SUBSET Role,
          entries : SUBSET (Variable \X Role), vars : SUBSET Variable, assigns : SUBSET Variable,
          imports : SUBSET File] : c.entries \subseteq Variable \X c.uses}

ASSUME PlaybookRolesAssumption ==
  /\ IsFiniteSet(File) /\ Main \in File /\ MaxImportDepth \in Nat
  /\ DirOf \in [File -> Dir] /\ Up \in [Dir -> Seq(Dir)]
  /\ Contents \subseteq [File -> FileContent]

VARIABLES
  roleAt,    \* the role of a name in a roles/ folder: "none", "bare" (neither tasks/main nor
             \* meta/main), "marked" or "linked" (a symbolic link)
  file,      \* what each file holds
  scope,     \* the folder of the repository that is read for playbooks
  work,
  moved,     \* a sync moved the repository to this commit after the form was shown
  path, visited,         \* the discovery's way down the imports, and the files it has read
  listed,                \* variables that nothing defines, under one role each
  unchecked,             \* roles the form leaves out
  emptied,               \* role folders of the copy left without tasks
  pending, through       \* the copy's files still to rewrite, and those gone through

discoveryVars == <<path, visited, listed>>
copyVars == <<emptied, pending, through>>
sourceVars == <<roleAt, file, scope, moved>>
playbookVars == <<sourceVars, work, discoveryVars, unchecked, copyVars>>

PlaybookRolesTypeOK ==
  /\ roleAt \in [Dir \X Role -> {"none", "bare", "marked", "linked"}]
  /\ file \in [File -> FileContent] /\ scope \in Dir
  /\ work \in {"discover", "choose", "locate", "disable", "retarget", "launched",
                 "no_file", "no_role", "encrypted"}
  /\ path \in Seq(File) /\ visited \subseteq File
  /\ listed \subseteq Variable \X Role
  /\ moved \in BOOLEAN /\ unchecked \subseteq Role /\ emptied \subseteq Dir \X Role
  /\ pending \subseteq File /\ through \subseteq File

\* The plays of a file that cannot be read, or that is encrypted, are none.
Readable(f) == file[f].kind \in {"plain", "fixed"}

Inside(d, e) == \E i \in DOMAIN Up[d] : Up[d][i] = e

\* A playbook that discovery found, or a run whose form showed an older commit and can
\* leave out any role.
PlaybookRolesInit ==
  /\ roleAt \in Layouts /\ file \in Contents
  /\ scope \in Dir /\ Inside(DirOf[Main], scope)
  /\ \/ /\ moved = FALSE /\ Readable(Main) /\ unchecked = {}
        /\ work = "discover" /\ path = <<Main>> /\ visited = {Main}
     \/ /\ moved = TRUE /\ unchecked \in SUBSET Role
        /\ work = "locate" /\ path = <<>> /\ visited = {}
  /\ listed = {} /\ emptied = {} /\ pending = {} /\ through = {}

----------------------------------------------------------------------------
(* Discovery.                                                              *)

Imports(f) == IF Readable(f) THEN file[f].imports ELSE {}

\* mutant: the imports of an imported playbook are not followed
MutFollow(f) == IF Len(path) > 1 THEN {} ELSE Imports(f) \ visited
\* What _plays_of goes on to from the file it is in.
Follow(f) == IF Len(path) > MaxImportDepth THEN {} ELSE Imports(f) \ visited

Visit ==
  LET f == path[Len(path)] IN
  /\ work = "discover" /\ path # <<>>
  /\ IF Follow(f) = {}
       THEN path' = SubSeq(path, 1, Len(path) - 1) /\ UNCHANGED visited
       ELSE \E g \in Follow(f) : path' = Append(path, g) /\ visited' = visited \cup {g}
  /\ UNCHANGED <<sourceVars, work, listed, unchecked, copyVars>>

Plays == {f \in visited : Readable(f)}

\* _playbook_usage.
UsedRoles == UNION {file[f].uses : f \in Plays}

\* discover_roles: those above or inside the folder that is read.
RolePaths ==
  {d \in Dir \X Role : roleAt[d] = "marked" /\ (Inside(scope, d[1]) \/ Inside(d[1], scope))}

\* mutant: the role nearest to the root
MutNearestIn(f, r, S) ==
  LET up == Up[DirOf[f]]
      found == {i \in DOMAIN up : <<up[i], r>> \in S}
  IN {<<up[j], r>> : j \in {i \in found : \A k \in found : k <= i}}
\* _nearest_role.
NearestIn(f, r, S) ==
  LET up == Up[DirOf[f]]
      found == {i \in DOMAIN up : <<up[i], r>> \in S}
  IN {<<up[j], r>> : j \in {i \in found : \A k \in found : i <= k}}

\* The roles that are read for a playbook's variables.
DeclaredBy(f) == UNION {NearestIn(f, r, RolePaths) : r \in file[f].uses}
AllDeclared == UNION {DeclaredBy(f) : f \in Plays}

PlayVariables == UNION {file[f].vars : f \in Plays}
\* mutant: the vars on the entry of a role that has no folder are passed over
MutRoleVariables ==
  (UNION {Code[d].defines \X {d[2]} : d \in AllDeclared})
    \cup {v \in UNION {file[f].entries : f \in Plays} : \E d \in AllDeclared : d[2] = v[2]}
RoleVariables ==
  (UNION {Code[d].defines \X {d[2]} : d \in AllDeclared}) \cup UNION {file[f].entries : f \in Plays}

PlayAssigns == UNION {file[f].assigns : f \in Plays}
RoleAssigns == UNION {Code[d].assigns : d \in AllDeclared}

\* mutant: what plays assign in their own tasks counts as undefined
MutKnown == PlayVariables \cup {v[1] : v \in RoleVariables} \cup RoleAssigns
Known == PlayVariables \cup {v[1] : v \in RoleVariables} \cup PlayAssigns \cup RoleAssigns

Undefined == UNION {(Code[d].uses \ Known) \X {d[2]} : d \in AllDeclared}

\* _playbook_variables lists a name that nothing defines once, under the first role that
\* uses it.
ListVariables ==
  /\ work = "discover" /\ path = <<>> /\ work' = "choose"
  /\ listed' \in {L \in SUBSET Undefined :
                    \A u \in Undefined : \E l \in L : {k \in L : k[1] = u[1]} = {l}}
  /\ UNCHANGED <<sourceVars, path, visited, unchecked, copyVars>>

----------------------------------------------------------------------------
(* The run page.                                                           *)

\* mutant: external roles are offered too
MutSelectable == UsedRoles
\* selectableRoles.
Selectable == {r \in UsedRoles : \E d \in RolePaths : d[2] = r}

\* mutant: a variable that any role left out lists is not offered
MutOffered(out) ==
  PlayVariables \cup ({v[1] : v \in RoleVariables \cup listed}
                       \ {v[1] : v \in {v \in RoleVariables : v[2] \in out}})
\* offeredVariables.
Offered(out) ==
  PlayVariables \cup {v[1] : v \in {v \in RoleVariables \cup listed : v[2] \notin out}}

Choose ==
  /\ work = "choose" /\ work' = "locate"
  /\ unchecked' \in SUBSET Selectable
  /\ UNCHANGED <<sourceVars, discoveryVars, copyVars>>

----------------------------------------------------------------------------
(* The copy of the run.                                                    *)

Locate ==
  /\ work = "locate"
  /\ work' = IF file[Main].kind = "none" THEN "no_file" ELSE "disable"
  /\ UNCHANGED <<sourceVars, discoveryVars, unchecked, copyVars>>

\* mutant: only the nearest role of a name is emptied
MutFoldersOf(r) == NearestIn(Main, r, {d \in Dir \X Role : roleAt[d] # "none"})
FoldersOf(r) == {d \in Dir \X {r} : roleAt[d] # "none"}

\* disable_roles.
DisableRoles ==
  /\ work = "disable"
  /\ emptied' = UNION {FoldersOf(r) : r \in unchecked}
  /\ IF \E r \in unchecked : FoldersOf(r) = {}
       THEN work' = "no_role" /\ UNCHANGED pending
       ELSE work' = "retarget" /\ pending' = {Main}
  /\ UNCHANGED <<sourceVars, discoveryVars, unchecked, through>>

\* mutant: an encrypted file is one text without plays
MutEncrypted(f) == FALSE
Encrypted(f) == file[f].kind = "vault"

\* mutant: imported playbooks keep their hosts
MutFollowed(f) == {}
\* A file that cannot be rewritten is left as it is, and its imports too.
Rewritable(f) == file[f].kind = "plain"
Followed(f) == IF Rewritable(f) THEN file[f].imports ELSE {}

\* retarget_playbook, one file a step.
Retarget ==
  /\ work = "retarget"
  /\ IF pending = {}
       THEN work' = "launched" /\ UNCHANGED <<pending, through>>
       ELSE \E f \in pending :
              IF Encrypted(f)
                THEN work' = "encrypted" /\ UNCHANGED <<pending, through>>
                ELSE /\ through' = through \cup {f}
                     /\ pending' = (pending \cup Followed(f)) \ through'
                     /\ UNCHANGED work
  /\ UNCHANGED <<sourceVars, discoveryVars, unchecked, emptied>>

PlaybookRolesNext ==
  Visit \/ ListVariables \/ Choose \/ Locate \/ DisableRoles \/ Retarget

PlaybookRolesSpec == PlaybookRolesInit /\ [][PlaybookRolesNext]_playbookVars

----------------------------------------------------------------------------
(* Properties.                                                             *)

\* With a file come those that it imports.
Closed(S) == \A f \in S : Imports(f) \subseteq S

\* What a run of the playbook plays, the imports that are templates left aside.
Played == {f \in File : \A S \in SUBSET File : Main \in S /\ Closed(S) => f \in S}

Discovered == ~moved /\ work # "discover"

\* The roles of every play that a run reaches are listed, even through cycles of imports,
\* when no chain of them is deeper than the limit (discover.py:280-300).
UsageComplete ==
  Discovered /\ Cardinality(File) <= MaxImportDepth + 1 =>
    UsedRoles = UNION {file[f].uses : f \in {f \in Played : Readable(f)}}

\* What ansible runs: the first role of the name on its way up from the playbook.
RunRole(r) ==
  LET up == Up[DirOf[Main]] IN
  {<<up[i], r>> : i \in {i \in DOMAIN up :
     roleAt[<<up[i], r>>] # "none" /\ \A k \in 1 .. i - 1 : roleAt[<<up[k], r>>] = "none"}}

\* The variables listed for a role of the playbook itself are those of the role that the
\* run would find, unless the nearest folder of its name is none that discovery knows
\* (discover.py:404).
VariablesOfTheRunRole ==
  \A r \in file[Main].uses :
    Discovered /\ RunRole(r) \subseteq RolePaths => NearestIn(Main, r, RolePaths) = RunRole(r)

\* A variable that a role left on uses, and nothing in the playbook defines or assigns, is
\* offered for an override, unless only roles left out list it.
NeededIsOffered ==
  Discovered /\ work # "choose" =>
    \A d \in AllDeclared : \A v \in Code[d].uses :
      d[2] \notin unchecked =>
        \/ v \in Offered(unchecked)
        \/ v \in PlayAssigns \cup RoleAssigns
        \/ LET of == {l \in RoleVariables \cup listed : l[1] = v}
           IN of # {} /\ \A l \in of : l[2] \in unchecked

\* What is asked for is really undefined: no play that a run reaches sets or assigns it, nor
\* sets it on the entry of a role, nor does a role of theirs define or assign it.
AskedIsUndefined ==
  Discovered /\ Cardinality(File) <= MaxImportDepth + 1 => \A l \in listed :
    /\ \A f \in Played : Readable(f) =>
         /\ l[1] \notin file[f].vars \cup file[f].assigns
         /\ \A r \in Role : <<l[1], r>> \notin file[f].entries
    /\ \A d \in AllDeclared : l[1] \notin Code[d].defines \cup Code[d].assigns

\* The run form offers all that the run will need, and asks for nothing else.
FormIsComplete ==
  UsageComplete /\ VariablesOfTheRunRole /\ NeededIsOffered /\ AskedIsUndefined

\* Every role the page offers to leave out can be, at the commit it was offered for.
OfferedCanBeDisabled == work = "no_role" => moved

\* A run that goes ahead runs no task of a role left out, wherever the role is found, also
\* when the repository moved to a commit with other roles (disabled_roles.py:73-76).
DisabledRunsNothing ==
  work \in {"retarget", "launched"} =>
    \A r \in unchecked :
      /\ \E d \in emptied : d[2] = r
      /\ \A d \in Dir \X {r} : roleAt[d] # "none" => d \in emptied

\* Those that it plays through files whose hosts can be rewritten.
Reached ==
  {f \in File :
     \A S \in SUBSET File :
       /\ Main \in S
       /\ \A g \in S : file[g].kind = "plain" => file[g].imports \subseteq S
       => f \in S}

\* Of the files that a run reaches through rewritten ones, no play keeps its own hosts but in a
\* file that cannot be rewritten; an encrypted one is refused, and only that.  What is imported
\* by a file that cannot be rewritten is out of it (play_targets.py:98-105).
SelectionDecides ==
  /\ work = "launched" => \A f \in Reached :
       file[f].kind # "vault" /\ (Rewritable(f) => f \in through)
  /\ work = "encrypted" => \E f \in Reached : file[f].kind = "vault"

\* The run is the one chosen in the form: its roles, on its hosts.
ChoiceIsHonoured == OfferedCanBeDisabled /\ DisabledRunsNothing /\ SelectionDecides
=============================================================================
