----------------------------- MODULE RunVariables -----------------------------
(***************************************************************************)
(* The variables of a run, on the run page of a playbook and on the form   *)
(* of a job: rows of values and secrets over the variables the playbook    *)
(* declares, and the Infisical connection and environment their secrets    *)
(* are read from.                                                          *)
(***************************************************************************)
EXTENDS Integers, Sequences, FiniteSets

CONSTANTS
  Playbook, Connection, Environment, Name, Secret,
  None,
  Declares,   \* declarations a playbook may have
  EnvsOf,     \* the environments of each connection's project, the first one first
  NameFor,    \* the name suggested for a secret
  MaxRows     \* bound: rows of a form

ASSUME RunVariablesAssumption ==
  /\ None \notin UNION {Playbook, Connection, Environment, Name, Secret, Declares}
  /\ Declares \subseteq [conn : Connection \cup {None}, env : Environment \cup {None},
                         vars : [Name -> Secret \cup {None}]]
  /\ EnvsOf \in [Connection -> Seq(Environment)] /\ NameFor \in [Secret -> Name]
  /\ MaxRows \in Nat \ {0}

VARIABLES
  onJob,      \* the form of a job, which chooses its playbook, or the run page of one
  playbook,
  declared,   \* the declarations stored
  known,      \* and read, or None
  connection, environment,  \* what the run sets: None means the playbook's
  envsRead,   \* connections whose environments were listed, or could not be
  rows,
  envOf,      \* history: the connection the environment was chosen for
  moved       \* history: another declaration, since the connection was chosen

variableVars ==
  <<onJob, playbook, declared, known, connection, environment, envsRead, rows, envOf, moved>>

VariableRow == [name : Name \cup {None}, kind : {"text", "secret"}, fits : BOOLEAN,
        secret : Secret \cup {None}]
TextRow(n) == [name |-> n, kind |-> "text", fits |-> TRUE, secret |-> None]
SecretRow(n, s) == [name |-> n, kind |-> "secret", fits |-> TRUE, secret |-> s]

RunVariablesTypeOK ==
  /\ onJob \in BOOLEAN /\ playbook \in Playbook \cup {None}
  /\ declared \in [Playbook -> Declares] /\ known \in [Playbook -> Declares \cup {None}]
  /\ connection \in Connection \cup {None} /\ environment \in Environment \cup {None}
  /\ rows \in Seq(VariableRow) /\ Len(rows) <= MaxRows
  /\ \A c \in DOMAIN envsRead : envsRead[c] \in {"pending", "listed", "failed"}
  /\ envOf \in Connection \cup {None} /\ moved \in BOOLEAN

\* What is read of the playbook chosen.
Declaration(p, k) == IF p = None THEN None ELSE k[p]
Or(x, f, d) == IF x # None \/ d = None THEN x ELSE d[f]
EffectiveConnection == Or(connection, "conn", Declaration(playbook, known))
EffectiveEnvironment == Or(environment, "env", Declaration(playbook, known))

HasSecrets(rs) == \E i \in DOMAIN rs : rs[i].kind = "secret"

\* A job's form begins with what the job stored.
RunVariablesInit ==
  /\ onJob \in BOOLEAN /\ playbook \in Playbook
  /\ declared \in [Playbook -> Declares] /\ known = [p \in Playbook |-> None]
  /\ connection = None /\ environment = None /\ envOf = None
  /\ envsRead = [c \in Connection |-> "pending"]
  /\ rows \in {<<>>} \cup (IF onJob THEN {<<SecretRow(n, s)>> : n \in Name, s \in Secret} ELSE {})
  /\ moved = HasSecrets(rows)

----------------------------------------------------------------------------
(* The connection and the environment.                                     *)

MutSlugKept == environment \* mutant: the environment stays with another connection
SlugKept == None \* a slug belongs to a project

\* What the fields are set to, and then the first environment of the connection in use, by
\* the effect of its field, when there is none.
Sets(p, k, c, e, eOf, read) ==
  LET d == Declaration(p, k)
      used == Or(c, "conn", d)
      empty == used # None /\ Or(e, "env", d) = None /\ read[used] = "listed" /\ EnvsOf[used] # <<>>
  IN /\ playbook' = p /\ known' = k /\ connection' = c /\ envsRead' = read
     /\ environment' = (IF empty THEN Head(EnvsOf[used]) ELSE e)
     /\ envOf' = (IF empty THEN used ELSE eOf)

ListEnvironments(c) ==
  /\ c = EffectiveConnection /\ envsRead[c] # "listed"
  /\ \E l \in {"listed", "failed"} :
       Sets(playbook, known, connection, environment, envOf, [envsRead EXCEPT ![c] = l])
  /\ UNCHANGED <<onJob, declared, rows, moved>>

\* Something that was chosen for another declaration.
Moved == moved \/ environment # None \/ HasSecrets(rows)

ChoosePlaybook(p) ==
  /\ onJob /\ p # playbook
  /\ Sets(p, known, connection, environment, envOf, envsRead)
  /\ moved' = Moved /\ UNCHANGED <<onJob, declared, rows>>

Redeclare(p, d) ==
  /\ declared' = [declared EXCEPT ![p] = d]
  /\ UNCHANGED <<onJob, playbook, known, connection, environment, envsRead, rows, envOf, moved>>

ReadDeclaration(p) ==
  /\ p = playbook
  /\ Sets(p, [known EXCEPT ![p] = declared[p]], connection, environment, envOf, envsRead)
  /\ moved' = (IF known[p] \in {None, declared[p]} THEN moved ELSE Moved)
  /\ UNCHANGED <<onJob, declared, rows>>

\* Without a connection there are no secrets to point at.
MutToText(rs) == rs \* mutant: the rows stay as they are
ToText(rs) == [i \in DOMAIN rs |-> [rs[i] EXCEPT !.kind = "text"]]

\* None can be chosen only where the playbook has none either.
ChooseConnection(c) ==
  LET d == Declaration(playbook, known)
      without == c = None /\ Or(None, "conn", d) = None
  IN /\ c # EffectiveConnection /\ (c = None => without)
     /\ rows' = IF without THEN ToText(rows) ELSE rows
     /\ Sets(playbook, known, c, SlugKept, None, envsRead)
     /\ moved' = FALSE /\ UNCHANGED <<onJob, declared>>

\* From the list, or typed where there is none.
ChooseEnvironment(e) ==
  LET c == EffectiveConnection IN
  /\ c # None /\ envsRead[c] # "pending"
  /\ envsRead[c] = "listed" => \E i \in DOMAIN EnvsOf[c] : EnvsOf[c][i] = e
  /\ environment' = e /\ envOf' = c
  /\ UNCHANGED <<onJob, playbook, declared, known, connection, envsRead, rows, moved>>

----------------------------------------------------------------------------
(* The rows.                                                               *)

DeclaredSecret(n) ==
  LET d == Declaration(playbook, known) IN IF d = None THEN None ELSE d.vars[n]

\* A secret row named like a declared variable is that variable's override.
Overrides(n) == {i \in DOMAIN rows : rows[i].kind = "secret" /\ rows[i].name = n}
IsOverride(i) ==
  rows[i].kind = "secret" /\ rows[i].name # None /\ DeclaredSecret(rows[i].name) # None
Own == {i \in DOMAIN rows : ~IsOverride(i)}

\* What the declared row of a name shows: the last override.
ShownSecret(n) ==
  IF Overrides(n) = {} THEN DeclaredSecret(n)
  ELSE rows[CHOOSE i \in Overrides(n) : \A j \in Overrides(n) : j <= i].secret

ShownAsValue(i) == rows[i].kind = "text" \/ EffectiveConnection = None

PutRows(rs) ==
  /\ Len(rs) <= MaxRows /\ rows' = rs
  /\ UNCHANGED <<onJob, playbook, declared, known, connection, environment, envsRead, envOf, moved>>
EditRow(i, row) == i \in Own /\ PutRows([rows EXCEPT ![i] = row])

\* The rows but some, in their order.
Without(S) ==
  LET left == DOMAIN rows \ S
      Nth(k) == CHOOSE i \in left : Cardinality({j \in left : j <= i}) = k
  IN [k \in 1 .. Cardinality(left) |-> rows[Nth(k)]]

AddRow == PutRows(Append(rows, TextRow(None)))

\* On the run page, of a variable the playbook's files define: not one that has a row.
OverrideDetected(n) ==
  /\ ~onJob /\ DeclaredSecret(n) = None /\ \A i \in Own : rows[i].name # n
  /\ PutRows(Append(rows, TextRow(n)))

RemoveRow(i) == i \in Own /\ PutRows(Without({i}))
NameRow(i, n) == EditRow(i, [rows[i] EXCEPT !.name = n])
ChooseKind(i, k) == EffectiveConnection # None /\ EditRow(i, [rows[i] EXCEPT !.kind = k])
TypeValue(i, fits) == ShownAsValue(i) /\ EditRow(i, [rows[i] EXCEPT !.fits = fits])

\* A row without a name takes the one the secret suggests.
ChooseSecret(i, s) ==
  /\ ~ShownAsValue(i) /\ EffectiveEnvironment # None
  /\ EditRow(i, [rows[i] EXCEPT !.secret = s, !.name = IF @ = None THEN NameFor[s] ELSE @])

\* The playbook's own secret removes the override.
Overridden(n, s) ==
  IF s = DeclaredSecret(n) THEN Without(Overrides(n))
  ELSE Append(Without(Overrides(n)), SecretRow(n, s))

ChooseDeclared(n, s) ==
  /\ DeclaredSecret(n) # None /\ EffectiveConnection # None /\ EffectiveEnvironment # None
  /\ PutRows(Overridden(n, s))

RunVariablesNext ==
  \/ \E c \in Connection : ListEnvironments(c)
  \/ \E p \in Playbook \cup {None} : ChoosePlaybook(p)
  \/ \E p \in Playbook : ReadDeclaration(p) \/ \E d \in Declares : Redeclare(p, d)
  \/ \E c \in Connection \cup {None} : ChooseConnection(c)
  \/ \E e \in Environment : ChooseEnvironment(e)
  \/ AddRow \/ \E n \in Name : OverrideDetected(n)
  \/ \E i \in DOMAIN rows :
       \/ RemoveRow(i)
       \/ \E n \in Name \cup {None} : NameRow(i, n)
       \/ \E k \in {"text", "secret"} : ChooseKind(i, k)
       \/ \E f \in BOOLEAN : TypeValue(i, f)
       \/ \E s \in Secret : ChooseSecret(i, s)
  \/ \E n \in Name, s \in Secret : ChooseDeclared(n, s)

RunVariablesSpec == RunVariablesInit /\ [][RunVariablesNext]_variableVars

----------------------------------------------------------------------------
(* What a run or a job is sent with, and what becomes of it.               *)

Named(k) == {i \in DOMAIN rows : rows[i].name # None /\ rows[i].kind = k}

\* A secret row without a secret, or a value that does not fit, keeps it from being sent.
MutIncomplete == {} \* mutant: a secret row without a secret is left out
Incomplete == {i \in Named("secret") : rows[i].secret = None}
Invalid == {i \in Named("text") : ~rows[i].fits}
IsSent == Incomplete = {} /\ Invalid = {}

\* The last value of a name; and its secrets, which the API refuses to take twice.
ValueRow(n) ==
  LET same == {i \in Named("text") : rows[i].name = n}
  IN IF same = {} THEN 0 ELSE CHOOSE i \in same : \A j \in same : j <= i
SentSecrets == {i \in Named("secret") : rows[i].secret # None}

\* The API merges the declared variables with those sent, and refuses a value of the same
\* name as a secret.
MutMerged(own, d) == own \* mutant: the playbook's are left out
Merged(own, d) == IF own # None THEN own ELSE d

Runs ==
  LET d == Declaration(playbook, declared)
      own(n) == {i \in SentSecrets : rows[i].name = n}
      reads(n) == Merged(IF own(n) = {} THEN None ELSE rows[CHOOSE i \in own(n) : TRUE].secret,
                         IF d = None THEN None ELSE d.vars[n])
  IN [reads |-> [n \in Name |-> reads(n)],
      ok |-> /\ \A i, j \in SentSecrets : rows[i].name = rows[j].name => i = j
             /\ \A n \in Name : ValueRow(n) # 0 => reads(n) = None]

----------------------------------------------------------------------------
(* Properties.                                                             *)

\* What a declared row shows is the secret the run reads, if what the playbook declares
\* has not changed since it was read.
DeclaredIsRead ==
  IsSent /\ Runs.ok /\ Declaration(playbook, known) = Declaration(playbook, declared) =>
    \A n \in Name : DeclaredSecret(n) # None => Runs.reads[n] = ShownSecret(n)

\* A row of the user's own that has a name is what the run gets: its secret, or its value
\* unless a later row has the name.
OwnIsSent ==
  IsSent /\ Runs.ok => \A i \in Own : rows[i].name # None =>
    IF rows[i].kind = "secret" THEN Runs.reads[rows[i].name] = rows[i].secret /\ rows[i].secret # None
    ELSE ValueRow(rows[i].name) >= i /\ Runs.reads[rows[i].name] = None

\* The environment a run sets is one of the connection it uses, and its secrets have a
\* connection, unless the declaration is another since they were chosen
\* (run-variables-fields.tsx:112-120).
FitsConnection ==
  ~moved =>
    /\ environment # None => envOf = EffectiveConnection
    /\ HasSecrets(rows) => EffectiveConnection # None
=============================================================================
