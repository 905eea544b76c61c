------------------------------ MODULE EditForms ------------------------------
(***************************************************************************)
(* The forms that edit a stored row: when their fields are filled from it, *)
(* what the user types meanwhile, and what a save sends.  The row comes    *)
(* from a query that reads it again whenever it likes.  A behaviour is one *)
(* form, opened, left and opened again, with one row.                      *)
(***************************************************************************)
EXTENDS Integers, FiniteSets

CONSTANTS
  MaxRevision,  \* bound: saves of the row, from the form or elsewhere
  MaxSends,     \* bound: saves of the form that are not answered
  NoRow

\* A text is the revision that wrote it, the empty text, or what the user typed here.
Empty == 0
Mine == -1
Keep == -2   \* not sent
Text == {Mine, Empty} \cup 1 .. MaxRevision

\* When a form takes the row: a dialog "open"s with what its page hands it, or with an
\* effect on "change"s of that; a page fills in again with every new "row" of its query,
\* or "once", when it appears.  It may stay after a save; send a description that was
\* cleared; have a secret that is never shown; refuse to save what is already stored, which
\* comes without its revision; and be a component that its page takes away on an error.
Form(seeds, traits) ==
  [seeds |-> seeds, stays |-> "stays" \in traits, clears |-> "clears" \in traits,
   secret |-> "secret" \in traits, dirty |-> "dirty" \in traits, nested |-> "nested" \in traits]

FolderForm == Form("open", {})
GroupForm == Form("open", {})
DeviceForm == Form("open", {})
RepositoryForm == Form("open", {"clears", "secret"})
CredentialForm == Form("change", {"clears", "secret"})
ConnectionForm == Form("change", {"clears", "secret"})
MutPlaybookForm == Form("row", {}) \* mutant: an empty description becomes undefined
PlaybookForm == Form("row", {"clears"})
ScriptForm == Form("row", {"clears"})
GroupPage == Form("row", {"stays"})
DeclarationForm == Form("row", {"stays", "clears", "dirty", "nested"})
JobForm == Form("once", {"clears", "nested"})

EditForm ==
  {FolderForm, GroupForm, DeviceForm, RepositoryForm, CredentialForm, ConnectionForm,
   PlaybookForm, ScriptForm, GroupPage, DeclarationForm, JobForm}

VARIABLES
  form,
  shows,    \* the dialog is open, or the page is there
  stored,   \* the row: its columns and its revision
  cached,   \* what the query holds, or NoRow
  failing,  \* its last fetch failed
  given,    \* the row the fields were filled from
  fields,
  typed,    \* history: the fields whose text is the user's
  sending,  \* saves that are not answered: what was shown, and what was sent
  waiting   \* the one the form waits for, or NoRow

formVars == <<form, shows, stored, cached, failing, given, fields, typed, sending, waiting>>

Column == {"name", "note", "key"}
Columns == IF form.secret THEN Column ELSE {"name", "note"}
IsDialog == form.seeds \in {"open", "change"}

EditFormsTypeOK ==
  /\ form \in EditForm /\ shows \in BOOLEAN /\ failing \in BOOLEAN
  /\ stored.rev \in 1 .. MaxRevision /\ \A f \in Column : stored[f] \in Text
  /\ \A f \in Column : fields[f] \in Text
  /\ typed \subseteq Columns /\ waiting \in sending \cup {NoRow}

NoTexts == [f \in Column |-> Empty]

EditFormsInit ==
  /\ form \in EditForm
  /\ shows = FALSE /\ cached = NoRow /\ failing = FALSE /\ given = NoRow
  /\ stored = [name |-> 1, note |-> 1, key |-> 1, rev |-> 1]
  /\ fields = NoTexts /\ typed = {} /\ sending = {} /\ waiting = NoRow

\* A page shows its fields only while it has the row and its last fetch did not fail.
Fillable(row, failed) == IsDialog \/ (row # NoRow /\ ~failed)
Filling == shows /\ Fillable(cached, failing)

\* The API never returns a secret, and returns the declaration without its revision.
Public(row) == [row EXCEPT !.key = Empty, !.rev = IF form.dirty THEN 0 ELSE @]
Filled(row) == [f \in Column |-> IF f = "key" THEN Empty ELSE row[f]]

\* What is not shown is filled in before it is shown again.
Clear == given' = NoRow /\ fields' = NoTexts /\ typed' = {}

Seed(row) == given' = row /\ fields' = Filled(row) /\ typed' = {}

----------------------------------------------------------------------------
(* The row and its query.                                                  *)

\* A save elsewhere: of a column, or of none that the form shows.
SaveElsewhere ==
  /\ stored.rev < MaxRevision
  /\ \E F \in {{}} \cup {{f} : f \in Columns} :
       stored' = [c \in DOMAIN stored |->
                    IF c \in F \cup {"rev"} THEN stored.rev + 1 ELSE stored[c]]
  /\ UNCHANGED <<form, shows, cached, failing, given, fields, typed, sending, waiting>>

\* A row read again is another object, for its dates are; a declaration has none, and an
\* equal one is the same object.
MutReseeds(row) == shows \* mutant: every form has an effect on the live row
Reseeds(row) == shows /\ form.seeds = "row" /\ (form.dirty => row # cached)

\* A nested form begins anew whenever its page shows it.
Appears(row) == shows /\ form.nested /\ ~Filling

FetchRow ==
  /\ cached' = Public(stored) /\ failing' = FALSE
  /\ IF Reseeds(cached') \/ Appears(cached') THEN Seed(cached')
     ELSE UNCHANGED <<given, fields, typed>>
  /\ UNCHANGED <<form, shows, stored, sending, waiting>>

\* The page shows an error instead of the fields, though it has the row.
FetchRowFails ==
  /\ failing' = TRUE
  /\ IF form.nested THEN Clear /\ waiting' = NoRow
     ELSE UNCHANGED <<given, fields, typed, waiting>>
  /\ UNCHANGED <<form, shows, stored, cached, sending>>

ForgetRow ==
  /\ ~shows /\ cached' = NoRow /\ failing' = FALSE
  /\ UNCHANGED <<form, shows, stored, given, fields, typed, sending, waiting>>

----------------------------------------------------------------------------
(* The user.                                                               *)

\* A dialog opens on a row of the page's list.  A page fills in behind its error, too.
Show ==
  /\ ~shows /\ shows' = TRUE
  /\ IsDialog => cached # NoRow
  /\ IF cached # NoRow /\ (form.nested => ~failing) THEN Seed(cached)
     ELSE UNCHANGED <<given, fields, typed>>
  /\ UNCHANGED <<form, stored, cached, failing, sending, waiting>>

TypeIn(f) ==
  /\ Filling /\ waiting = NoRow /\ f \in Columns
  /\ \E t \in IF f = "note" THEN {Mine, Empty} ELSE {Mine} : fields' = [fields EXCEPT ![f] = t]
  /\ typed' = typed \cup {f}
  /\ UNCHANGED <<form, shows, stored, cached, failing, given, sending, waiting>>

\* A secret left empty is not sent; nor, by some forms, a description.
MutPayload == [f \in Columns |-> fields[f]] \* mutant: an empty secret is sent
Payload ==
  [f \in Columns |-> IF fields[f] = Empty /\ (f = "key" \/ (f = "note" /\ ~form.clears))
                     THEN Keep ELSE fields[f]]

Submit ==
  /\ Filling /\ waiting = NoRow
  /\ stored.rev < MaxRevision /\ Cardinality(sending) < MaxSends
  /\ form.dirty => fields # Filled(cached)
  /\ waiting' = [shown |-> fields, sent |-> Payload]
  /\ sending' = sending \cup {waiting'}
  /\ UNCHANGED <<form, shows, stored, cached, failing, given, fields, typed>>

\* The form closes, or the page goes elsewhere, wherever the user is by then.
Saved(p) ==
  /\ stored.rev < MaxRevision /\ p \in sending
  /\ stored' = [c \in DOMAIN stored |->
       CASE c = "rev" -> stored.rev + 1
         [] c \in Columns /\ p.sent[c] # Keep -> p.sent[c]
         [] OTHER -> stored[c]]
  /\ sending' = sending \ {p} /\ waiting' = IF waiting = p \/ ~form.stays THEN NoRow ELSE waiting
  /\ shows' = (shows /\ form.stays)
  /\ IF form.stays THEN UNCHANGED <<given, fields, typed>> ELSE Clear
  /\ UNCHANGED <<form, cached, failing>>

SaveFails(p) ==
  /\ p \in sending /\ sending' = sending \ {p}
  /\ waiting' = IF waiting = p THEN NoRow ELSE waiting
  /\ UNCHANGED <<form, shows, stored, cached, failing, given, fields, typed>>

\* A dialog does not close while it saves; a page can always be left, and then nothing
\* waits for its save.
Hide ==
  /\ shows /\ shows' = FALSE
  /\ IsDialog => waiting = NoRow
  /\ Clear /\ waiting' = NoRow
  /\ UNCHANGED <<form, stored, cached, failing, sending>>

EditFormsNext ==
  \/ SaveElsewhere \/ FetchRow \/ FetchRowFails \/ ForgetRow \/ Show \/ Submit \/ Hide
  \/ \E f \in Column : TypeIn(f)
  \/ \E p \in sending : Saved(p) \/ SaveFails(p)

EditFormsSpec == EditFormsInit /\ [][EditFormsNext]_formVars

----------------------------------------------------------------------------
(* Properties.                                                             *)

\* What the user typed stays in the form until he closes it or it is saved, except where
\* a page fills in again a row it fetched, or a nested form is taken away by an error of
\* its page (use-on-open.ts:6-11: a background refetch must not discard it).  What a
\* playbook declares is fetched without harm, unless someone changed it.
TypedIsKept ==
  [][~(typed \subseteq typed') =>
       \/ Hide \/ \E p \in sending : Saved(p)
       \/ form \in {PlaybookForm, ScriptForm, GroupPage} /\ FetchRow
       \/ form = DeclarationForm /\ cached' # cached
       \/ form.nested /\ failing']_formVars

\* What the user did not touch shows the row as it was when the form was filled; in a page
\* that fills in again, as the query has it now.
UntouchedIsTheRow ==
  Filling => \A f \in Columns \ typed :
    fields[f] = Filled(IF form.seeds = "row" THEN cached ELSE given)[f]

\* A save stores what the form showed when it was sent.  A secret left empty stays as it
\* is, and so does a description cleared in the forms of groups, devices and folders.
SavedAsShown ==
  [][\A p \in sending : Saved(p) => \A f \in Columns :
       stored'[f] = IF /\ p.shown[f] = Empty
                       /\ \/ f = "key"
                          \/ f = "note" /\ form \in {GroupForm, DeviceForm, FolderForm, GroupPage}
                    THEN stored[f] ELSE p.shown[f]]_formVars
=============================================================================
