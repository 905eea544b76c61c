----------------------------- MODULE KeyPairForm -----------------------------
(***************************************************************************)
(* The key pair of a credential: generated by the server or typed in a     *)
(* dialog that creates or edits credentials, one save at a time, while     *)
(* others replace pairs and the list the dialog opens from grows old.      *)
(***************************************************************************)
EXTENDS Integers

CONSTANTS
  Credential,
  MaxPairs  \* bound: pairs generated or imported elsewhere

\* A key is the pair it belongs to, nothing, or what the user typed.
NoKey == 0
TypedKey == -1
Key == {NoKey, TypedKey} \cup 1 .. MaxPairs
Keys == [private : Key, public : Key]
NoKeys == [private |-> NoKey, public |-> NoKey]
Pair(n) == [private |-> n, public |-> n]

VARIABLES
  pairs,     \* pairs made so far
  keysOf,    \* the stored keys; NoKeys is no credential
  listed,    \* the public keys in the list of the page
  editing,   \* the credential the dialog edits, "new", or "closed"
  generates, \* the mode of the dialog: it generates, or imports
  keys,      \* its two values
  asking,    \* a pair was asked for
  saving,    \* the keys under way, or NoKeys
  outdated   \* history: credentials saved with a public key that had been replaced

keyVars == <<pairs, keysOf, listed, editing, generates, keys, asking, saving, outdated>>

KeyPairTypeOK ==
  /\ pairs \in 0 .. MaxPairs /\ keysOf \in [Credential -> Keys]
  /\ listed \in [Credential -> Key] /\ editing \in Credential \cup {"new", "closed"}
  /\ generates \in BOOLEAN /\ asking \in BOOLEAN /\ outdated \subseteq Credential
  /\ keys \in Keys /\ saving \in Keys

KeyPairInit ==
  /\ pairs = 0 /\ keysOf = [c \in Credential |-> NoKeys] /\ listed = [c \in Credential |-> NoKey]
  /\ editing = "closed" /\ generates = FALSE /\ keys = NoKeys
  /\ asking = FALSE /\ saving = NoKeys /\ outdated = {}

Idle == editing # "closed" /\ saving = NoKeys

\* The dialog is filled in when it opens, with the row of the list.
OpenKeys(x) ==
  /\ editing = "closed" /\ editing' = x
  /\ x # "new" => listed[x] # NoKey
  /\ keys' = IF x = "new" THEN NoKeys ELSE [private |-> NoKey, public |-> listed[x]]
  /\ UNCHANGED <<pairs, keysOf, listed, generates, asking, saving, outdated>>

Closed == editing' = "closed" /\ keys' = NoKeys /\ generates' = FALSE

CloseKeys ==
  /\ Idle /\ Closed
  /\ UNCHANGED <<pairs, keysOf, listed, asking, saving, outdated>>

MutSwitchKeys == keys \* mutant: the other mode keeps the values
SwitchKeys == NoKeys

SwitchMode ==
  /\ Idle /\ editing = "new"
  /\ generates' = ~generates /\ keys' = SwitchKeys
  /\ UNCHANGED <<pairs, keysOf, listed, editing, asking, saving, outdated>>

TypeKey(f) ==
  /\ Idle /\ ~generates
  /\ keys' = [keys EXCEPT ![f] = TypedKey]
  /\ UNCHANGED <<pairs, keysOf, listed, editing, generates, asking, saving, outdated>>

Generate ==
  /\ Idle /\ generates /\ ~asking /\ pairs < MaxPairs
  /\ asking' = TRUE
  /\ UNCHANGED <<pairs, keysOf, listed, editing, generates, keys, saving, outdated>>

\* The answer fills in whatever the dialog shows by now.
MutGenerated(n) == [keys EXCEPT !.private = n] \* mutant: the shown public key stays
Generated(n) == Pair(n)

GenerateEnds ==
  /\ asking /\ asking' = FALSE
  /\ \/ pairs < MaxPairs /\ pairs' = pairs + 1 /\ keys' = Generated(pairs')
     \/ UNCHANGED <<pairs, keys>>
  /\ UNCHANGED <<keysOf, listed, editing, generates, saving, outdated>>

\* A new credential needs both keys; an edited one keeps the private key it does not send.
SaveKeys ==
  /\ Idle
  /\ keys.public # NoKey /\ (editing = "new" => keys.private # NoKey)
  /\ saving' = keys
  /\ UNCHANGED <<pairs, keysOf, listed, editing, generates, keys, asking, outdated>>

MutKept(c) == saving \* mutant: an empty private key is sent
Kept(c) == IF saving.private = NoKey THEN [saving EXCEPT !.private = keysOf[c].private] ELSE saving

KeysSaved ==
  /\ saving # NoKeys /\ saving' = NoKeys /\ Closed
  /\ \E c \in Credential :
       /\ IF editing = "new" THEN keysOf[c] = NoKeys ELSE c = editing
       /\ keysOf' = [keysOf EXCEPT ![c] = Kept(c)]
       /\ outdated' = IF saving.private = NoKey /\ saving.public # keysOf[c].public
                      THEN outdated \cup {c} ELSE outdated
  /\ UNCHANGED <<pairs, listed, asking>>

KeysSaveFails ==
  /\ saving # NoKeys /\ saving' = NoKeys
  /\ UNCHANGED <<pairs, keysOf, listed, editing, generates, keys, asking, outdated>>

ReplaceElsewhere(c) ==
  /\ keysOf[c] # NoKeys /\ pairs < MaxPairs /\ pairs' = pairs + 1
  /\ keysOf' = [keysOf EXCEPT ![c] = Pair(pairs')] /\ outdated' = outdated \ {c}
  /\ UNCHANGED <<listed, editing, generates, keys, asking, saving>>

FetchKeys ==
  /\ listed' = [c \in Credential |-> keysOf[c].public]
  /\ UNCHANGED <<pairs, keysOf, editing, generates, keys, asking, saving, outdated>>

KeyPairNext ==
  \/ \E x \in Credential \cup {"new"} : OpenKeys(x)
  \/ CloseKeys \/ SwitchMode \/ Generate \/ GenerateEnds
  \/ \E f \in {"private", "public"} : TypeKey(f)
  \/ SaveKeys \/ KeysSaved \/ KeysSaveFails \/ FetchKeys
  \/ \E c \in Credential : ReplaceElsewhere(c)

KeyPairSpec == KeyPairInit /\ [][KeyPairNext]_keyVars

----------------------------------------------------------------------------
(* Properties.                                                             *)

Halves(k) == k.private # k.public /\ TypedKey \notin {k.private, k.public}

\* The keys of a credential belong together, unless the user typed one of them: whatever
\* was generated, however late, and whatever was saved without a private key.  Only a list
\* grown old breaks a pair, since an edit sends the public key it began with
\* (credential-form-modal.tsx:110-115).
PairsAreWhole == \A c \in Credential : Halves(keysOf[c]) => c \in outdated

\* The dialog that generates shows a generated pair, or none.
GeneratedIsWhole == generates => keys.private = keys.public /\ keys.private # TypedKey
=============================================================================
