--------------------------- MODULE MCRepositories ---------------------------
(* GitMirror and RepositorySync on small instances, side by side: a        *)
(* behaviour is one of either, so the state spaces add up.                 *)
EXTENDS GitMirror, RepositorySync, TLC

CONSTANTS k1, k2, k3, p1, p2, u1, u2

MCTree == (k1 :> {p1, p2}) @@ (k2 :> {p2}) @@ (k3 :> {p1})
MCOffers == (u1 :> {k1, k2}) @@ (u2 :> {k3})

VARIABLE part \* the module a behaviour is of

MCInit ==
  /\ part \in {"mirror", "sync"}
  /\ MirrorInit
  /\ SyncInit /\ url = u1

MCNext ==
  \/ part = "mirror" /\ MirrorNext /\ UNCHANGED <<part, repositoryVars>>
  \/ part = "sync" /\ SyncNext /\ UNCHANGED <<part, mirrorVars>>

MCSpec == MCInit /\ [][MCNext]_<<part, mirrorVars, repositoryVars>>

Symmetry == Permutations(Call) \cup Permutations(Sync)
=============================================================================
