----------------------------- MODULE GitMirror -----------------------------
(***************************************************************************)
(* The bare mirror of one repository in the ansible service                *)
(* (services/git/mirror.py) under the RPCs that use it: SyncRepository,    *)
(* ListRepositoryRoles and RunBundle, DeleteRepository.  Git runs in       *)
(* threads.  An asyncio lock per repository orders those that write; a     *)
(* call that is cancelled gives its lock back while its thread goes on,    *)
(* and a delete forgets the lock that others may still be waiting for.     *)
(***************************************************************************)
EXTENDS Naturals, Sequences, FiniteSets

CONSTANTS
  Call,       \* RPCs, each used once
  Nil,
  MaxSyncs,   \* settings.max_concurrent_syncs
  MaxPushes,  \* bound: pushes to the remote
  MaxCancels  \* bound: calls whose client goes away

ASSUME GitMirrorAssumption ==
  /\ Nil \notin Call \cup Nat \cup {"ok", "error"}
  /\ MaxSyncs \in Nat \ {0} /\ MaxPushes \in Nat /\ MaxCancels \in Nat

VARIABLES
  head, reach,       \* the remote branch: its head and the commits it contains
  mirror,            \* <<>>, or <<the branch's ref, the objects, is it a repository?>>
  kind, pc,          \* the RPC, and where its task or its orphaned thread is
  want,              \* the pinned commit of an ensure, the head a sync found
  orphan,            \* cancelled while its thread runs
  answer,            \* Nil, "ok" or "error"
  got,               \* of a fetch: the remote's head and commits, the ref it replaces
  registered,        \* the lock in _LOCKS, named after the call that made it
  lockOf,            \* the lock a call has asked for
  holder, waiters,   \* of each lock
  cancels,
  \* History: heads of the branch during a call; whether two threads ever wrote at
  \* once; whether the mirror has not been removed since a call's fetch or check.
  seen, overlapped, intact

remoteVars == <<head, reach>>
callVars   == <<kind, want, orphan, answer, got>>
lockVars   == <<registered, lockOf, holder, waiters>>
mirrorVars == <<remoteVars, mirror, pc, callVars, lockVars, cancels, seen, overlapped, intact>>

Revision == 0 .. MaxPushes
Mirror == [ref : Revision \cup {Nil}, objs : SUBSET Revision, sane : BOOLEAN]
Fresh  == [ref |-> Nil, objs |-> {}, sane |-> TRUE]
Broken == [ref |-> Nil, objs |-> {}, sane |-> FALSE]

\* Where a thread that writes may be, and where a call only reads.
Thread  == {"init", "negotiate", "update", "failed", "clean", "size", "rmtree"}
Reading == {"check", "recheck", "verify", "export", "parse", "discover"}

MirrorTypeOK ==
  /\ head \in Revision /\ reach \subseteq Revision
  /\ mirror \in {<<>>} \cup {<<m>> : m \in Mirror}
  /\ kind \in [Call -> {"sync", "ensure", "delete"}]
  /\ pc \in [Call -> Thread \cup Reading \cup {"free", "wait", "over"}]
  /\ want \in [Call -> Revision]
  /\ orphan \in [Call -> BOOLEAN]
  /\ answer \in [Call -> {Nil, "ok", "error"}]
  /\ got \in [Call -> [to : Revision, has : SUBSET Revision, from : Revision \cup {Nil}]]
  /\ registered \in Call \cup {Nil}
  /\ lockOf \in [Call -> Call \cup {Nil}]
  /\ holder \in [Call -> Call \cup {Nil}]
  /\ waiters \in [Call -> Seq(Call)]
  /\ cancels \in Nat
  /\ seen \in [Call -> SUBSET Revision]
  /\ overlapped \in BOOLEAN
  /\ intact \in [Call -> BOOLEAN]

MirrorInit ==
  /\ head = 0 /\ reach = {0}
  /\ mirror = <<>>
  /\ kind = [c \in Call |-> "sync"] /\ pc = [c \in Call |-> "free"]
  /\ want = [c \in Call |-> 0]
  /\ orphan = [c \in Call |-> FALSE]
  /\ answer = [c \in Call |-> Nil]
  /\ got = [c \in Call |-> [to |-> 0, has |-> {}, from |-> Nil]]
  /\ registered = Nil
  /\ lockOf = [c \in Call |-> Nil] /\ holder = [c \in Call |-> Nil]
  /\ waiters = [c \in Call |-> <<>>]
  /\ cancels = 0
  /\ seen = [c \in Call |-> {}]
  /\ overlapped = FALSE
  /\ intact = [c \in Call |-> FALSE]

----------------------------------------------------------------------------
(* The lock.                                                               *)

Move(c, p) == pc' = [pc EXCEPT ![c] = p]
Reply(c, a) == answer' = [answer EXCEPT ![c] = a]

MutLockFor(c) == c \* mutant: repo_lock makes a new lock for every call
LockFor(c) == IF registered = Nil THEN c ELSE registered

\* repo_lock, then `async with`: first come, first served.
Arrive(c) ==
  LET l == LockFor(c) IN
  /\ registered' = l
  /\ lockOf' = [lockOf EXCEPT ![c] = l]
  /\ IF holder[l] = Nil
       THEN holder' = [holder EXCEPT ![l] = c] /\ UNCHANGED waiters
       ELSE waiters' = [waiters EXCEPT ![l] = Append(@, c)] /\ UNCHANGED holder
  /\ Move(c, "wait")

Holds(c) == lockOf[c] # Nil /\ holder[lockOf[c]] = c

ReleaseLock(l) ==
  IF waiters[l] = <<>>
    THEN holder' = [holder EXCEPT ![l] = Nil] /\ UNCHANGED waiters
    ELSE /\ holder' = [holder EXCEPT ![l] = Head(waiters[l])]
         /\ waiters' = [waiters EXCEPT ![l] = Tail(@)]

\* mutant: a cancelled waiter keeps its place in the queue
MutWithout(q, c) == q
Without(q, c) ==
  IF \E i \in 1 .. Len(q) : q[i] = c
    THEN LET i == CHOOSE i \in 1 .. Len(q) : q[i] = c
         IN [j \in 1 .. Len(q) - 1 |-> q[IF j < i THEN j ELSE j + 1]]
    ELSE q

Enter(c) ==
  /\ pc[c] = "wait" /\ Holds(c)
  /\ Move(c, CASE kind[c] = "sync"   -> "init"
               [] kind[c] = "ensure" -> "recheck"
               [] kind[c] = "delete" -> "rmtree")
  /\ UNCHANGED <<remoteVars, mirror, callVars, lockVars, cancels, seen, intact>>

----------------------------------------------------------------------------
(* The calls.                                                              *)

Start(c, k) ==
  /\ pc[c] = "free"
  /\ kind' = [kind EXCEPT ![c] = k]
  /\ seen' = [seen EXCEPT ![c] = {head}]
  /\ UNCHANGED <<remoteVars, mirror, orphan, got, cancels, intact>>

SlotsTaken == {c \in Call : kind[c] = "sync" /\ pc[c] \notin {"free", "over"} /\ ~orphan[c]}

\* SyncRepository: beyond its slots it refuses, and never waits for one.
StartSync(c) ==
  /\ Start(c, "sync")
  /\ \/ /\ Cardinality(SlotsTaken) < MaxSyncs
        /\ Arrive(c) /\ UNCHANGED answer
     \/ /\ Cardinality(SlotsTaken) >= MaxSyncs
        /\ Move(c, "over") /\ Reply(c, "error") /\ UNCHANGED lockVars
  /\ UNCHANGED want

\* ensure_commit, for a run or for the roles of a commit.
StartEnsure(c, k) ==
  /\ Start(c, "ensure")
  /\ want' = [want EXCEPT ![c] = k]
  /\ Move(c, "check")
  /\ UNCHANGED <<answer, lockVars>>

StartDelete(c) == Start(c, "delete") /\ Arrive(c) /\ UNCHANGED <<want, answer>>

Has(k) == mirror # <<>> /\ mirror[1].sane /\ k \in mirror[1].objs

\* _has_commit before the lock, under it, and after the fetch.
Check(c) ==
  /\ pc[c] = "check"
  /\ IF Has(want[c]) THEN Move(c, "export") /\ UNCHANGED lockVars ELSE Arrive(c)
  /\ intact' = [intact EXCEPT ![c] = TRUE]
  /\ UNCHANGED <<remoteVars, mirror, callVars, cancels, seen>>

Recheck(c) ==
  /\ pc[c] = "recheck"
  /\ IF Has(want[c])
       THEN Move(c, "export") /\ ReleaseLock(lockOf[c])
       ELSE Move(c, "init") /\ UNCHANGED <<holder, waiters>>
  /\ intact' = [intact EXCEPT ![c] = TRUE]
  /\ UNCHANGED <<remoteVars, mirror, callVars, registered, lockOf, cancels, seen>>

Verify(c) ==
  /\ pc[c] = "verify"
  /\ IF Has(want[c]) THEN Move(c, "export") /\ UNCHANGED answer
                     ELSE Move(c, "over") /\ Reply(c, "error")
  /\ intact' = [intact EXCEPT ![c] = Has(want[c])]
  /\ UNCHANGED <<remoteVars, mirror, kind, want, orphan, got, lockVars, cancels, seen>>

\* export_tree, and the listings of discover: git reads the mirror without the lock.
Export(c) ==
  /\ pc[c] \in {"export", "discover"}
  /\ Move(c, "over")
  /\ Reply(c, IF Has(want[c]) THEN "ok" ELSE "error")
  /\ UNCHANGED <<remoteVars, mirror, kind, want, orphan, got, lockVars, cancels, seen,
                 intact>>

\* rev-parse of the branch, after the lock was released.
Parse(c) ==
  /\ pc[c] = "parse"
  /\ IF mirror # <<>> /\ mirror[1].ref # Nil
       THEN /\ want' = [want EXCEPT ![c] = mirror[1].ref]
            /\ Move(c, "discover") /\ UNCHANGED answer
       ELSE Move(c, "over") /\ Reply(c, "error") /\ UNCHANGED want
  /\ UNCHANGED <<remoteVars, mirror, kind, orphan, got, lockVars, cancels, seen, intact>>

----------------------------------------------------------------------------
(* The thread of _fetch, _fetch_all or rmtree.                             *)

\* The thread ends: its task goes on, if it still waits for it.
Done(c, a) ==
  IF orphan[c]
    THEN Move(c, "over") /\ UNCHANGED <<answer, lockVars>>
    ELSE /\ ReleaseLock(lockOf[c])
         /\ registered' = IF kind[c] = "delete" THEN Nil ELSE registered
         /\ IF a = "ok" /\ kind[c] # "delete"
              THEN Move(c, IF kind[c] = "sync" THEN "parse" ELSE "verify") /\ UNCHANGED answer
              ELSE Move(c, "over") /\ Reply(c, a)
         /\ UNCHANGED lockOf

\* The URL and the branch's name are checked and the mirror is made if it is not
\* there; what fails here is not cleaned up.
InitMirror(c) ==
  /\ pc[c] = "init"
  /\ \/ Done(c, "error") /\ UNCHANGED mirror
     \/ /\ mirror' = IF mirror = <<>> THEN <<Fresh>> ELSE mirror
        /\ Move(c, "negotiate")
        /\ UNCHANGED <<answer, lockVars>>
  /\ UNCHANGED <<remoteVars, kind, want, orphan, got, cancels, seen, intact>>

\* `git config` and the first half of `git fetch`: what the remote has, and the
\* ref it will replace.  Either may fail.
Negotiate(c) ==
  /\ pc[c] = "negotiate"
  /\ \/ Move(c, "failed") /\ UNCHANGED got
     \/ /\ mirror # <<>> /\ mirror[1].sane
        /\ got' = [got EXCEPT ![c] = [to |-> head, has |-> reach, from |-> mirror[1].ref]]
        /\ Move(c, "update")
  /\ UNCHANGED <<remoteVars, mirror, kind, want, orphan, answer, lockVars, cancels, seen,
                 intact>>

\* The second half: git refuses to replace a ref that has changed meanwhile.
Update(c) ==
  /\ pc[c] = "update"
  /\ \/ Move(c, "failed") /\ UNCHANGED <<mirror, answer, lockVars, intact>>
     \/ /\ mirror # <<>> /\ mirror[1].sane /\ mirror[1].ref = got[c].from
        /\ mirror' = <<[ref |-> got[c].to, objs |-> mirror[1].objs \cup got[c].has,
                        sane |-> TRUE]>>
        /\ IF kind[c] = "sync"
             THEN Move(c, "size") /\ UNCHANGED <<answer, lockVars, intact>>
             ELSE Done(c, "ok") /\ UNCHANGED intact
  /\ UNCHANGED <<remoteVars, kind, want, orphan, got, cancels, seen>>

MutRaised == "ok" \* mutant: a failed fetch falls back on the mirror there is
Raised == "error"

\* mutant: a failed fetch always starts the mirror afresh
MutNothingUsable == TRUE
NothingUsable == mirror = <<>> \/ mirror[1].ref = Nil

\* Only a sync cleans up behind itself.
Failed(c) ==
  /\ pc[c] = "failed"
  /\ IF kind[c] = "sync" /\ NothingUsable
       THEN Move(c, "clean") /\ UNCHANGED <<answer, lockVars>>
       ELSE Done(c, Raised)
  /\ UNCHANGED <<remoteVars, mirror, kind, want, orphan, got, cancels, seen, intact>>

\* rmtree; beside a git process that writes it may leave something behind.
RemoveMirror(c) ==
  \/ mirror' = <<>>
  \/ /\ mirror # <<>>
     /\ \E d \in Call \ {c} : pc[d] \in Thread
     /\ mirror' = <<Broken>>

Clean(c) ==
  /\ pc[c] = "clean"
  /\ RemoveMirror(c)
  /\ Done(c, "error")
  /\ UNCHANGED <<remoteVars, kind, want, orphan, got, cancels, seen, intact>>

\* The directory is too large, or it is not.
Size(c) ==
  /\ pc[c] = "size"
  /\ \/ /\ RemoveMirror(c) /\ Done(c, "error")
        /\ intact' = [d \in Call |-> FALSE]
     \/ /\ Done(c, "ok")
        /\ intact' = [intact EXCEPT ![c] = TRUE]
        /\ UNCHANGED mirror
  /\ UNCHANGED <<remoteVars, kind, want, orphan, got, cancels, seen>>

RmTree(c) ==
  /\ pc[c] = "rmtree"
  /\ RemoveMirror(c)
  /\ Done(c, "ok")
  /\ intact' = [d \in Call |-> FALSE]
  /\ UNCHANGED <<remoteVars, kind, want, orphan, got, cancels, seen>>

----------------------------------------------------------------------------
(* The client and the remote.                                              *)

\* Cancelling leaves the `async with` at once; a thread cannot be cancelled.
Cancel(c) ==
  /\ cancels < MaxCancels
  /\ cancels' = cancels + 1
  /\ pc[c] \notin {"free", "over"} /\ ~orphan[c]
  /\ IF pc[c] \in Thread
       THEN orphan' = [orphan EXCEPT ![c] = TRUE] /\ UNCHANGED pc
       ELSE Move(c, "over") /\ UNCHANGED orphan
  /\ IF pc[c] \in Thread \cup {"recheck"} \/ (pc[c] = "wait" /\ Holds(c))
       THEN ReleaseLock(lockOf[c])
       ELSE /\ waiters' = [l \in Call |-> Without(waiters[l], c)]
            /\ UNCHANGED holder
  /\ UNCHANGED <<remoteVars, mirror, kind, want, answer, got, registered, lockOf, seen,
                 intact>>

\* A push, which may rewrite the branch.
Push(keep) ==
  /\ head < MaxPushes
  /\ head' = head + 1
  /\ reach' = IF keep THEN reach \cup {head'} ELSE {head'}
  /\ seen' = [c \in Call |-> IF pc[c] = "free" THEN {} ELSE seen[c] \cup {head'}]
  /\ UNCHANGED <<mirror, pc, callVars, lockVars, cancels, intact>>

Step(c) ==
  \/ Enter(c) \/ Check(c) \/ Recheck(c) \/ Verify(c) \/ Export(c) \/ Parse(c)
  \/ InitMirror(c) \/ Negotiate(c) \/ Update(c) \/ Failed(c) \/ Clean(c) \/ Size(c)
  \/ RmTree(c)

StartCall(c) ==
  StartSync(c) \/ StartDelete(c) \/ \E k \in 0 .. head : StartEnsure(c, k)

\* Two threads write the mirror.
Overlap == \E c, d \in Call : c # d /\ pc[c] \in Thread /\ pc[d] \in Thread

MirrorNext ==
  /\ \/ \E c \in Call : StartCall(c) \/ Step(c) \/ Cancel(c)
     \/ \E keep \in BOOLEAN : Push(keep)
  /\ overlapped' = (overlapped \/ Overlap')

MirrorSpec == MirrorInit /\ [][MirrorNext]_mirrorVars

----------------------------------------------------------------------------
(* Properties.                                                             *)

\* Two threads write the mirror only when one of them was cancelled, or after a
\* delete forgot the lock (mirror.py:55).
OneWriter ==
  \A c, d \in Call :
    c # d /\ pc[c] \in Thread /\ pc[d] \in Thread =>
      \/ orphan[c] \/ orphan[d]
      \/ \E x \in Call : kind[x] = "delete" /\ answer[x] = "ok"

\* As long as no two threads wrote at once, a commit that ensure_commit has found is
\* there for the export, and a branch that was fetched is there for rev-parse, unless
\* the repository was deleted or outgrew its limit in between.  A failed fetch of
\* another call is no reason.
FetchedIsThere ==
  \A c \in Call :
    ~overlapped /\ intact[c] =>
      /\ pc[c] = "export" => Has(want[c])
      /\ pc[c] = "parse" => mirror # <<>> /\ mirror[1].ref # Nil

\* A sync answers with a commit that was the head of the branch during the call,
\* though it asks for it after another call may have fetched (mirror.py:273-280).
SyncAnswersHead ==
  \A c \in Call :
    ~overlapped /\ kind[c] = "sync" /\ answer[c] = "ok" => want[c] \in seen[c]

\* What a call is told of the mirror holds when it uses it.
AnswersHold == FetchedIsThere /\ SyncAnswersHead

\* Where a call has asked for the lock and not given it back.
Inside == Thread \cup {"wait", "recheck"}
Waits(c, l) == \E i \in 1 .. Len(waiters[l]) : waiters[l][i] = c

\* A lock is never kept by a call that is gone, nor handed to one; whoever is inside
\* holds it and whoever waits is in its queue, once: nobody waits for ever behind a
\* call that was cancelled, wherever the cancellation met it.
LockInv ==
  /\ \A l \in Call : holder[l] # Nil =>
       /\ lockOf[holder[l]] = l /\ ~orphan[holder[l]] /\ pc[holder[l]] \in Inside
  /\ \A l \in Call : \A i \in 1 .. Len(waiters[l]) :
       /\ pc[waiters[l][i]] = "wait" /\ lockOf[waiters[l][i]] = l
       /\ holder[l] \notin {Nil, waiters[l][i]}
       /\ \A j \in 1 .. Len(waiters[l]) : waiters[l][i] = waiters[l][j] => i = j
  /\ \A c \in Call :
       /\ pc[c] \in Inside => lockOf[c] # Nil
       /\ pc[c] = "wait" => holder[lockOf[c]] = c \/ Waits(c, lockOf[c])
       /\ pc[c] \in Inside \ {"wait"} /\ ~orphan[c] => holder[lockOf[c]] = c
       /\ orphan[c] => pc[c] \in Thread \cup {"over"}

MirrorInv == MirrorTypeOK /\ LockInv
=============================================================================
