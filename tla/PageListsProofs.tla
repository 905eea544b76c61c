--------------------------- MODULE PageListsProofs ---------------------------
(***************************************************************************)
(* What each operator on a list of a page makes of it, whatever its rows   *)
(* are: for the proofs about the pages, each of which holds several lists. *)
(* And the principle of the least number, which stands in for inductions.  *)
(***************************************************************************)
EXTENDS PageLists, FiniteSetTheorems, TLAPS

\* What each operator makes of a list.
LEMMA AskedLists ==
  ASSUME NEW Rows, NEW l, IsListOver(l, Rows)
  PROVE  /\ IsListOver(Cancelled(l), Rows) /\ IsListOver(Asked(l), Rows)
         /\ IsListOver(Refetched(l), Rows) /\ IsListOver(FetchFailed(l), Rows)
         /\ IsListOver(Overtaken(l), Rows)
         /\ Cancelled(l).answer = <<>> /\ Asked(l).answer = <<>> /\ FetchFailed(l).answer = <<>>
         /\ ~Cancelled(l).asked /\ Asked(l).asked
         /\ FetchFailed(l).failed /\ ~FetchFailed(l).asked
         /\ Refetched(l).asked /\ (Refetched(l).answer = <<>> \/ Refetched(l).late)
         /\ Overtaken(l).missed /\ (Overtaken(l).answer = <<>> \/ Overtaken(l).late)
         /\ Overtaken(l).asked = l.asked /\ Overtaken(l).answer = l.answer
BY DEF IsListOver, Cancelled, Asked, Refetched, FetchFailed, Overtaken

\* What an answer makes of it, on its way and when it has come.
LEMMA ReadLists ==
  ASSUME NEW Rows, NEW l, IsListOver(l, Rows), NEW r \in Rows
  PROVE  /\ IsListOver(HasRead(l, r), Rows) /\ HasRead(l, r).answer = <<r>>
         /\ HasRead(l, r).rows = l.rows /\ (UpToDate(HasRead(l, r)) <=> UpToDate(l))
         /\ l.answer # <<>> =>
              /\ IsListOver(Arrived(l), Rows) /\ Arrived(l).rows = l.answer
              /\ Arrived(l).answer = <<>> /\ Arrived(l).missed = l.late
BY DEF IsListOver, HasRead, Arrived, UpToDate, Unread

\* What a mutation of the page makes of it, and taking it back.
LEMMA SetLists ==
  ASSUME NEW Rows, NEW l, IsListOver(l, Rows), NEW r, NEW found,
         found = <<>> \/ found[1] \in Rows, l.rows = <<>> \/ r \in Rows
  PROVE  IsListOver(PatchedList(l, r), Rows) /\ IsListOver(RolledBack(l, found), Rows)
BY DEF IsListOver, SetRows, RolledBack, PatchedList, Cancelled

\* A list that says nothing, or nothing that it did not say before.
Mute(l) == ~UpToDate(l) /\ (l.answer = <<>> \/ l.late)
Echo(l, m) ==
  /\ UpToDate(m) => UpToDate(l) /\ m.rows = l.rows
  /\ m.answer # <<>> /\ ~m.late => m.answer = l.answer /\ ~l.late

\* A list that is asked for, failed or overtaken says nothing; a fetch given up, no news.
LEMMA MuteLists ==
  ASSUME NEW Rows, NEW l, IsListOver(l, Rows)
  PROVE  /\ Mute(Asked(l)) /\ Mute(FetchFailed(l)) /\ Mute(Refetched(l)) /\ Mute(Overtaken(l))
         /\ Echo(l, l) /\ (~l.asked => Echo(l, Cancelled(l))) /\ (l.asked => ~UpToDate(l))
<1>1. /\ Asked(l).answer = <<>> /\ FetchFailed(l).answer = <<>> /\ Cancelled(l).answer = <<>>
      /\ Asked(l).asked /\ FetchFailed(l).failed
      /\ Refetched(l).asked /\ (Refetched(l).answer = <<>> \/ Refetched(l).late)
      /\ Overtaken(l).missed /\ (Overtaken(l).answer = <<>> \/ Overtaken(l).late)
  BY DEF Asked, FetchFailed, Cancelled, Refetched, Overtaken, IsListOver
<1>2. ~l.asked => Echo(l, Cancelled(l))
  BY <1>1 DEF Echo, UpToDate, IsListOver, Cancelled
<1>3. QED
  BY <1>1, <1>2 DEF Mute, Echo, UpToDate

\* Natural numbers have a least one.
LEMMA LeastOf ==
  ASSUME NEW K \in SUBSET Nat, K # {}
  PROVE  \E k \in K : \A j \in K : k <= j
<1> DEFINE T == {1 .. k : k \in K}
<1>1. IsWellFoundedOn(StrictSubsetOrdering(Nat), FiniteSubsetsOf(Nat))
  BY FS_StrictSubsetOrderingWellFounded
<1>2. ASSUME NEW k \in K PROVE 1 .. k \in FiniteSubsetsOf(Nat)
  <2>1. IsFiniteSet(1 .. k) /\ 1 .. k \in SUBSET Nat
    BY FS_Interval
  <2>2. QED
    BY <2>1 DEF FiniteSubsetsOf
<1>3. T \subseteq FiniteSubsetsOf(Nat) /\ T # {}
  BY <1>2
<1>4. PICK x \in T : \A y \in T : ~(<<y, x>> \in StrictSubsetOrdering(Nat))
  BY <1>1, <1>3, WFMin
<1>5. PICK k \in K : x = 1 .. k
  BY <1>4
<1>6. ASSUME NEW j \in K, j < k PROVE FALSE
  <2>1. 1 .. j \in T /\ 1 .. j \subseteq 1 .. k /\ 1 .. j # 1 .. k
    BY <1>6
  <2>2. 1 .. j \in SUBSET Nat /\ 1 .. k \in SUBSET Nat
    BY <1>2
  <2>3. <<1 .. j, 1 .. k>> \in StrictSubsetOrdering(Nat)
    BY <2>1, <2>2 DEF StrictSubsetOrdering
  <2>4. QED
    BY <1>4, <1>5, <2>1, <2>3
<1>7. QED
  BY <1>6
=============================================================================
