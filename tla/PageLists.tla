------------------------------ MODULE PageLists ------------------------------
(***************************************************************************)
(* The lists that a page shows, as React Query keeps them for it while the *)
(* page is open, and what useResourceMutation does to one of them.         *)
(* Operators on one list; the pages hold the variables.                    *)
(***************************************************************************)

\* Rows are <<>> before the first answer, and <<what was answered>> then.  Two facts are
\* history: the database has changed and nobody tells the page (missed), and it has since
\* the answer under way was read (late).
Unread == [rows |-> <<>>, asked |-> FALSE, answer |-> <<>>, failed |-> FALSE,
           missed |-> FALSE, late |-> FALSE]

IsListOver(l, Rows) ==
  /\ l \in [rows : {l.rows}, asked : BOOLEAN, answer : {l.answer}, failed : BOOLEAN,
            missed : BOOLEAN, late : BOOLEAN]
  /\ l.rows = <<>> \/ (l.rows = <<l.rows[1]>> /\ l.rows[1] \in Rows)
  /\ l.answer = <<>> \/ (l.answer = <<l.answer[1]>> /\ l.answer[1] \in Rows)

Cancelled(l) == [l EXCEPT !.asked = FALSE, !.answer = <<>>, !.late = FALSE]
Asked(l) == [Cancelled(l) EXCEPT !.asked = TRUE]

\* invalidateQueries and refetch: begins anew, but joins the first fetch.
Refetched(l) ==
  IF l.asked /\ l.rows = <<>> THEN [l EXCEPT !.late = (l.answer # <<>>)] ELSE Asked(l)

MayRead(l) == l.asked /\ l.answer = <<>>
HasRead(l, rows) == [l EXCEPT !.answer = <<rows>>]
Arrived(l) == [Unread EXCEPT !.rows = l.answer, !.missed = l.late]
FetchFailed(l) == [Cancelled(l) EXCEPT !.failed = TRUE]

\* setQueryData: the rows count as an answer.
SetRows(l, rows) == [l EXCEPT !.rows = <<rows>>, !.failed = FALSE]

Overtaken(l) == [l EXCEPT !.missed = TRUE, !.late = (l.answer # <<>>)]

\* onMutate: cancel, then patch what there is; and onError: put back what was found.
PatchedList(l, patched) ==
  IF l.rows = <<>> THEN Cancelled(l) ELSE SetRows(Cancelled(l), patched)
RolledBack(l, found) == IF found = <<>> THEN l ELSE SetRows(l, found[1])

----------------------------------------------------------------------------
(* What React Query says of a list, and the cards of QueryState.           *)

IsError(l) == l.failed /\ (l.rows # <<>> \/ ~l.asked)
IsPending(l) == l.rows = <<>> /\ ~IsError(l)

\* In use nobody waits and the page is as the database.
UpToDate(l) == ~l.asked /\ ~l.failed /\ ~l.missed /\ l.rows # <<>>

CardOf(error, pending, empty, filtered) ==
  CASE error -> "error"
    [] ~error /\ pending -> "loading"
    [] ~error /\ ~pending /\ empty /\ filtered -> "no results"
    [] ~error /\ ~pending /\ empty /\ ~filtered -> "empty"
    [] OTHER -> "content"
=============================================================================
