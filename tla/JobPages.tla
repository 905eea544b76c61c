------------------------------- MODULE JobPages -------------------------------
(***************************************************************************)
(* The pages that start and show a run: where it goes, the variables it    *)
(* is sent with, and the page of its job.                                  *)
(***************************************************************************)
EXTENDS RunPage, RunTargets, RunVariables

\* A run goes to what its page showed as picked when it was confirmed, and reads the variables
\* that the form shows; the page of its job shows it as it is, live while it runs, and takes
\* no older run under review away (run-selection.ts:8-33, run-variables.ts:107-139,
\* job-detail-page.tsx:122-163).
PagesAreTrue ==
  /\ [](ShownAreResolved /\ NothingUnnamed /\ UrlIsSelection
         /\ DeclaredIsRead /\ OwnIsSent /\ FitsConnection /\ RunIsShown /\ NewestIsFollowed)
  /\ SentAsAsked /\ PicksStay /\ ReviewStays
=============================================================================
