-------------------------------- MODULE RunPage --------------------------------
(***************************************************************************)
(* The page of one job: which of its runs is selected, what the page has   *)
(* read of them, and the live watch it holds, while runs start and end     *)
(* here and elsewhere and their changes arrive late or not at all.         *)
(***************************************************************************)
EXTENDS Integers, FiniteSets, Sequences

CONSTANTS
  MaxJobRuns,  \* bound: runs of the job, numbered as they start
  PageSize     \* rows of the history read at once

ASSUME RunPageAssumption == MaxJobRuns \in Nat /\ PageSize \in Nat \ {0}

RunNo == 1 .. MaxJobRuns
NoRunNo == 0
Gone == MaxJobRuns + 1 \* a run that a link names and nobody finds
TheList == -1
Requested == -2

VARIABLES
  stage,     \* of each run: none, opened (its row says running), live, ended
  listed,    \* the list of runs as read
  single,    \* runs read on their own
  stale,     \* what is to be read again: runs, and the list
  missing,   \* runs whose last read on their own failed
  selected,
  watch,
  changes,   \* on their way to the page
  connected,
  starting,  \* the user's request to run the job
  behind     \* history: why the page need not be at the newest run

pageVars == <<stage, listed, single, stale, missing, selected, watch, changes, connected,
              starting, behind>>

NoWatch == [run |-> NoRunNo, phase |-> "idle", joined |-> FALSE, early |-> FALSE]
WatchOf(r) == [run |-> r, phase |-> "running", joined |-> FALSE, early |-> FALSE]

RunPageTypeOK ==
  /\ stage \in [RunNo -> {"none", "opened", "live", "ended"}]
  /\ listed.pages \in Nat /\ listed.more \in BOOLEAN
  /\ \A r \in DOMAIN listed.rows : r \in RunNo /\ listed.rows[r] \in {"running", "ended"}
  /\ single \in [RunNo -> {"unread", "running", "ended"}]
  /\ stale \subseteq RunNo \cup {TheList} /\ missing \subseteq RunNo \cup {Gone}
  /\ selected \in RunNo \cup {NoRunNo, Gone}
  /\ watch \in [run : RunNo \cup {NoRunNo}, phase : {"idle", "running", "done", "error", "cancelled"},
                joined : BOOLEAN, early : BOOLEAN] \* early: history, before the run was live
  /\ changes \in Seq(RunNo \X {"running", "ended"}) /\ connected \in BOOLEAN
  /\ starting \in RunNo \cup {NoRunNo, Requested} /\ behind \in BOOLEAN

Begun(st) == {r \in RunNo : st[r] # "none"}
Newest(S) == IF S = {} THEN NoRunNo ELSE CHOOSE r \in S : \A s \in S : s <= r
Known == {r \in RunNo : single[r] # "unread"}
Status(r) == IF stage[r] = "ended" THEN "ended" ELSE "running"
Rows(n) == {r \in Begun(stage) : r > Newest(Begun(stage)) - n} \* the n newest
Row(r, h, s) ==
  IF r \in DOMAIN h.rows THEN h.rows[r] ELSE IF r \in RunNo THEN s[r] ELSE "unread"

\* One run at a time; the page may be opened by a link to any of them, or to none.
RunPageInit ==
  /\ \E n \in 0 .. MaxJobRuns - 1, last \in {"live", "ended"} :
       stage = [r \in RunNo |-> IF r < n THEN "ended" ELSE IF r = n THEN last ELSE "none"]
  /\ listed = [rows |-> <<>>, pages |-> 0, more |-> FALSE]
  /\ single = [r \in RunNo |-> "unread"] /\ stale = {TheList} /\ missing = {}
  /\ selected \in Begun(stage) \cup {NoRunNo, Gone}
  /\ watch = NoWatch /\ changes = <<>> /\ connected = TRUE /\ starting = NoRunNo
  /\ behind = (selected \in Begun(stage) /\ selected # Newest(Begun(stage)))

----------------------------------------------------------------------------
(* What the page makes of what it knows: its effects, after every step.    *)

\* A selection that could not be read is dropped, unless it is being watched.
MutDropped(sel, h, miss, w) == sel \in miss /\ sel \notin DOMAIN h.rows \* mutant: watched or not
Dropped(sel, h, miss, w) == sel \in miss /\ sel \notin DOMAIN h.rows /\ w.run # sel

MutAttaches(r, h, s, w) == Row(r, h, s) = "running" /\ w.run = NoRunNo \* mutant: once
Attaches(r, h, s, w) == Row(r, h, s) = "running" /\ w.run # r

\* The selection sel and the watch w, over the list h and the runs s and miss; why says
\* that the page may now be at a run that is not the newest.
Shows(sel, w, h, s, miss, why) ==
  LET drops == Dropped(sel, h, miss, w)
      to == IF sel = NoRunNo \/ drops THEN Newest(DOMAIN h.rows) ELSE sel
  IN /\ selected' = to
     /\ watch' = (IF Attaches(to, h, s, w) THEN WatchOf(to) ELSE w)
     /\ listed' = h /\ single' = s
     /\ missing' = {r \in miss : (r = to /\ r \notin DOMAIN h.rows) \/ (r # Gone /\ s[r] # "unread")}
     /\ behind' = (to # Newest(Begun(stage)) /\ (behind \/ why \/ drops))

----------------------------------------------------------------------------
(* The runs, and what the page hears of them.                              *)

Says(r, s) == IF connected THEN Append(changes, <<r, s>>) ELSE changes

\* A run started by the schedule or in another tab, or the one asked for here.
Starts(r) ==
  /\ r = Newest(Begun(stage)) + 1 /\ \A q \in Begun(stage) : stage[q] = "ended"
  /\ stage' = [stage EXCEPT ![r] = "opened"]
  /\ changes' = Says(r, "running")
  /\ behind' = (behind \/ (~connected /\ selected # r))
  /\ UNCHANGED <<listed, single, stale, missing, selected, watch, connected>>

StartElsewhere == \E r \in RunNo : Starts(r) /\ UNCHANGED starting

GoesLive(r) ==
  /\ stage[r] = "opened" /\ stage' = [stage EXCEPT ![r] = "live"]
  /\ UNCHANGED <<listed, single, stale, missing, selected, watch, changes, connected, starting,
                 behind>>

Ends(r) ==
  /\ stage[r] = "live" /\ stage' = [stage EXCEPT ![r] = "ended"] /\ changes' = Says(r, "ended")
  /\ UNCHANGED <<listed, single, stale, missing, selected, watch, connected, starting,
                 behind>>

MutFollows(r) == selected \in {NoRunNo, r} \* mutant: never from another run
Follows(r) == selected \in {NoRunNo, r, Newest(DOMAIN listed.rows)}

\* A change marks stale what it touches, and a run that starts may take the selection.
HearChange ==
  /\ changes # <<>> /\ changes' = Tail(changes)
  /\ LET r == Head(changes)[1]
         follows == Head(changes)[2] = "running" /\ Follows(r)
     IN /\ stale' = stale \cup {TheList} \cup ({r} \cap Known)
        /\ Shows(IF follows THEN r ELSE selected, watch, listed, single, missing,
                 Head(changes)[2] = "running" /\ Newest(DOMAIN listed.rows) # r - 1)
  /\ UNCHANGED <<stage, connected, starting>>

LoseChanges ==
  /\ connected /\ connected' = FALSE /\ changes' = <<>>
  /\ behind' = (behind \/ \E i \in DOMAIN changes : changes[i][2] = "running" /\ selected # changes[i][1])
  /\ UNCHANGED <<stage, listed, single, stale, missing, selected, watch, starting>>

\* Subscribed again, the page reads every run again.
HearAgain ==
  /\ ~connected /\ connected' = TRUE /\ stale' = Known \cup {TheList}
  /\ UNCHANGED <<stage, listed, single, missing, selected, watch, changes, starting, behind>>

----------------------------------------------------------------------------
(* Reading.                                                                *)

ReadHistory ==
  /\ TheList \in stale /\ stale' = stale \ {TheList}
  /\ LET pages == IF listed.pages = 0 THEN 1 ELSE listed.pages
         rows == Rows(pages * PageSize)
     IN Shows(selected, watch,
              [rows |-> [r \in rows |-> Status(r)], pages |-> pages,
               more |-> Cardinality(rows) = pages * PageSize], single, missing, FALSE)
  /\ UNCHANGED <<stage, changes, connected, starting>>

\* The next batch is read by its offset: a row that has moved into it is kept as it was.
ReadFurther ==
  /\ listed.more
  /\ LET from == listed.pages * PageSize
         batch == Rows(from + PageSize) \ Rows(from)
     IN Shows(selected, watch,
              [rows |-> [r \in DOMAIN listed.rows \cup batch |->
                           IF r \in DOMAIN listed.rows THEN listed.rows[r] ELSE Status(r)],
               pages |-> listed.pages + 1, more |-> Cardinality(batch) = PageSize], single, missing, FALSE)
  /\ UNCHANGED <<stage, stale, changes, connected, starting>>

\* A selection that is not listed is read on its own, once there is a list.
ReadsAlone == listed.pages > 0 /\ selected # NoRunNo /\ selected \notin DOMAIN listed.rows

ReadSelected ==
  /\ ReadsAlone /\ selected \notin Known \ stale
  /\ \/ /\ selected # Gone /\ stale' = stale \ {selected}
        /\ Shows(selected, watch, listed, [single EXCEPT ![selected] = Status(selected)],
                 missing \ {selected}, FALSE)
     \/ /\ selected \notin missing /\ stale' = stale
        /\ Shows(selected, watch, listed, single, missing \cup {selected}, FALSE)
  /\ UNCHANGED <<stage, changes, connected, starting>>

----------------------------------------------------------------------------
(* The watch.                                                              *)

WatchStep(w) ==
  /\ watch' = w
  /\ UNCHANGED <<stage, listed, single, stale, missing, selected, changes, connected, starting,
                 behind>>

\* The backend knows only live runs: for others there is nothing to watch.
WatchAnswered ==
  /\ watch.phase = "running" /\ ~watch.joined
  /\ WatchStep(IF stage[watch.run] = "live" THEN [watch EXCEPT !.joined = TRUE]
               ELSE [watch EXCEPT !.phase = "idle", !.early = stage[watch.run] = "opened"])

WatchEnds ==
  /\ watch.phase = "running" /\ watch.joined /\ stage[watch.run] = "ended"
  /\ WatchStep([watch EXCEPT !.phase = "done"])

\* It comes back by itself, or gives up.
WatchLost ==
  /\ watch.phase = "running"
  /\ \/ watch.joined /\ WatchStep([watch EXCEPT !.joined = FALSE])
     \/ WatchStep([watch EXCEPT !.phase = "error"])

StopWatching ==
  /\ watch.phase = "running" /\ WatchStep([watch EXCEPT !.phase = "cancelled"])

----------------------------------------------------------------------------
(* The user.                                                               *)

RunNow ==
  /\ starting = NoRunNo /\ watch.phase # "running" /\ starting' = Requested
  /\ UNCHANGED <<stage, listed, single, stale, missing, selected, watch, changes, connected,
                 behind>>

StartHere == starting = Requested /\ \E r \in RunNo : Starts(r) /\ starting' = r

RefuseRun ==
  /\ starting = Requested /\ starting' = NoRunNo
  /\ UNCHANGED <<stage, listed, single, stale, missing, selected, watch, changes, connected,
                 behind>>

\* The answer is followed wherever the page has gone meanwhile.
RunStarted ==
  /\ starting \in RunNo /\ starting' = NoRunNo
  /\ Shows(starting, WatchOf(starting), listed, single, missing, TRUE)
  /\ UNCHANGED <<stage, stale, changes, connected>>

Reset(r) == IF watch.run # r THEN NoWatch ELSE watch

SelectRun(r) ==
  /\ r \in DOMAIN listed.rows
  /\ Shows(r, Reset(r), listed, single, missing, TRUE)
  /\ UNCHANGED <<stage, stale, changes, connected, starting>>

RunPageNext ==
  \/ StartElsewhere \/ HearChange \/ LoseChanges \/ HearAgain
  \/ ReadHistory \/ ReadFurther \/ ReadSelected
  \/ WatchAnswered \/ WatchEnds \/ WatchLost \/ StopWatching
  \/ RunNow \/ StartHere \/ RefuseRun \/ RunStarted
  \/ \E r \in RunNo : GoesLive(r) \/ Ends(r) \/ SelectRun(r)

RunPageSpec == RunPageInit /\ [][RunPageNext]_pageVars

----------------------------------------------------------------------------
(* Properties.                                                             *)

\* Everything has been heard, read and answered.
AtRest ==
  /\ changes = <<>> /\ connected /\ starting = NoRunNo
  /\ listed.pages > 0 /\ TheList \notin stale
  /\ ReadsAlone => selected \in Known \ stale
  /\ watch.phase = "running" => watch.joined /\ stage[watch.run] = "live"

\* The page then shows the selected run as it is: followed while it is live, unless its
\* user or its connection gave up or the watch came before the run was live
\* (executor.ts:235); and once it has ended, as it is stored, or as it was watched.
RunIsShown ==
  AtRest /\ selected # NoRunNo =>
    /\ Row(selected, listed, single) = Status(selected)
    /\ stage[selected] = "live" => watch.run = selected /\ (watch.phase = "idle" => watch.early)

\* A page at the newest run is at the newest run again after others start, unless it did
\* not hear of one, or heard of it before it had read the one before.
NewestIsFollowed ==
  AtRest /\ Begun(stage) # {} /\ ~behind => selected = Newest(Begun(stage))

\* An older run under review stays on the page until its user turns to another or starts
\* one, or it is neither listed nor watched and could not be read, even if it had been
\* (job-detail-page.tsx:131-135).
ReviewStays ==
  [][selected' # selected /\ selected \in RunNo \ {Newest(DOMAIN listed.rows)} =>
       \/ RunStarted \/ \E r \in RunNo : SelectRun(r)
       \/ selected \notin DOMAIN listed'.rows /\ watch.run # selected /\ (selected \in missing \/ ReadSelected)]_pageVars
=============================================================================
