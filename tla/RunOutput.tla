-------------------------------- MODULE RunOutput --------------------------------
(***************************************************************************)
(* What is shown of a run's output: the cards of tasks that the console    *)
(* makes of the events of Ansible, in the order they come, the card of     *)
(* each host of a run without a playbook, and the counts of hosts that are *)
(* stored with the run.  Ansible goes its ways: by task, by batches of     *)
(* hosts, every host on its own, or with one module and no playbook.  What *)
(* a task prints, and whether it changed something, are left out.          *)
(***************************************************************************)
EXTENDS Integers, Sequences, FiniteSets

CONSTANTS
  HostCount,  \* hosts, numbered as batches take them
  TaskCount,
  Loops       \* the tasks that loop over items

\* A run has something to do.
ASSUME RunOutputAssumption == HostCount \in Nat /\ TaskCount \in Nat \ {0}

Target == 1 .. HostCount
Way == {"linear", "serial", "free", "module"}

\* What a task comes to on a host: a failure may be ignored, or rescued by its block.
Outcome == {"ok", "skipped", "failed", "ignored", "rescued", "unreachable"}
CardStatus == {"running", "ok", "skipped", "failed", "unreachable"}

VARIABLES
  way,
  reached,    \* of each host: its last task, 0 before the first
  busy,       \* hosts in the middle of it
  out,        \* hosts that go no further
  told,       \* what each task came to on each host, or "none"
  sent,       \* tasks whose start was sent
  cards,      \* the console: a card of a task and its rows
  hostCards,  \* the other console: of each host that it shows, the status
  recap,      \* whether it came, and the buckets of each host that it names
  stored      \* the counts and the status stored with the run

outputVars == <<way, reached, busy, out, told, sent, cards, hostCards, recap, stored>>

NoRecap == [came |-> FALSE, of |-> <<>>]
Going == [status |-> "running", ok |-> -1, failed |-> -1] \* -1: null

RunOutputTypeOK ==
  /\ way \in Way /\ reached \in [Target -> 0 .. TaskCount]
  /\ busy \subseteq Target /\ out \subseteq Target \ busy
  /\ told \in [Target -> [1 .. TaskCount -> Outcome \cup {"none"}]]
  /\ sent \subseteq 1 .. TaskCount
  /\ \A i \in DOMAIN cards : \A k \in DOMAIN cards[i].rows :
       cards[i].rows[k] \in [host : Target, status : CardStatus]
  /\ \A h \in DOMAIN hostCards : h \in Target /\ hostCards[h] \in CardStatus
  /\ recap.came \in BOOLEAN /\ DOMAIN recap.of \subseteq Target
  /\ stored \in [status : {"running", "ok", "failed", "cancelled"}, ok : -1 .. HostCount, failed : -1 .. HostCount]

\* A console begins again with the events of every run that it shows.
Begins(w) ==
  /\ way' = w
  /\ reached' = [h \in Target |-> 0] /\ busy' = {} /\ out' = {} /\ sent' = {}
  /\ told' = [h \in Target |-> [t \in 1 .. TaskCount |-> "none"]]
  /\ cards' = <<>> /\ hostCards' = <<>> /\ recap' = NoRecap /\ stored' = Going

RunOutputInit ==
  /\ way \in Way
  /\ reached = [h \in Target |-> 0] /\ busy = {} /\ out = {} /\ sent = {}
  /\ told = [h \in Target |-> [t \in 1 .. TaskCount |-> "none"]]
  /\ cards = <<>> /\ hostCards = <<>> /\ recap = NoRecap /\ stored = Going

----------------------------------------------------------------------------
(* The consoles.                                                           *)

\* The last card takes what comes, whatever task it is of: the first row of the host, or
\* a new one.  Results of a loop's items are rows of their own.
FirstRow(rows, h) ==
  LET same == {k \in DOMAIN rows : rows[k].host = h}
  IN IF same = {} THEN 0 ELSE CHOOSE k \in same : \A j \in same : k <= j

MutUpsert(rows, h, s) == Append(rows, [host |-> h, status |-> s]) \* mutant: never over a row
Upsert(rows, h, s) ==
  LET k == FirstRow(rows, h)
  IN IF k = 0 THEN Append(rows, [host |-> h, status |-> s]) ELSE [rows EXCEPT ![k].status = s]

OnLast(cs, rows) == [cs EXCEPT ![Len(cs)].rows = rows]
LastRows(cs) == cs[Len(cs)].rows

\* The other console keeps one card for each host.
HostCard(h, s) ==
  [g \in DOMAIN hostCards \cup {h} |-> IF g = h THEN s ELSE hostCards[g]]
StartsHostCard(h) == IF h \in DOMAIN hostCards THEN hostCards ELSE HostCard(h, "running")

RowOf(o) == IF o \in {"ignored", "rescued"} THEN "failed" ELSE o

----------------------------------------------------------------------------
(* Ansible.                                                                *)

LastTask == IF way = "module" THEN 1 ELSE TaskCount

\* Every host goes through a task before any begins the next; or the hosts of one batch do,
\* and a batch that is out is the last one; or nobody waits.
InTurn(h) ==
  CASE way = "linear" -> \A g \in Target \ out : reached[g] > reached[h] \/ (reached[g] = reached[h] /\ g \notin busy)
    [] way = "serial" -> \A g \in Target : g < h => g \notin busy \cup out /\ reached[g] = LastTask
    [] OTHER -> TRUE

MayBegin(h) == h \notin busy \cup out /\ reached[h] < LastTask /\ InTurn(h)

\* The start of a task is sent once, however often it is begun (ansible-runner).
BeginTask(h) ==
  LET t == reached[h] + 1
      first == t \notin sent /\ way # "module"
      cs == IF first THEN Append(cards, [task |-> t, rows |-> <<>>]) ELSE cards
  IN /\ stored = Going /\ MayBegin(h)
     /\ reached' = [reached EXCEPT ![h] = t] /\ busy' = busy \cup {h}
     /\ sent' = IF first THEN sent \cup {t} ELSE sent
     /\ IF way = "module" THEN hostCards' = StartsHostCard(h) /\ UNCHANGED cards
        ELSE cards' = OnLast(cs, Upsert(LastRows(cs), h, "running")) /\ UNCHANGED hostCards
     /\ UNCHANGED <<way, out, told, recap, stored>>

\* A loop's item; bound: one of each task and host.
EndItem(h, s) ==
  /\ stored = Going /\ h \in busy /\ way # "module" /\ reached[h] \in Loops
  /\ Len(SelectSeq(LastRows(cards), LAMBDA r : r.host = h)) < 2
  /\ cards' = OnLast(cards, Append(LastRows(cards), [host |-> h, status |-> s]))
  /\ UNCHANGED <<way, reached, busy, out, told, sent, hostCards, recap, stored>>

EndTask(h, o) ==
  /\ stored = Going /\ h \in busy /\ busy' = busy \ {h}
  /\ told' = [told EXCEPT ![h][reached[h]] = o]
  /\ out' = IF o \in {"failed", "unreachable"} THEN out \cup {h} ELSE out
  /\ IF way = "module" THEN hostCards' = HostCard(h, RowOf(o)) /\ UNCHANGED cards
     ELSE cards' = OnLast(cards, Upsert(LastRows(cards), h, RowOf(o))) /\ UNCHANGED hostCards
  /\ UNCHANGED <<way, reached, sent, recap, stored>>

\* The counters of the recap; that of rescued tasks does not come along.
Buckets(o) ==
  CASE o \in {"ok", "ignored"} -> {"ok"}
    [] o = "skipped" -> {"skipped"}
    [] o = "failed" -> {"failures"}
    [] o = "unreachable" -> {"dark"}
    [] OTHER -> {}
Stats ==
  LET of(h) == UNION {Buckets(told[h][t]) : t \in 1 .. TaskCount}
  IN [h \in {g \in Target : of(g) # {}} |-> of(h)]

\* countHostOutcomes, over the recap.
MutFailedIn(b) == "failures" \in b \* mutant: an unreachable host counts as ok
FailedIn(b) == b \cap {"failures", "dark"} # {}
Counted(st) ==
  LET bad == {h \in DOMAIN st : FailedIn(st[h])}
  IN [ok |-> Cardinality(DOMAIN st \ bad), failed |-> Cardinality(bad)]

\* Nobody can go on: the recap comes.
SendRecap ==
  /\ ~recap.came /\ stored = Going /\ busy = {} /\ \A h \in Target : ~MayBegin(h)
  /\ recap' = [came |-> TRUE, of |-> Stats]
  /\ UNCHANGED <<way, reached, busy, out, told, sent, cards, hostCards, stored>>

\* What the run came to, with the counts if there was a recap, unless the row could only be
\* written without them.
StoreRun(status, whole) ==
  /\ stored = Going
  /\ stored' = IF whole /\ recap.came
               THEN [status |-> status, ok |-> Counted(recap.of).ok, failed |-> Counted(recap.of).failed]
               ELSE [Going EXCEPT !.status = status]
  /\ UNCHANGED <<way, reached, busy, out, told, sent, cards, hostCards, recap>>

\* Ansible returned; or the stream is cut, the run is stopped, or the row is not written at
\* once, whether or not the recap came.
EndOutput == recap.came /\ StoreRun(IF out = {} THEN "ok" ELSE "failed", TRUE)
CutOutput ==
  \/ \E s \in {"failed", "cancelled"} : StoreRun(s, TRUE)
  \/ recap.came /\ StoreRun("failed", FALSE)

\* What lists and pages say of it: runOutcome.
MutShownOutcome == IF stored.failed > 0 THEN "partial" ELSE stored.status \* mutant: nobody needs to be fine
ShownOutcome ==
  IF stored.status = "failed" /\ stored.ok > 0 /\ stored.failed > 0 THEN "partial" ELSE stored.status

ShowAnother == stored # Going /\ \E w \in Way : Begins(w)

RunOutputNext ==
  \/ SendRecap \/ EndOutput \/ CutOutput \/ ShowAnother
  \/ \E h \in Target :
       \/ BeginTask(h)
       \/ \E s \in {"ok", "failed"} : EndItem(h, s)
       \/ \E o \in Outcome : EndTask(h, o)

RunOutputSpec == RunOutputInit /\ [][RunOutputNext]_outputVars

----------------------------------------------------------------------------
(* Properties.                                                             *)

StatusOf(h, t) == IF told[h][t] = "none" THEN "running" ELSE RowOf(told[h][t])

\* By task, each card has the hosts that came to it, each with its result in its first row:
\* no item of a loop, and no other task, takes the place of it.
CardsAreTasks ==
  way = "linear" => \A i \in DOMAIN cards : \A h \in Target :
    LET k == FirstRow(cards[i].rows, h)
    IN IF reached[h] < i THEN k = 0
       ELSE k # 0 /\ cards[i].task = i /\ cards[i].rows[k].status = StatusOf(h, i)

\* Whatever way it goes, the last card that has a host shows what became of its last task,
\* even where that is not the task of the card (playbook-run-console.tsx:88).  Hosts that
\* go on their own may show an item there until the task ends.
LatestIsShown ==
  \A h \in Target : reached[h] > 0 /\ way # "module" /\ ~(way = "free" /\ h \in busy) =>
    LET of == {i \in DOMAIN cards : FirstRow(cards[i].rows, h) # 0}
        i == CHOOSE j \in of : \A l \in of : l <= j
    IN of # {} /\ cards[i].rows[FirstRow(cards[i].rows, h)].status = StatusOf(h, reached[h])

\* Once there is a recap nothing seems to run any more, but for hosts that went on their
\* own: a result that arrives when another host has begun the next task leaves its row.
NothingSpins ==
  recap.came /\ way # "free" =>
    \A i \in DOMAIN cards : \A k \in DOMAIN cards[i].rows : cards[i].rows[k].status # "running"

\* The counts that are stored agree with what happened on the hosts: a host on which every
\* task was rescued is not counted, and without a recap nobody is.  What is shown of the run
\* is ok only if no host failed, and partial only if one did and another is fine.
CountsAreTrue ==
  /\ (stored.ok = -1 <=> stored.failed = -1) /\ (stored.ok # -1 => recap.came)
  /\ stored.ok # -1 =>
       /\ stored.failed = Cardinality(out)
       /\ stored.ok = Cardinality({h \in Target \ out :
                        \E t \in 1 .. TaskCount : told[h][t] \notin {"none", "rescued"}})
  /\ ShownOutcome = "ok" => recap.came /\ out = {} /\ \A h \in Target : reached[h] = LastTask
  /\ ShownOutcome = "partial" => \E g, h \in Target : g \in out /\ h \notin out /\ reached[h] > 0

\* A module's run has a card of each host that began, with what became of it there.
HostCardsAreTrue ==
  way = "module" =>
    /\ DOMAIN hostCards = {h \in Target : reached[h] > 0}
    /\ \A h \in DOMAIN hostCards : hostCards[h] = StatusOf(h, 1)

\* The consoles tell of each host what Ansible did there, and the stored counts agree
\* (playbook-run-console.tsx:73-209, executor.ts:46-56).
OutputIsTrue ==
  CardsAreTasks /\ LatestIsShown /\ NothingSpins /\ CountsAreTrue /\ HostCardsAreTrue
=============================================================================
