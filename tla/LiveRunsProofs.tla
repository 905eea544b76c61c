--------------------------- MODULE LiveRunsProofs ---------------------------
(***************************************************************************)
(* Proofs about LiveRuns and the hook of the run console that follows it,  *)
(* RunConsole.                                                             *)
(*                                                                         *)
(* LiveRunsInv is inductive, for any number of runs, watches, events and   *)
(* restarts.  Its core is Balanced: what a watcher was sent, what is left  *)
(* of its copy of the buffer and what is queued for it concatenate to the  *)
(* log of its run.  That every watcher gets the run's events once and in   *)
(* order, and its result after the last of them, follows.                  *)
(*                                                                         *)
(* ConsoleInv is inductive, for any number of runs, streams, lost          *)
(* connections and moves: the console shows the watched run's events in    *)
(* order and once, its own result and one stream at a time, and gives up   *)
(* only when it is justified.                                              *)
(***************************************************************************)
EXTENDS RunConsole, SequenceTheorems, FiniteSetTheorems, TLAPS

USE LiveRunsAssumption

----------------------------------------------------------------------------
(* Sequences: one step of a queue does not change the concatenation.       *)

\* Publishing extends the queue and the log alike.
LEMMA ConcatAppend ==
  ASSUME NEW S, NEW o \in Seq(S), NEW q \in Seq(S), NEW e \in S
  PROVE  o \o Append(q, e) = Append(o \o q, e)
  <1> DEFINE lhs == o \o Append(q, e)
             rhs == Append(o \o q, e)
  <1>1. /\ Append(q, e) \in Seq(S)
        /\ Len(Append(q, e)) = Len(q) + 1
        /\ \A i \in 1 .. Len(q) : Append(q, e)[i] = q[i]
        /\ Append(q, e)[Len(q) + 1] = e
    BY AppendProperties
  <1>2. lhs \in Seq(S) /\ rhs \in Seq(S)
    BY <1>1, ConcatProperties, AppendProperties
  <1>3. Len(lhs) = Len(rhs)
    BY <1>1, ConcatProperties, AppendProperties
  <1>4. \A i \in 1 .. Len(lhs) : lhs[i] = rhs[i]
    BY <1>1, ConcatProperties, AppendProperties, SMTT(30)
  <1>5. QED
    BY <1>2, <1>3, <1>4, SeqEqual

\* Moving the head of a queue to the end of what was sent.
LEMMA ConcatMove ==
  ASSUME NEW S, NEW o \in Seq(S), NEW q \in Seq(S), q # <<>>
  PROVE  Append(o, Head(q)) \o Tail(q) = o \o q
  <1> DEFINE lhs == Append(o, Head(q)) \o Tail(q)
             rhs == o \o q
  <1>1. /\ Head(q) \in S /\ Head(q) = q[1]
        /\ Tail(q) \in Seq(S)
        /\ Len(Tail(q)) = Len(q) - 1
        /\ \A i \in 1 .. Len(Tail(q)) : Tail(q)[i] = q[i + 1]
        /\ Len(q) \in Nat \ {0}
    BY HeadTailProperties, EmptySeq
  <1>2. /\ Append(o, Head(q)) \in Seq(S)
        /\ Len(Append(o, Head(q))) = Len(o) + 1
        /\ \A i \in 1 .. Len(o) : Append(o, Head(q))[i] = o[i]
        /\ Append(o, Head(q))[Len(o) + 1] = Head(q)
    BY <1>1, AppendProperties
  <1>3. lhs \in Seq(S) /\ rhs \in Seq(S) /\ Len(lhs) = Len(rhs)
    BY <1>1, <1>2, ConcatProperties
  <1>4. \A i \in 1 .. Len(lhs) : lhs[i] = rhs[i]
    BY <1>1, <1>2, ConcatProperties, SMTT(30)
  <1>5. QED
    BY <1>3, <1>4, SeqEqual

\* What was sent is a prefix of whatever it is the beginning of.
LEMMA ConcatPrefix ==
  ASSUME NEW S, NEW o \in Seq(S), NEW x \in Seq(S), NEW c, o \o x = c
  PROVE  Prefix(o, c)
  BY ConcatProperties, LenProperties DEF Prefix

\* Events never reach past the end marker of the log.
LEMMA LogPrefix ==
  ASSUME NEW o \in Seq(Event), NEW c \in Seq(Event), NEW s \in Status,
         NEW x \in Seq(Event \cup Status), o \o x = Append(c, s)
  PROVE  Prefix(o, c)
  <1>1. o \in Seq(Event \cup Status) /\ c \in Seq(Event \cup Status)
    BY SeqMonotonic
  <1>2. Prefix(o, Append(c, s))
    BY <1>1, ConcatPrefix
  <1>3. Len(Append(c, s)) = Len(c) + 1 /\ Append(c, s)[Len(c) + 1] = s
    BY <1>1, AppendProperties
  <1>4. \A i \in 1 .. Len(c) : Append(c, s)[i] = c[i]
    BY <1>1, AppendProperties
  <1>5. Len(o) \in Nat /\ Len(c) \in Nat
    BY LenProperties
  <1>6. s \notin Event
    BY DEF Event
  <1>7. Len(o) # Len(c) + 1
    BY <1>2, <1>3, <1>5, <1>6, ElementOfSeq DEF Prefix
  <1>8. QED
    BY <1>2, <1>3, <1>4, <1>5, <1>7 DEF Prefix

\* An end marker at the head of the queue is the run's, and everything before
\* it has been sent.
LEMMA EndMarker ==
  ASSUME NEW o \in Seq(Event), NEW c \in Seq(Event),
         NEW q \in Seq(Event \cup Status), q # <<>>, Head(q) \in Status,
         NEW s \in Status \cup {None},
         s = None => o \o q = c,
         s # None => o \o q = Append(c, s)
  PROVE  s = Head(q) /\ o = c
  <1> DEFINE m == Head(q)
             l == o \o q
  <1>1. o \in Seq(Event \cup Status) /\ c \in Seq(Event \cup Status)
    BY SeqMonotonic
  <1>2. m = q[1] /\ Len(q) \in Nat \ {0} /\ Len(o) \in Nat /\ Len(c) \in Nat
    BY EmptySeq, LenProperties
  <1>3. /\ Len(l) = Len(o) + Len(q)
        /\ \A i \in 1 .. Len(o) + Len(q) :
             l[i] = IF i <= Len(o) THEN o[i] ELSE q[i - Len(o)]
    BY <1>1, ConcatProperties
  <1>4. l[Len(o) + 1] = m
    <2>1. Len(o) + 1 \in 1 .. Len(o) + Len(q) /\ (Len(o) + 1) - Len(o) = 1
      BY <1>2
    <2>2. QED
      BY <1>2, <1>3, <2>1
  <1>5. m \notin Event
    BY DEF Event
  <1>6. s # None
    <2>1. SUFFICES ASSUME s = None PROVE FALSE
      OBVIOUS
    <2>2. c = l
      BY <2>1
    <2>3. Len(o) + 1 \in 1 .. Len(c)
      <3>1. Len(c) = Len(o) + Len(q)
        BY <1>3, <2>2
      <3>2. QED
        BY <1>2, <3>1
    <2>4. c[Len(o) + 1] \in Event
      BY <2>3, ElementOfSeq
    <2>5. QED
      BY <1>4, <1>5, <2>2, <2>4
  <1>7. /\ l = Append(c, s)
        /\ Len(l) = Len(c) + 1
        /\ l[Len(c) + 1] = s
        /\ \A i \in 1 .. Len(c) : l[i] = c[i]
    BY <1>1, <1>6, AppendProperties
  <1>8. Len(o) = Len(c)
    <2>1. SUFFICES ASSUME Len(o) + 1 \in 1 .. Len(c) PROVE FALSE
      BY <1>2, <1>3, <1>7
    <2>2. c[Len(o) + 1] = m
      BY <1>4, <1>7, <2>1
    <2>3. c[Len(o) + 1] \in Event
      BY <2>1, ElementOfSeq
    <2>4. QED
      BY <1>5, <2>2, <2>3
  <1>9. \A i \in 1 .. Len(o) : o[i] = c[i]
    BY <1>2, <1>3, <1>7, <1>8
  <1>10. o = c
    BY <1>8, <1>9, SeqEqual
  <1>11. QED
    BY <1>4, <1>7, <1>8, <1>10

----------------------------------------------------------------------------
(* The invariant.                                                          *)

LEMMA InitLiveRunsInv == Init => LiveRunsInv
  BY EmptySeq DEF Init, LiveRunsInv, TypeOK, EntryInv, WatchInv, ExactlyOnceInOrder,
     EndIsComplete, Prefix, Ending

\* The parts of the invariant that sequences play no role in are preserved.
\* The registry's entry of a run holds what its executor has collected.
LEMMA EntryInvStep ==
  ASSUME LiveRunsInv, [Next]_vars
  PROVE  EntryInv'
  <1> USE DEF LiveRunsInv, TypeOK, EntryInv
  <1>1. ASSUME NEW r \in Run, BeginLiveRun(r) PROVE EntryInv'
    BY <1>1 DEF BeginLiveRun
  <1>2. ASSUME NEW r \in Run, TaskFrame(r) PROVE EntryInv'
    <2>1. PICK e : /\ collected' = [collected EXCEPT ![r] = Append(@, e)]
                   /\ events' = [events EXCEPT ![r] = Append(@, e)]
      BY <1>2 DEF TaskFrame
    <2>2. QED
      BY <1>2, <2>1 DEF TaskFrame
  <1>3. ASSUME NEW r \in Run, NEW s \in Status, FinishLiveRun(r, s) PROVE EntryInv'
    BY <1>3 DEF FinishLiveRun
  <1>4. ASSUME NEW r \in Run, ForgetLiveRun(r) PROVE EntryInv'
    BY <1>4 DEF ForgetLiveRun, execVars
  <1>5. CASE Crash
    BY <1>5 DEF Crash
  <1>6. CASE WatchStep \/ UNCHANGED vars
    BY <1>6 DEF WatchStep, ReadWatch, WatchRun, Attach, YieldReplay,
       ReturnDoneBefore, ReadLive, Abort, Leave, execVars, liveVars, vars
  <1>7. QED
    BY <1>1, <1>2, <1>3, <1>4, <1>5, <1>6 DEF Next, RunStep

\* Publishing a message keeps queues well typed.
LEMMA PublishType ==
  ASSUME TypeOK, NEW r \in Run, NEW m \in Event \cup Status, PublishRunMessage(r, m)
  PROVE  queue' \in [Watch -> Seq(Event \cup Status)]
  <1>1. ASSUME NEW w \in Watch PROVE Append(queue[w], m) \in Seq(Event \cup Status)
    BY AppendProperties DEF TypeOK
  <1>2. QED
    BY <1>1 DEF TypeOK, PublishRunMessage, Enqueue

\* So does returning keep the states of the watches.
LEMMA ReturnType ==
  ASSUME TypeOK, NEW w \in Watch, NEW v \in Status \cup {None}, Return(w, v)
  PROVE  /\ watch' \in [Watch -> {"free", "called", "attached", "ended"}]
         /\ end' \in [Watch -> Ending]
  <1>1. <<v>> \in Ending
    BY DEF Ending
  <1>2. QED
    BY <1>1 DEF TypeOK, Return

\* Every step keeps the variables well typed.
LEMMA TypeOKStep ==
  ASSUME LiveRunsInv, [Next]_vars
  PROVE  TypeOK'
  <1>0. TypeOK
    BY DEF LiveRunsInv
  <1>1. ASSUME NEW r \in Run, BeginLiveRun(r) PROVE TypeOK'
    BY <1>0, <1>1, EmptySeq DEF TypeOK, BeginLiveRun, watchVars
  <1>2. ASSUME NEW r \in Run, TaskFrame(r) PROVE TypeOK'
    <2> DEFINE e == <<r, Len(collected[r]) + 1>>
    <2>1. e \in Event
      BY <1>0, LenProperties DEF TypeOK, Event
    <2>2. /\ Append(collected[r], e) \in Seq(Event)
          /\ Append(events[r], e) \in Seq(Event)
      BY <1>0, <2>1, AppendProperties DEF TypeOK
    <2>3. collected' \in [Run -> Seq(Event)]
      BY <1>0, <1>2, <2>2 DEF TaskFrame, TypeOK
    <2>4. events' \in [Run -> Seq(Event)]
      BY <1>0, <1>2, <2>2 DEF TaskFrame, TypeOK
    <2>5. queue' \in [Watch -> Seq(Event \cup Status)]
      BY <1>0, <1>2, <2>1, PublishType DEF TaskFrame, TypeOK
    <2>6. UNCHANGED <<exec, result, entry, watch, runOf, replay, doneBefore, aborted,
                      out, end, crashes>>
      BY <1>2 DEF TaskFrame
    <2>7. QED
      BY <1>0, <2>3, <2>4, <2>5, <2>6 DEF TypeOK
  <1>3. ASSUME NEW r \in Run, NEW s \in Status, FinishLiveRun(r, s) PROVE TypeOK'
    <2>1. queue' \in [Watch -> Seq(Event \cup Status)]
      BY <1>0, <1>3, PublishType DEF FinishLiveRun, TypeOK
    <2>2. QED
      BY <1>0, <1>3, <2>1 DEF TypeOK, FinishLiveRun
  <1>4. ASSUME NEW r \in Run, ForgetLiveRun(r) PROVE TypeOK'
    BY <1>0, <1>4, EmptySeq DEF TypeOK, ForgetLiveRun, execVars, watchVars
  <1>5. CASE Crash
    BY <1>0, <1>5, EmptySeq DEF TypeOK, Crash
  <1>6. ASSUME NEW w \in Watch, NEW r \in Run, WatchRun(w, r) PROVE TypeOK'
    BY <1>0, <1>6 DEF TypeOK, WatchRun, execVars, liveVars
  <1>7. ASSUME NEW w \in Watch, Attach(w) PROVE TypeOK'
    <2>1. CASE entry[runOf[w]] = "absent" \/ aborted[w]
      <3>1. /\ watch' \in [Watch -> {"free", "called", "attached", "ended"}]
            /\ end' \in [Watch -> Ending]
        BY <1>0, <1>7, <2>1, ReturnType DEF Attach
      <3>2. QED
        BY <1>0, <1>7, <2>1, <3>1 DEF TypeOK, Attach, execVars, liveVars
    <2>2. CASE ~(entry[runOf[w]] = "absent" \/ aborted[w])
      <3>1. /\ watch' = [watch EXCEPT ![w] = "attached"]
            /\ replay' = [replay EXCEPT ![w] = events[runOf[w]]]
            /\ doneBefore' = [doneBefore EXCEPT ![w] = result[runOf[w]]]
            /\ UNCHANGED <<exec, collected, result, entry, events, runOf, queue,
                           aborted, out, end, crashes>>
        BY <1>7, <2>2 DEF Attach, DoneAtCopy, execVars, liveVars
      <3>2. events[runOf[w]] \in Seq(Event) /\ result[runOf[w]] \in Status \cup {None}
        BY <1>0 DEF TypeOK
      <3>3. QED
        BY <1>0, <3>1, <3>2 DEF TypeOK
    <2>3. QED
      BY <2>1, <2>2
  <1>8. ASSUME NEW w \in Watch, YieldReplay(w) PROVE TypeOK'
    <2>1. /\ Tail(replay[w]) \in Seq(Event)
          /\ Append(out[w], Head(replay[w])) \in Seq(Event)
      BY <1>0, <1>8, HeadTailProperties, AppendProperties DEF TypeOK, YieldReplay
    <2>2. QED
      BY <1>0, <1>8, <2>1 DEF TypeOK, YieldReplay, execVars, liveVars
  <1>9. ASSUME NEW w \in Watch, ReadLive(w) PROVE TypeOK'
    <2>1. /\ Tail(queue[w]) \in Seq(Event \cup Status)
          /\ Head(queue[w]) \in Event \cup Status
      BY <1>0, <1>9, HeadTailProperties DEF TypeOK, ReadLive
    <2>2. CASE Head(queue[w]) \in Status
      <3>1. Return(w, Head(queue[w])) /\ out' = out
        BY <1>9, <2>2 DEF ReadLive
      <3>2. /\ watch' \in [Watch -> {"free", "called", "attached", "ended"}]
            /\ end' \in [Watch -> Ending]
        BY <1>0, <2>2, <3>1, ReturnType
      <3>3. queue' \in [Watch -> Seq(Event \cup Status)]
        BY <1>0, <1>9, <2>1 DEF TypeOK, ReadLive
      <3>4. QED
        BY <1>0, <1>9, <3>1, <3>2, <3>3 DEF TypeOK, ReadLive, execVars, liveVars
    <2>3. CASE Head(queue[w]) \notin Status
      <3>1. Append(out[w], Head(queue[w])) \in Seq(Event)
        BY <1>0, <2>1, <2>3, AppendProperties DEF TypeOK
      <3>2. QED
        BY <1>0, <1>9, <2>1, <2>3, <3>1 DEF TypeOK, ReadLive, execVars, liveVars
    <2>4. QED
      BY <2>2, <2>3
  <1>10. ASSUME NEW w \in Watch, ReturnDoneBefore(w) \/ Abort(w) \/ Leave(w)
         PROVE  TypeOK'
    <2>1. CASE Abort(w)
      BY <1>0, <2>1 DEF TypeOK, Abort, execVars, liveVars
    <2>2. CASE ReturnDoneBefore(w) \/ Leave(w)
      <3>1. /\ watch' \in [Watch -> {"free", "called", "attached", "ended"}]
            /\ end' \in [Watch -> Ending]
        BY <1>0, <2>2, ReturnType DEF TypeOK, ReturnDoneBefore, Leave
      <3>2. QED
        BY <1>0, <2>2, <3>1 DEF TypeOK, ReturnDoneBefore, Leave, execVars, liveVars
    <2>3. QED
      BY <1>10, <2>1, <2>2
  <1>11. CASE UNCHANGED vars
    BY <1>0, <1>11 DEF TypeOK, vars, execVars, liveVars, watchVars
  <1>12. QED
    BY <1>1, <1>2, <1>3, <1>4, <1>5, <1>6, <1>7, <1>8, <1>9, <1>10, <1>11
       DEF Next, RunStep, WatchStep, ReadWatch

\* What a watch gains when a message is published for its run: the message, at
\* the end of its queue, and nothing else.
LEMMA PublishBalance ==
  ASSUME LiveRunsInv, NEW r \in Run, NEW m \in Event \cup Status, exec[r] = "running",
         PublishRunMessage(r, m),
         UNCHANGED <<watch, runOf, replay, doneBefore, out, end>>,
         Log(r)' = Append(collected[r], m),
         \A x \in Run \ {r} : Log(x)' = Log(x) /\ result'[x] = result[x]
                              /\ collected'[x] = collected[x],
         exec' \in [Run -> {"idle", "running", "over"}],
         \A x \in Run : exec[x] # "idle" => exec'[x] # "idle"
  PROVE  WatchInv'
  <1>0. TypeOK /\ EntryInv /\ WatchInv
    BY DEF LiveRunsInv
  <1>1. SUFFICES ASSUME NEW w \in Watch
                 PROVE  /\ watch[w] \in {"free", "called"} =>
                             /\ out[w] = <<>> /\ queue'[w] = <<>>
                             /\ replay[w] = <<>> /\ end[w] = <<>>
                        /\ watch[w] = "attached" => /\ exec'[runOf[w]] # "idle"
                                                    /\ end[w] = <<>>
                                                    /\ Balanced(w)'
    BY <1>0 DEF WatchInv
  <1>2. CASE watch[w] # "attached" \/ runOf[w] # r
    <2>1. queue'[w] = queue[w]
      BY <1>0, <1>2 DEF PublishRunMessage, Listening, TypeOK
    <2>2. watch[w] = "attached" => Balanced(w)'
      <3>1. Log(runOf[w])' = Log(runOf[w]) \/ watch[w] # "attached"
        BY <1>0, <1>2 DEF TypeOK
      <3>2. QED
        BY <1>0, <1>2, <2>1, <3>1 DEF WatchInv, Balanced, TypeOK
    <2>3. QED
      BY <1>0, <1>2, <2>1, <2>2 DEF WatchInv, TypeOK
  <1>3. CASE watch[w] = "attached" /\ runOf[w] = r
    <2>1. result[r] = None /\ Log(r) = collected[r]
      BY <1>0 DEF EntryInv, Log, TypeOK
    <2>2. doneBefore[w] = None /\ out[w] \o (replay[w] \o queue[w]) = collected[r]
      BY <1>0, <1>3, <2>1 DEF WatchInv, Balanced, Log
    <2>3. queue'[w] = Append(queue[w], m)
      BY <1>0, <1>3 DEF PublishRunMessage, Listening, Enqueue, TypeOK
    <2>4. /\ out[w] \in Seq(Event \cup Status)
          /\ replay[w] \in Seq(Event \cup Status)
          /\ queue[w] \in Seq(Event \cup Status)
      BY <1>0, SeqMonotonic DEF TypeOK
    <2>5. out[w] \o (replay[w] \o Append(queue[w], m)) = Append(collected[r], m)
      <3>1. ASSUME NEW T, NEW o \in Seq(T), NEW x \in Seq(T), NEW q \in Seq(T), NEW e \in T
            PROVE  o \o (x \o Append(q, e)) = Append(o \o (x \o q), e)
        <4>1. x \o Append(q, e) = Append(x \o q, e)
          BY <3>1, ConcatAppend
        <4>2. x \o q \in Seq(T)
          BY <3>1, ConcatProperties
        <4>3. o \o Append(x \o q, e) = Append(o \o (x \o q), e)
          BY <3>1, <4>2, ConcatAppend
        <4>4. QED
          BY <4>1, <4>3
      <3> DEFINE T == Event \cup Status
      <3>2. PICK o, x, q \in Seq(T) : o = out[w] /\ x = replay[w] /\ q = queue[w]
        BY <2>4
      <3>3. o \o (x \o Append(q, m)) = Append(o \o (x \o q), m)
        BY <3>1
      <3>4. QED
        BY <2>2, <3>2, <3>3
    <2>6. Balanced(w)'
      BY <1>3, <2>2, <2>3, <2>5 DEF Balanced
    <2>7. QED
      BY <1>0, <1>3, <2>6 DEF WatchInv, TypeOK
  <1>4. QED
    BY <1>2, <1>3

\* A watch that returns leaves the others as they were.
LEMMA ReturnBalance ==
  ASSUME LiveRunsInv, NEW w \in Watch, NEW v,
         watch' = [watch EXCEPT ![w] = "ended"],
         end' = [end EXCEPT ![w] = <<v>>],
         UNCHANGED <<exec, collected, result, runOf, replay, doneBefore, queue, out>>
  PROVE  WatchInv'
  <1>1. watch'[w] = "ended"
    BY DEF LiveRunsInv, TypeOK
  <1>2. \A x \in Watch \ {w} : watch'[x] = watch[x] /\ end'[x] = end[x]
    BY DEF LiveRunsInv, TypeOK
  <1>3. \A x \in Watch : Balanced(x)' <=> Balanced(x)
    BY DEF Balanced, Log
  <1>4. QED
    BY <1>1, <1>2, <1>3 DEF LiveRunsInv, WatchInv

\* Sent, replayed and queued still make up the log after every step.
LEMMA WatchInvStep ==
  ASSUME LiveRunsInv, [Next]_vars, TypeOK'
  PROVE  WatchInv'
  <1> USE DEF LiveRunsInv
  <1>1. ASSUME NEW r \in Run, BeginLiveRun(r) PROVE WatchInv'
    BY <1>1 DEF BeginLiveRun, watchVars, WatchInv, Balanced, Log, TypeOK
  <1>2. ASSUME NEW r \in Run, TaskFrame(r) PROVE WatchInv'
    <2> DEFINE e == <<r, Len(collected[r]) + 1>>
    <2>1. e \in Event
      BY LenProperties DEF TypeOK, Event
    <2>2. exec[r] = "running" /\ entry[r] = "live" /\ result[r] = None
      BY <1>2 DEF TaskFrame, EntryInv
    <2>3. PublishRunMessage(r, e)
      BY <1>2, <2>2 DEF TaskFrame
    <2>4. /\ collected' = [collected EXCEPT ![r] = Append(@, e)]
          /\ UNCHANGED <<exec, result, watch, runOf, replay, doneBefore, out, end>>
      BY <1>2 DEF TaskFrame
    <2> HIDE DEF e
    <2>5. Log(r)' = Append(collected[r], e)
      BY <2>2, <2>4 DEF Log, TypeOK
    <2>6. \A x \in Run \ {r} : Log(x)' = Log(x) /\ result'[x] = result[x]
                               /\ collected'[x] = collected[x]
      BY <2>4 DEF Log, TypeOK
    <2>7. QED
      BY <2>1, <2>2, <2>3, <2>4, <2>5, <2>6, PublishBalance DEF TypeOK
  <1>3. ASSUME NEW r \in Run, NEW s \in Status, FinishLiveRun(r, s) PROVE WatchInv'
    <2>1. exec[r] = "running" /\ entry[r] = "live" /\ result[r] = None
      BY <1>3 DEF FinishLiveRun, EntryInv
    <2>2. PublishRunMessage(r, s)
      BY <1>3, <2>1 DEF FinishLiveRun
    <2>3. /\ result' = [result EXCEPT ![r] = s]
          /\ exec' = [exec EXCEPT ![r] = "over"]
          /\ UNCHANGED <<collected, watch, runOf, replay, doneBefore, out, end>>
      BY <1>3 DEF FinishLiveRun
    <2>4. Log(r)' = Append(collected[r], s)
      BY <2>3 DEF Log, TypeOK
    <2>5. \A x \in Run \ {r} : Log(x)' = Log(x) /\ result'[x] = result[x]
                               /\ collected'[x] = collected[x]
      BY <2>3 DEF Log, TypeOK
    <2>6. \A x \in Run : exec[x] # "idle" => exec'[x] # "idle"
      BY <2>3 DEF TypeOK
    <2>7. QED
      BY <2>1, <2>2, <2>3, <2>4, <2>5, <2>6, PublishBalance DEF TypeOK
  <1>4. ASSUME NEW r \in Run, ForgetLiveRun(r) PROVE WatchInv'
    BY <1>4 DEF ForgetLiveRun, execVars, watchVars, WatchInv, Balanced, Log
  <1>5. CASE Crash
    BY <1>5 DEF Crash, WatchInv, Balanced, Log, TypeOK
  <1>6. ASSUME NEW w \in Watch, NEW r \in Run, WatchRun(w, r) PROVE WatchInv'
    BY <1>6 DEF WatchRun, execVars, liveVars, WatchInv, Balanced, Log, TypeOK
  <1>7. ASSUME NEW w \in Watch, Attach(w) PROVE WatchInv'
    <2>1. CASE entry[runOf[w]] = "absent" \/ aborted[w]
      <3>1. /\ watch' = [watch EXCEPT ![w] = "ended"]
            /\ end' = [end EXCEPT ![w] = <<None>>]
            /\ UNCHANGED <<exec, collected, result, runOf, replay, doneBefore, queue,
                           out>>
        BY <1>7, <2>1 DEF Attach, Return, execVars
      <3>2. QED
        BY <3>1, ReturnBalance
    <2>2. CASE ~(entry[runOf[w]] = "absent" \/ aborted[w])
      <3>1. /\ watch[w] = "called"
            /\ watch' = [watch EXCEPT ![w] = "attached"]
            /\ replay' = [replay EXCEPT ![w] = events[runOf[w]]]
            /\ doneBefore' = [doneBefore EXCEPT ![w] = result[runOf[w]]]
            /\ UNCHANGED <<exec, collected, result, runOf, queue, out, end>>
        BY <1>7, <2>2 DEF Attach, DoneAtCopy, execVars
      <3>2. /\ events[runOf[w]] = collected[runOf[w]]
            /\ exec[runOf[w]] # "idle"
        <4>1. runOf[w] \in Run
          BY DEF TypeOK
        <4>2. entry[runOf[w]] \in {"live", "done"}
          BY <2>2, <4>1 DEF TypeOK
        <4>3. /\ events[runOf[w]] = collected[runOf[w]]
              /\ entry[runOf[w]] = "live" => exec[runOf[w]] = "running"
              /\ entry[runOf[w]] = "done" => result[runOf[w]] # None
              /\ result[runOf[w]] # None => exec[runOf[w]] = "over"
          BY <4>1, <4>2 DEF EntryInv
        <4>4. QED
          BY <4>2, <4>3
      <3>3. out[w] = <<>> /\ queue[w] = <<>> /\ end[w] = <<>>
        BY <3>1 DEF WatchInv
      <3>4. collected[runOf[w]] \in Seq(Event)
        BY DEF TypeOK
      <3>5. /\ <<>> \o (collected[runOf[w]] \o <<>>) = collected[runOf[w]]
            /\ <<>> \o collected[runOf[w]] = collected[runOf[w]]
        BY <3>4, ConcatEmptySeq
      <3>6. Balanced(w)'
        BY <3>1, <3>2, <3>3, <3>5 DEF Balanced, Log, TypeOK
      <3>7. ASSUME NEW x \in Watch \ {w} PROVE Balanced(x)' <=> Balanced(x)
        <4>1. /\ watch'[x] = watch[x] /\ replay'[x] = replay[x] /\ doneBefore'[x] = doneBefore[x]
              /\ UNCHANGED <<queue, out, end, runOf, result, collected>>
          BY <3>1, <3>7 DEF TypeOK
        <4>2. QED
          BY <3>1, <4>1 DEF Balanced, Log
      <3>8. QED
        BY <3>1, <3>2, <3>3, <3>6, <3>7 DEF WatchInv, TypeOK
    <2>3. QED
      BY <2>1, <2>2
  <1>8. ASSUME NEW w \in Watch, YieldReplay(w) PROVE WatchInv'
    <2>1. /\ watch[w] = "attached" /\ replay[w] # <<>>
          /\ replay' = [replay EXCEPT ![w] = Tail(@)]
          /\ out' = [out EXCEPT ![w] = Append(@, Head(replay[w]))]
          /\ UNCHANGED <<exec, collected, result, watch, runOf, doneBefore, queue, end>>
      BY <1>8 DEF YieldReplay, execVars
    <2>2. /\ out[w] \in Seq(Event \cup Status)
          /\ replay[w] \in Seq(Event \cup Status)
          /\ queue[w] \in Seq(Event \cup Status)
      BY SeqMonotonic DEF TypeOK
    <2>3. /\ Append(out[w], Head(replay[w])) \in Seq(Event \cup Status)
          /\ Tail(replay[w]) \in Seq(Event \cup Status)
      BY <2>1, <2>2, HeadTailProperties, AppendProperties
    <2>4. Append(out[w], Head(replay[w])) \o Tail(replay[w]) = out[w] \o replay[w]
      BY <2>1, <2>2, ConcatMove
    <2>5. Append(out[w], Head(replay[w])) \o (Tail(replay[w]) \o queue[w])
            = out[w] \o (replay[w] \o queue[w])
      <3>1. \A o, x, q \in Seq(Event \cup Status) : (o \o x) \o q = o \o (x \o q)
        BY ConcatAssociative
      <3>2. (Append(out[w], Head(replay[w])) \o Tail(replay[w])) \o queue[w]
              = Append(out[w], Head(replay[w])) \o (Tail(replay[w]) \o queue[w])
        BY <2>2, <2>3, <3>1, Zenon
      <3>3. (out[w] \o replay[w]) \o queue[w] = out[w] \o (replay[w] \o queue[w])
        BY <2>2, <3>1, Zenon
      <3>4. QED
        BY <2>4, <3>2, <3>3
    <2>6. Balanced(w)'
      BY <2>1, <2>4, <2>5 DEF Balanced, Log, TypeOK, WatchInv
    <2>7. \A x \in Watch \ {w} : Balanced(x)' <=> Balanced(x)
      BY <2>1 DEF Balanced, Log, TypeOK
    <2>8. QED
      BY <2>1, <2>6, <2>7 DEF WatchInv, TypeOK
  <1>9. ASSUME NEW w \in Watch, ReadLive(w) PROVE WatchInv'
    <2>1. /\ watch[w] = "attached" /\ replay[w] = <<>> /\ queue[w] # <<>>
          /\ doneBefore[w] = None
          /\ queue' = [queue EXCEPT ![w] = Tail(@)]
          /\ UNCHANGED <<exec, collected, result, runOf, replay, doneBefore>>
      BY <1>9 DEF ReadLive, execVars
    <2>2. CASE Head(queue[w]) \in Status
      <3>1. /\ watch' = [watch EXCEPT ![w] = "ended"]
            /\ end' = [end EXCEPT ![w] = <<Head(queue[w])>>]
            /\ out' = out
        BY <1>9, <2>2 DEF ReadLive, Return
      <3>2. \A x \in Watch \ {w} : /\ queue'[x] = queue[x]
                                   /\ watch'[x] = watch[x]
                                   /\ end'[x] = end[x]
        BY <2>1, <3>1 DEF TypeOK
      <3>3. watch'[w] = "ended"
        BY <3>1 DEF TypeOK
      <3>4. \A x \in Watch \ {w} : Balanced(x)' <=> Balanced(x)
        BY <2>1, <3>1, <3>2 DEF Balanced, Log
      <3>5. QED
        BY <2>1, <3>1, <3>2, <3>3, <3>4 DEF WatchInv
    <2>3. CASE Head(queue[w]) \notin Status
      <3>1. /\ out' = [out EXCEPT ![w] = Append(@, Head(queue[w]))]
            /\ UNCHANGED <<watch, end>>
        BY <1>9, <2>3 DEF ReadLive
      <3>2. /\ out[w] \in Seq(Event \cup Status)
            /\ queue[w] \in Seq(Event \cup Status)
            /\ Tail(queue[w]) \in Seq(Event \cup Status)
        BY <2>1, SeqMonotonic, HeadTailProperties DEF TypeOK
      <3>3. Append(out[w], Head(queue[w])) \o Tail(queue[w]) = out[w] \o queue[w]
        BY <2>1, <3>2, ConcatMove
      <3>4. <<>> \o queue[w] = queue[w] /\ <<>> \o Tail(queue[w]) = Tail(queue[w])
        BY <3>2, ConcatEmptySeq
      <3>5. Balanced(w)'
        <4>1. out[w] \o queue[w] = Log(runOf[w])
          BY <2>1, <3>4 DEF WatchInv, Balanced
        <4>2. /\ out'[w] = Append(out[w], Head(queue[w]))
              /\ queue'[w] = Tail(queue[w])
          BY <2>1, <3>1 DEF TypeOK
        <4>3. out'[w] \o (replay[w] \o queue'[w]) = Log(runOf[w])
          BY <2>1, <3>3, <3>4, <4>1, <4>2
        <4>4. QED
          BY <2>1, <4>3 DEF Balanced, Log
      <3>6. \A x \in Watch \ {w} : Balanced(x)' <=> Balanced(x)
        BY <2>1, <3>1 DEF Balanced, Log, TypeOK
      <3>7. QED
        BY <2>1, <3>1, <3>5, <3>6 DEF WatchInv, TypeOK
    <2>4. QED
      BY <2>2, <2>3
  <1>10. ASSUME NEW w \in Watch, ReturnDoneBefore(w) \/ Abort(w) \/ Leave(w)
         PROVE  WatchInv'
    <2>1. CASE Abort(w)
      BY <2>1 DEF Abort, execVars, WatchInv, Balanced, Log
    <2>2. CASE ReturnDoneBefore(w) \/ Leave(w)
      <3>1. PICK v : /\ watch' = [watch EXCEPT ![w] = "ended"]
                     /\ end' = [end EXCEPT ![w] = <<v>>]
                     /\ UNCHANGED <<exec, collected, result, runOf, replay, doneBefore,
                                    queue, out>>
        BY <2>2 DEF ReturnDoneBefore, Leave, Return, execVars
      <3>2. QED
        BY <3>1, ReturnBalance
    <2>3. QED
      BY <1>10, <2>1, <2>2
  <1>11. CASE UNCHANGED vars
    BY <1>11 DEF vars, execVars, liveVars, watchVars, WatchInv, Balanced, Log
  <1>12. QED
    BY <1>1, <1>2, <1>3, <1>4, <1>5, <1>6, <1>7, <1>8, <1>9, <1>10, <1>11
       DEF Next, RunStep, WatchStep, ReadWatch

\* The log determines what a watcher may have been sent: never more than what
\* the run collected.
LEMMA BalancedPrefix ==
  ASSUME NEW o \in Seq(Event), NEW x \in Seq(Event), NEW q \in Seq(Event \cup Status),
         NEW c \in Seq(Event), NEW d, NEW s \in Status \cup {None},
         IF d = None THEN o \o (x \o q) = IF s = None THEN c ELSE Append(c, s)
                     ELSE o \o x = c
  PROVE  Prefix(o, c)
  <1>1. /\ o \in Seq(Event \cup Status)
        /\ x \in Seq(Event \cup Status)
    BY SeqMonotonic
  <1>2. x \o q \in Seq(Event \cup Status)
    BY <1>1, ConcatProperties
  <1>3. CASE d # None
    BY <1>3, ConcatPrefix
  <1>4. CASE d = None /\ s = None
    BY <1>1, <1>2, <1>4, ConcatPrefix
  <1>5. CASE d = None /\ s # None
    BY <1>2, <1>5, LogPrefix
  <1>6. QED
    BY <1>3, <1>4, <1>5

\* The events of a run are only ever added to, at the end.
LEMMA CollectedGrows ==
  ASSUME TypeOK, [Next]_vars, NEW r \in Run
  PROVE  \/ collected'[r] = collected[r]
         \/ \E e \in Event : collected'[r] = Append(collected[r], e)
  <1>1. CASE \E x \in Run : TaskFrame(x)
    <2>1. PICK x \in Run : TaskFrame(x)
      BY <1>1
    <2>2. <<x, Len(collected[x]) + 1>> \in Event
      BY LenProperties DEF TypeOK, Event
    <2>3. collected' = [collected EXCEPT ![x] =
                          Append(@, <<x, Len(collected[x]) + 1>>)]
      BY <2>1 DEF TaskFrame
    <2>4. QED
      BY <2>2, <2>3 DEF TypeOK
  <1>2. CASE ~\E x \in Run : TaskFrame(x)
    BY <1>2 DEF Next, RunStep, WatchStep, ReadWatch, BeginLiveRun, FinishLiveRun,
       ForgetLiveRun, Crash, WatchRun, Attach, YieldReplay, ReturnDoneBefore, ReadLive,
       Abort, Leave, vars, execVars
  <1>3. QED
    BY <1>1, <1>2

\* A watch that ends, or has ended, was and is sent nothing more.
LEMMA EndedUnchanged ==
  ASSUME TypeOK, [Next]_vars, NEW w \in Watch, watch'[w] = "ended"
  PROVE  out'[w] = out[w] /\ runOf'[w] = runOf[w]
  <1>1. CASE RunStep \/ Crash \/ UNCHANGED vars
    BY <1>1 DEF RunStep, BeginLiveRun, TaskFrame, FinishLiveRun, ForgetLiveRun, Crash,
       vars, watchVars
  <1>2. ASSUME NEW x \in Watch, NEW r \in Run, WatchRun(x, r)
        PROVE  out'[w] = out[w] /\ runOf'[w] = runOf[w]
    BY <1>2 DEF TypeOK, WatchRun
  <1>3. ASSUME NEW x \in Watch,
               Attach(x) \/ ReturnDoneBefore(x) \/ Abort(x) \/ Leave(x)
        PROVE  out'[w] = out[w] /\ runOf'[w] = runOf[w]
    BY <1>3 DEF Attach, ReturnDoneBefore, Abort, Leave
  <1>4. ASSUME NEW x \in Watch, YieldReplay(x)
        PROVE  out'[w] = out[w] /\ runOf'[w] = runOf[w]
    BY <1>4 DEF TypeOK, YieldReplay
  <1>5. ASSUME NEW x \in Watch, ReadLive(x)
        PROVE  out'[w] = out[w] /\ runOf'[w] = runOf[w]
    <2>1. CASE Head(queue[x]) \in Status
      BY <1>5, <2>1 DEF ReadLive
    <2>2. CASE Head(queue[x]) \notin Status
      BY <1>5, <2>2 DEF TypeOK, ReadLive
    <2>3. QED
      BY <2>1, <2>2
  <1>6. QED
    BY <1>1, <1>2, <1>3, <1>4, <1>5 DEF Next, WatchStep, ReadWatch

\* Every watcher still has a prefix of what its run has collected.
LEMMA PrefixStep ==
  ASSUME LiveRunsInv, [Next]_vars, TypeOK', WatchInv'
  PROVE  ExactlyOnceInOrder'
  <1>1. SUFFICES ASSUME NEW w \in Watch
                 PROVE  Prefix(out'[w], collected'[runOf'[w]])
    BY DEF ExactlyOnceInOrder
  <1>2. CASE watch'[w] = "attached"
    <2>1. IF doneBefore'[w] = None
            THEN out'[w] \o (replay'[w] \o queue'[w])
                   = IF result'[runOf'[w]] = None
                       THEN collected'[runOf'[w]]
                       ELSE Append(collected'[runOf'[w]], result'[runOf'[w]])
            ELSE out'[w] \o replay'[w] = collected'[runOf'[w]]
      BY <1>2 DEF WatchInv, Balanced, Log
    <2>2. /\ out'[w] \in Seq(Event) /\ replay'[w] \in Seq(Event)
          /\ queue'[w] \in Seq(Event \cup Status)
          /\ collected'[runOf'[w]] \in Seq(Event)
          /\ result'[runOf'[w]] \in Status \cup {None}
      BY DEF TypeOK
    <2>3. QED
      BY <2>1, <2>2, BalancedPrefix
  <1>3. CASE watch'[w] \in {"free", "called"}
    <2>1. out'[w] = <<>>
      BY <1>3 DEF WatchInv
    <2>2. collected'[runOf'[w]] \in Seq(Event)
      BY DEF TypeOK
    <2>3. QED
      BY <2>1, <2>2, LenProperties DEF Prefix
  <1>4. CASE watch'[w] = "ended"
    <2>1. out'[w] = out[w] /\ runOf'[w] = runOf[w]
      BY <1>4, EndedUnchanged DEF LiveRunsInv
    <2>2. Prefix(out[w], collected[runOf[w]])
      BY DEF LiveRunsInv, ExactlyOnceInOrder
    <2>3. /\ out[w] \in Seq(Event)
          /\ runOf[w] \in Run
          /\ collected[runOf[w]] \in Seq(Event)
      BY DEF LiveRunsInv, TypeOK
    <2>4. \/ collected'[runOf[w]] = collected[runOf[w]]
          \/ \E e \in Event : collected'[runOf[w]] = Append(collected[runOf[w]], e)
      BY <2>3, CollectedGrows DEF LiveRunsInv
    <2>5. CASE collected'[runOf[w]] = collected[runOf[w]]
      BY <2>1, <2>2, <2>5
    <2>6. ASSUME NEW e \in Event, collected'[runOf[w]] = Append(collected[runOf[w]], e)
          PROVE  Prefix(out[w], collected'[runOf[w]])
      BY <2>2, <2>3, <2>6, AppendProperties, LenProperties DEF Prefix
    <2>7. QED
      BY <2>1, <2>4, <2>5, <2>6
  <1>5. QED
    BY <1>2, <1>3, <1>4 DEF TypeOK

\* Nothing is added to a run that is over.
LEMMA OverIsFinal ==
  ASSUME TypeOK, [Next]_vars, NEW r \in Run, exec[r] = "over"
  PROVE  result'[r] = result[r] /\ collected'[r] = collected[r]
  <1>1. CASE WatchStep \/ Crash \/ UNCHANGED vars
    BY <1>1 DEF WatchStep, ReadWatch, WatchRun, Attach, YieldReplay, ReturnDoneBefore,
       ReadLive, Abort, Leave, Crash, vars, execVars
  <1>2. ASSUME NEW x \in Run, TaskFrame(x)
        PROVE  result'[r] = result[r] /\ collected'[r] = collected[r]
    BY <1>2 DEF TaskFrame, TypeOK
  <1>3. ASSUME NEW x \in Run, NEW s \in Status, FinishLiveRun(x, s)
        PROVE  result'[r] = result[r] /\ collected'[r] = collected[r]
    BY <1>3 DEF FinishLiveRun, TypeOK
  <1>4. ASSUME NEW x \in Run, BeginLiveRun(x) \/ ForgetLiveRun(x)
        PROVE  result'[r] = result[r] /\ collected'[r] = collected[r]
    BY <1>4 DEF BeginLiveRun, ForgetLiveRun, execVars
  <1>5. QED
    BY <1>1, <1>2, <1>3, <1>4 DEF Next, RunStep

\* The only two ways a watch comes to end with a result.
LEMMA ResultGiven ==
  ASSUME TypeOK, [Next]_vars, NEW w \in Watch, NEW s \in Status,
         end[w] # <<s>>, end'[w] = <<s>>
  PROVE  \/ ReturnDoneBefore(w) /\ s = doneBefore[w]
         \/ ReadLive(w) /\ Head(queue[w]) \in Status /\ s = Head(queue[w])
  <1>1. CASE RunStep \/ Crash \/ UNCHANGED vars
    BY <1>1 DEF RunStep, BeginLiveRun, TaskFrame, FinishLiveRun, ForgetLiveRun, Crash,
       vars, watchVars
  <1>2. ASSUME NEW x \in Watch, \/ \E r \in Run : WatchRun(x, r)
                               \/ YieldReplay(x) \/ Abort(x)
        PROVE  FALSE
    BY <1>2 DEF WatchRun, YieldReplay, Abort
  <1>3. ASSUME NEW x \in Watch, NEW v, end' = [end EXCEPT ![x] = <<v>>]
        PROVE  x = w /\ v = s
    BY <1>3 DEF TypeOK
  <1>4. ASSUME NEW x \in Watch, Attach(x) \/ Leave(x) PROVE FALSE
    BY <1>3, <1>4 DEF Attach, Leave, Return
  <1>5. ASSUME NEW x \in Watch, ReturnDoneBefore(x)
        PROVE  x = w /\ s = doneBefore[x]
    BY <1>3, <1>5 DEF ReturnDoneBefore, Return
  <1>6. ASSUME NEW x \in Watch, ReadLive(x)
        PROVE  x = w /\ Head(queue[x]) \in Status /\ s = Head(queue[x])
    BY <1>3, <1>6 DEF ReadLive, Return
  <1>7. QED
    BY <1>1, <1>2, <1>4, <1>5, <1>6 DEF Next, WatchStep, ReadWatch

\* A result a watch ended with is still the one of its run, and its events the
\* whole of it.
LEMMA EndStep ==
  ASSUME LiveRunsInv, [Next]_vars, TypeOK', EntryInv', WatchInv'
  PROVE  EndIsComplete'
  <1>1. SUFFICES ASSUME NEW w \in Watch, NEW s \in Status, end'[w] = <<s>>
                 PROVE  s = result'[runOf'[w]] /\ out'[w] = collected'[runOf'[w]]
    BY DEF EndIsComplete
  <1>2. watch'[w] = "ended"
    <2>1. <<s>> # <<>>
      OBVIOUS
    <2>2. QED
      BY <1>1, <2>1 DEF WatchInv, TypeOK
  <1>3. out'[w] = out[w] /\ runOf'[w] = runOf[w]
    BY <1>2, EndedUnchanged DEF LiveRunsInv
  <1>4. CASE end[w] = <<s>>
    <2>1. s = result[runOf[w]] /\ out[w] = collected[runOf[w]]
      BY <1>4 DEF LiveRunsInv, EndIsComplete
    <2>2. runOf[w] \in Run /\ result[runOf[w]] # None
      BY <2>1 DEF LiveRunsInv, TypeOK
    <2>3. exec[runOf[w]] = "over"
      BY <2>2 DEF LiveRunsInv, EntryInv
    <2>4. /\ result'[runOf[w]] = result[runOf[w]]
          /\ collected'[runOf[w]] = collected[runOf[w]]
      BY <2>2, <2>3, OverIsFinal DEF LiveRunsInv
    <2>5. QED
      BY <1>3, <2>1, <2>4
  <1>5. CASE end[w] # <<s>>
    <2>1. \/ ReturnDoneBefore(w) /\ s = doneBefore[w]
          \/ ReadLive(w) /\ Head(queue[w]) \in Status /\ s = Head(queue[w])
      BY <1>1, <1>5, ResultGiven DEF LiveRunsInv
    <2>2. UNCHANGED <<collected, result>>
      BY <2>1 DEF ReturnDoneBefore, ReadLive, execVars
    <2>3. watch[w] = "attached" /\ replay[w] = <<>>
      BY <2>1 DEF ReturnDoneBefore, ReadLive
    <2>4. Balanced(w)
      BY <2>3 DEF LiveRunsInv, WatchInv
    <2>5. /\ out[w] \in Seq(Event) /\ queue[w] \in Seq(Event \cup Status)
          /\ collected[runOf[w]] \in Seq(Event)
          /\ result[runOf[w]] \in Status \cup {None}
      BY DEF LiveRunsInv, TypeOK
    <2>6. CASE ReturnDoneBefore(w) /\ s = doneBefore[w]
      <3>1. s = result[runOf[w]] /\ out[w] \o <<>> = collected[runOf[w]]
        BY <2>3, <2>4, <2>6 DEF Balanced, ReturnDoneBefore
      <3>2. QED
        BY <1>3, <2>2, <2>5, <3>1, ConcatEmptySeq
    <2>7. CASE ReadLive(w) /\ Head(queue[w]) \in Status /\ s = Head(queue[w])
      <3>1. queue[w] # <<>> /\ doneBefore[w] = None
        BY <2>7 DEF ReadLive
      <3>2. out[w] \o (<<>> \o queue[w])
              = IF result[runOf[w]] = None
                  THEN collected[runOf[w]]
                  ELSE Append(collected[runOf[w]], result[runOf[w]])
        BY <2>3, <2>4, <3>1 DEF Balanced, Log
      <3>3. <<>> \o queue[w] = queue[w]
        BY <2>5, ConcatEmptySeq
      <3>4. result[runOf[w]] = s /\ out[w] = collected[runOf[w]]
        <4>1. /\ result[runOf[w]] = None => out[w] \o queue[w] = collected[runOf[w]]
              /\ result[runOf[w]] # None =>
                   out[w] \o queue[w] = Append(collected[runOf[w]], result[runOf[w]])
          BY <3>2, <3>3
        <4>2. Head(queue[w]) \in Status /\ s = Head(queue[w])
          BY <2>7
        <4>3. PICK o, c \in Seq(Event), q \in Seq(Event \cup Status),
                   z \in Status \cup {None} :
                /\ o = out[w] /\ c = collected[runOf[w]]
                /\ q = queue[w] /\ z = result[runOf[w]]
          BY <2>5
        <4>4. /\ q # <<>> /\ Head(q) \in Status
              /\ z = None => o \o q = c
              /\ z # None => o \o q = Append(c, z)
          BY <3>1, <4>1, <4>2, <4>3
        <4>5. z = Head(q) /\ o = c
          BY <4>4, EndMarker
        <4>6. QED
          BY <4>2, <4>3, <4>5
      <3>5. QED
        BY <1>3, <2>2, <3>4
    <2>8. QED
      BY <2>1, <2>6, <2>7
  <1>6. QED
    BY <1>4, <1>5

----------------------------------------------------------------------------
(* Theorems.                                                               *)

\* The invariant holds in every reachable state.
THEOREM LiveRunsInvariant == Spec => []LiveRunsInv
  <1>1. LiveRunsInv /\ [Next]_vars => LiveRunsInv'
    <2>1. SUFFICES ASSUME LiveRunsInv, [Next]_vars PROVE LiveRunsInv'
      OBVIOUS
    <2>2. TypeOK' /\ EntryInv'
      BY <2>1, TypeOKStep, EntryInvStep
    <2>3. WatchInv'
      BY <2>1, <2>2, WatchInvStep
    <2>4. ExactlyOnceInOrder' /\ EndIsComplete'
      BY <2>1, <2>2, <2>3, PrefixStep, EndStep
    <2>5. QED
      BY <2>2, <2>3, <2>4 DEF LiveRunsInv
  <1>2. QED
    BY <1>1, InitLiveRunsInv, PTL DEF Spec

\* Type correctness.
THEOREM LiveRunsTypeCorrect == Spec => []TypeOK
  <1>1. LiveRunsInv => TypeOK
    BY DEF LiveRunsInv
  <1>2. QED
    BY <1>1, LiveRunsInvariant, PTL

\* Every watcher receives its run's events in order and each once: the promise of
\* live.ts:112-115, for any number of watchers, at any pace.
THEOREM LiveRunsExactlyOnce == Spec => []ExactlyOnceInOrder
  <1>1. LiveRunsInv => ExactlyOnceInOrder
    BY DEF LiveRunsInv
  <1>2. QED
    BY <1>1, LiveRunsInvariant, PTL

\* A watch that ends with a result has sent the whole run, and the result is the
\* run's.
THEOREM LiveRunsEndComplete == Spec => []EndIsComplete
  <1>1. LiveRunsInv => EndIsComplete
    BY DEF LiveRunsInv
  <1>2. QED
    BY <1>1, LiveRunsInvariant, PTL

\* Both: a watch tells its run as it was.
THEOREM LiveRunsToldAsItWas == Spec => []ToldAsItWas
  <1>1. ExactlyOnceInOrder /\ EndIsComplete => ToldAsItWas
    BY DEF ToldAsItWas
  <1>2. QED
    BY <1>1, LiveRunsExactlyOnce, LiveRunsEndComplete, PTL

----------------------------------------------------------------------------
(* What the backend does under the hook.                                   *)

\* The runs and watches move while the hook stands still, or lose its connections.
BackendStep ==
  \/ \E w \in Watch : Request(w) \/ Disconnect(w)
  \/ Backend

LEMMA BackendNext ==
  ASSUME ConsoleInv, BackendStep \/ Restart
  PROVE  /\ Next
         /\ \A w \in Watch : runOf'[w] = runOf[w]
         /\ \A w \in Watch : watch[w] # "free" => watch'[w] # "free"
         /\ \A w \in Watch : conn[w] = "unused" /\ watch[w] = "free" => watch'[w] = "free"
<1> USE DEF ConsoleInv, LiveRunsInv, TypeOK
<1>1. ASSUME NEW w \in Watch, Request(w)
      PROVE  /\ Next
             /\ \A x \in Watch : runOf'[x] = runOf[x]
             /\ \A x \in Watch : watch[x] # "free" => watch'[x] # "free"
             /\ \A x \in Watch : conn[x] = "unused" /\ watch[x] = "free" => watch'[x] = "free"
  BY <1>1 DEF Request, WatchRun, Next, WatchStep
<1>2. ASSUME NEW w \in Watch, ReadWatch(w) \/ Abort(w)
      PROVE  /\ Next
             /\ \A x \in Watch : runOf'[x] = runOf[x]
             /\ \A x \in Watch : watch[x] # "free" => watch'[x] # "free"
             /\ \A x \in Watch : watch[x] = "free" => watch'[x] = "free"
  <2>1. Next
    BY <1>2 DEF Next, WatchStep
  <2>2. /\ watch[w] # "free"
        /\ \/ UNCHANGED watch
           \/ \E s \in {"attached", "ended"} : watch' = [watch EXCEPT ![w] = s]
        /\ UNCHANGED runOf
    BY <1>2 DEF ReadWatch, Attach, YieldReplay, ReturnDoneBefore, ReadLive, Leave, Abort, Return
  <2> QED
    BY <2>1, <2>2
<1>3. ASSUME RunStep
      PROVE  Next /\ UNCHANGED <<watch, runOf>>
  BY <1>3 DEF Next, RunStep, BeginLiveRun, TaskFrame, FinishLiveRun, ForgetLiveRun, watchVars
<1>4. ASSUME Crash
      PROVE  /\ Next /\ UNCHANGED runOf
             /\ \A w \in Watch : watch'[w] = IF watch[w] = "free" THEN "free" ELSE "ended"
  BY <1>4 DEF Next, Crash
<1> QED
  BY <1>1, <1>2, <1>3, <1>4 DEF BackendStep, Disconnect, Backend, Restart

\* What is on screen stays a prefix of the run, and a result stays.
LEMMA RunGrows ==
  ASSUME TypeOK, EntryInv, [Next]_vars, NEW r \in Run
  PROVE  /\ \A s \in Seq(Event) : Prefix(s, collected[r]) => Prefix(s, collected'[r])
         /\ result[r] # None => result'[r] = result[r] /\ collected'[r] = collected[r]
<1>1. result[r] # None => exec[r] = "over"
  BY DEF EntryInv
<1>2. CASE collected'[r] = collected[r]
  BY <1>1, <1>2, OverIsFinal
<1>3. ASSUME NEW e \in Event, collected'[r] = Append(collected[r], e)
      PROVE  \A s \in Seq(Event) : Prefix(s, collected[r]) => Prefix(s, collected'[r])
  <2>1. collected[r] \in Seq(Event)
    BY DEF TypeOK
  <2> QED
    BY <1>3, <2>1, AppendProperties, LenProperties DEF Prefix
<1> QED
  BY <1>1, <1>2, <1>3, CollectedGrows, OverIsFinal

LEMMA LiveStep ==
  ASSUME LiveRunsInv, [Next]_vars
  PROVE  LiveRunsInv'
<1>1. TypeOK' /\ EntryInv'
  BY TypeOKStep, EntryInvStep
<1>2. WatchInv'
  BY <1>1, WatchInvStep
<1> QED
  BY <1>1, <1>2, PrefixStep, EndStep DEF LiveRunsInv

\* A screen, and a finished console, through a step of the backend.
LEMMA ScreenKept ==
  ASSUME ConsoleInv, [Next]_vars, UNCHANGED <<watching, phase, screen, shownResult, shown>>
  PROVE  ScreenInv'
<1> USE DEF ConsoleInv, ConsoleTypeOK
<1>1. CASE watching = <<>>
  BY <1>1 DEF ScreenInv, DoneIsComplete
<1>2. CASE watching # <<>>
  <2>1. watching[1] \in Run /\ screen \in Seq(Event)
    BY <1>2
  <2>2. /\ Prefix(screen, collected[watching[1]]) => Prefix(screen, collected'[watching[1]])
        /\ result[watching[1]] # None =>
             /\ result'[watching[1]] = result[watching[1]]
             /\ collected'[watching[1]] = collected[watching[1]]
    BY <2>1, RunGrows DEF LiveRunsInv
  <2> QED
    BY <1>2, <2>2 DEF ScreenInv, DoneIsComplete
<1> QED
  BY <1>1, <1>2

\* No attach became silent.
LEMMA SilentKept ==
  ASSUME UNCHANGED <<generation, retry, current, attempt, phase, genOf>>,
         \A w \in Watch : /\ conn[w] = "over" <=> conn'[w] = "over"
                          /\ conn[w] = "over" => answered'[w] = answered[w],
         SilentInv
  PROVE  SilentInv'
<1>1. \A g : Silent(g)' = Silent(g)
  BY DEF Silent
<1> QED
  BY <1>1 DEF SilentInv

LEMMA BackendInv == ASSUME ConsoleInv, BackendStep PROVE ConsoleInv'
<1>1. UNCHANGED consoleVars
  BY DEF BackendStep, Request, Disconnect, Backend
<1>2. /\ Next
      /\ \A w \in Watch : runOf'[w] = runOf[w]
      /\ \A w \in Watch : watch[w] # "free" => watch'[w] # "free"
      /\ \A w \in Watch : conn[w] = "unused" /\ watch[w] = "free" => watch'[w] = "free"
  BY BackendNext
<1>3. LiveRunsInv'
  BY <1>2, LiveStep DEF ConsoleInv
<1>4. ConsoleTypeOK'
  BY <1>1 DEF ConsoleInv, ConsoleTypeOK, consoleVars, hookVars, streamVars
<1>5. StreamInv'
  BY <1>1, <1>2 DEF ConsoleInv, StreamInv, consoleVars, hookVars, streamVars
<1>6. ScreenInv'
  BY <1>1, <1>2, ScreenKept DEF consoleVars, hookVars
<1>7. SilentInv'
  BY <1>1, SilentKept DEF ConsoleInv, consoleVars, hookVars, streamVars
<1> QED
  BY <1>3, <1>4, <1>5, <1>6, <1>7 DEF ConsoleInv

\* A connection is lost or refused, or all are.
LEMMA LostInv ==
  ASSUME ConsoleInv, \/ \E w \in Watch : Drop(w) \/ Refuse(w)
                     \/ Restart
  PROVE  ConsoleInv'
<1>1. /\ UNCHANGED <<hookVars, shown, attempt, genOf, answered, received>>
      /\ drops' \in Nat
  BY DEF Drop, Refuse, Restart, ConsoleInv, ConsoleTypeOK
<1>2. /\ [Next]_vars
      /\ \A w \in Watch : runOf'[w] = runOf[w]
      /\ \A w \in Watch : watch[w] # "free" => watch'[w] # "free"
      /\ \A w \in Watch : conn[w] = "unused" /\ watch[w] = "free" => watch'[w] = "free"
  <2>1. CASE Restart
    BY <2>1, BackendNext
  <2>2. CASE \E w \in Watch : Drop(w) \/ Refuse(w)
    BY <2>2 DEF Drop, Refuse, vars, watchVars
  <2> QED
    BY <2>1, <2>2
<1>3. /\ conn' \in [Watch -> {"unused", "open", "closed", "lost", "refused", "over"}]
      /\ \A w \in Watch :
           \/ conn'[w] = conn[w]
           \/ conn[w] = "open" /\ conn'[w] = "lost"
           \/ conn[w] = "open" /\ conn'[w] = "refused" /\ watch[w] = "free" /\ MayRefuse
  BY DEF Drop, Refuse, Restart, ConsoleInv, ConsoleTypeOK
<1>4. LiveRunsInv'
  BY <1>2, LiveStep DEF ConsoleInv
<1>5. ConsoleTypeOK'
  BY <1>1, <1>3 DEF ConsoleInv, ConsoleTypeOK, hookVars
<1>6. StreamInv'
  BY <1>1, <1>2, <1>3 DEF ConsoleInv, StreamInv, hookVars
<1>7. ScreenInv'
  BY <1>1, <1>2, ScreenKept DEF hookVars
<1>8. SilentInv'
  BY <1>1, <1>3, SilentKept DEF ConsoleInv, hookVars
<1> QED
  BY <1>4, <1>5, <1>6, <1>7, <1>8 DEF ConsoleInv

----------------------------------------------------------------------------
(* The callbacks.                                                          *)

LEMMA VarsKept == ASSUME ConsoleInv, UNCHANGED vars PROVE LiveRunsInv'
BY LiveStep DEF ConsoleInv

LEMMA AnswerInv == ASSUME ConsoleInv, NEW w \in Watch, Answer(w) PROVE ConsoleInv'
<1>1. /\ UNCHANGED <<vars, hookVars, shown, conn, genOf, received, drops>>
      /\ answered' = [answered EXCEPT ![w] = TRUE] /\ watch[w] # "free"
      /\ conn[w] \in {"open", "closed", "lost"}
      /\ attempt' = IF genOf[w] = generation THEN 0 ELSE attempt
  BY DEF Answer, AttemptOnAnswer, IsCurrent
<1>2. LiveRunsInv'
  BY <1>1, VarsKept
<1>3. ConsoleTypeOK'
  BY <1>1 DEF ConsoleInv, ConsoleTypeOK, hookVars
<1>4. StreamInv'
  BY <1>1 DEF ConsoleInv, ConsoleTypeOK, StreamInv, hookVars, vars, watchVars
<1>5. ScreenInv'
  BY <1>1, ScreenKept DEF hookVars
<1>6. SilentInv'
  <2>1. \A g : Silent(g)' = Silent(g)
    BY <1>1 DEF Silent, ConsoleInv, ConsoleTypeOK
  <2>2. \A n \in Nat : n + 1 >= 0
    OBVIOUS
  <2>3. /\ retry' = retry /\ current' = current /\ generation' = generation
        /\ phase' = phase /\ attempt' \in {0, attempt}
    BY <1>1 DEF hookVars
  <2>4. IsFiniteSet(Silent(generation)) => Cardinality(Silent(generation)) \in Nat
    BY FS_CardinalityType
  <2> QED
    BY <2>1, <2>2, <2>3, <2>4 DEF ConsoleInv, SilentInv
<1> QED
  BY <1>2, <1>3, <1>4, <1>5, <1>6 DEF ConsoleInv

LEMMA OnEventInv == ASSUME ConsoleInv, NEW w \in Watch, OnEvent(w) PROVE ConsoleInv'
<1> DEFINE n == received[w] + 1
<1>1. /\ UNCHANGED <<vars, watching, phase, shownResult, retry, current, generation,
                     attempt, conn, genOf, answered, drops>>
      /\ received' = [received EXCEPT ![w] = n]
      /\ conn[w] \in {"open", "closed", "lost"} /\ received[w] < Len(out[w])
      /\ received[w] \in Nat /\ received'[w] = n /\ n \in Nat
  BY DEF OnEvent, ConsoleInv, ConsoleTypeOK
<1>2. CASE UNCHANGED <<shown, screen>> /\ (genOf[w] = generation => n <= shown)
  <2>1. LiveRunsInv'
    BY <1>1, VarsKept
  <2>2. ConsoleTypeOK'
    BY <1>1, <1>2 DEF ConsoleInv, ConsoleTypeOK
  <2>3. StreamInv'
    BY <1>1, <1>2 DEF ConsoleInv, ConsoleTypeOK, StreamInv, vars, watchVars
  <2>4. ScreenInv'
    BY <1>1, <1>2, ScreenKept
  <2>5. SilentInv'
    BY <1>1, SilentKept DEF ConsoleInv
  <2> QED
    BY <2>1, <2>2, <2>3, <2>4, <2>5 DEF ConsoleInv
<1>3. CASE genOf[w] = generation /\ ~(n <= shown) /\ shown' = n
           /\ screen' = Append(screen, out[w][n])
  <2>1. /\ shown \in Nat /\ n = shown + 1 /\ watching = <<runOf[w]>> /\ runOf[w] \in Run
        /\ generation \in Nat
    BY <1>1, <1>3 DEF ConsoleInv, ConsoleTypeOK, StreamInv, LiveRunsInv, TypeOK
  <2>2. /\ out[w] \in Seq(Event) /\ collected[runOf[w]] \in Seq(Event)
        /\ screen \in Seq(Event) /\ Len(screen) = shown
        /\ Prefix(screen, collected[runOf[w]]) /\ Prefix(out[w], collected[runOf[w]])
    BY <2>1 DEF ConsoleInv, ConsoleTypeOK, LiveRunsInv, TypeOK, ExactlyOnceInOrder, ScreenInv
  <2>3. n \in 1 .. Len(out[w]) /\ out[w][n] \in Event
    BY <1>1, <2>2
  <2>4. LiveRunsInv'
    BY <1>1, VarsKept
  <2>5. screen' \in Seq(Event) /\ Len(screen') = n
    BY <1>3, <2>1, <2>2, <2>3, AppendProperties
  <2>6. ConsoleTypeOK'
    BY <1>1, <1>3, <2>5 DEF ConsoleInv, ConsoleTypeOK
  <2>7. \A x \in Watch : received[x] <= shown => received'[x] <= shown'
    BY <1>1, <1>3, <2>1 DEF ConsoleInv, ConsoleTypeOK
  <2>8. StreamInv'
    BY <1>1, <1>3, <2>7 DEF ConsoleInv, ConsoleTypeOK, StreamInv, vars, watchVars
  <2>9. Prefix(screen', collected[runOf[w]])
    <3>1. out[w][n] = collected[runOf[w]][n] /\ n <= Len(collected[runOf[w]])
      BY <2>2, <2>3 DEF Prefix
    <3>2. \A i \in 1 .. n : screen'[i] = IF i = n THEN out[w][n] ELSE screen[i]
      BY <1>3, <2>1, <2>2, <2>3, AppendProperties
    <3> QED
      BY <2>1, <2>2, <2>5, <3>1, <3>2 DEF Prefix
  <2>10. phase # "done"
    <3>1. phase = "done" => screen = collected[runOf[w]]
      BY <2>1 DEF ConsoleInv, ScreenInv, DoneIsComplete
    <3>2. n <= Len(collected[runOf[w]])
      BY <2>2, <2>3 DEF Prefix
    <3> QED
      BY <2>1, <2>2, <3>1, <3>2
  <2>11. ScreenInv'
    BY <1>1, <1>3, <2>1, <2>5, <2>9, <2>10 DEF ScreenInv, vars, execVars
  <2>12. SilentInv'
    BY <1>1, SilentKept DEF ConsoleInv
  <2> QED
    BY <2>4, <2>6, <2>8, <2>11, <2>12 DEF ConsoleInv
<1> QED
  BY <1>1, <1>2, <1>3 DEF OnEvent, IsCurrent, IsReplay

LEMMA OnSuccessInv == ASSUME ConsoleInv, NEW w \in Watch, OnSuccess(w) PROVE ConsoleInv'
<1>1. /\ UNCHANGED <<vars, watching, screen, retry, generation, shown, attempt, genOf,
                     answered, received, drops>>
      /\ conn' = [conn EXCEPT ![w] = "over"] /\ answered[w]
      /\ conn[w] \in {"open", "closed"} /\ received[w] = Len(out[w]) /\ end[w] # <<>>
  BY DEF OnSuccess
<1>2. LiveRunsInv'
  BY <1>1, VarsKept
<1>3. conn' \in [Watch -> {"unused", "open", "closed", "lost", "refused", "over"}]
  BY <1>1 DEF ConsoleInv, ConsoleTypeOK
<1>4. \A g : Silent(g)' = Silent(g)
  BY <1>1 DEF Silent, ConsoleInv, ConsoleTypeOK
<1>5. CASE genOf[w] # generation
  <2>1. UNCHANGED <<current, shownResult, phase>>
    BY <1>5 DEF OnSuccess, IsCurrent
  <2>2. StreamInv'
    BY <1>1, <1>5, <2>1 DEF ConsoleInv, ConsoleTypeOK, StreamInv, vars, watchVars
  <2>3. ScreenInv'
    BY <1>1, <2>1, ScreenKept
  <2>4. SilentInv'
    BY <1>1, <1>4, <2>1 DEF ConsoleInv, SilentInv
  <2> QED
    BY <1>1, <1>2, <1>3, <2>1, <2>2, <2>3, <2>4 DEF ConsoleInv, ConsoleTypeOK
<1>6. CASE genOf[w] = generation
  <2> DEFINE v == end[w][1]
             r == runOf[w]
  <2>1. /\ current' = <<>> /\ phase' = (IF v = None THEN "idle" ELSE "done")
        /\ shownResult' = IF v = None THEN shownResult ELSE v
    BY <1>6 DEF OnSuccess, IsCurrent, PhaseAtEnd
  <2>2. /\ current = <<w>> /\ ~retry /\ watching = <<r>> /\ r \in Run
        /\ received[w] <= shown
    BY <1>1, <1>6 DEF ConsoleInv, StreamInv, ConsoleTypeOK, LiveRunsInv, TypeOK
  <2>3. v \in Status \cup {None}
    BY <1>1 DEF ConsoleInv, LiveRunsInv, TypeOK, Ending
  <2>4. ConsoleTypeOK'
    BY <1>1, <1>3, <2>1, <2>3 DEF ConsoleInv, ConsoleTypeOK
  <2>5. StreamInv'
    <3>1. \A x \in Watch \ {w} :
            ~(conn[x] \in {"open", "lost", "refused"} /\ genOf[x] = generation)
      BY <2>2 DEF ConsoleInv, StreamInv
    <3>2. \A x \in Watch : conn'[x] = IF x = w THEN "over" ELSE conn[x]
      BY <1>1 DEF ConsoleInv, ConsoleTypeOK
    <3> QED
      BY <1>1, <1>6, <2>1, <2>2, <3>1, <3>2
         DEF ConsoleInv, ConsoleTypeOK, StreamInv, vars, watchVars
  <2>6. ASSUME v # None
        PROVE  /\ v = result[r] /\ screen = collected[r]
    <3>1. end[w] = <<v>> /\ v \in Status
      <4>1. end[w] \in Ending
        BY DEF ConsoleInv, LiveRunsInv, TypeOK
      <4> QED
        BY <1>1, <2>3, <2>6, <4>1 DEF Ending
    <3>2. v = result[r] /\ out[w] = collected[r]
      BY <3>1 DEF ConsoleInv, LiveRunsInv, EndIsComplete
    <3>3. /\ Len(screen) = shown /\ Prefix(screen, collected[r]) /\ shown \in Nat
          /\ screen \in Seq(Event) /\ collected[r] \in Seq(Event)
      BY <2>2 DEF ConsoleInv, ConsoleTypeOK, ScreenInv, LiveRunsInv, TypeOK
    <3>4. Len(screen) = Len(collected[r])
      BY <1>1, <2>2, <3>2, <3>3 DEF Prefix
    <3> QED
      BY <3>2, <3>3, <3>4 DEF Prefix
  <2>7. ScreenInv'
    <3>1. v # None => DoneIsComplete' /\ result'[watching'[1]] # None
      BY <1>1, <2>1, <2>2, <2>6 DEF DoneIsComplete, vars, execVars
    <3>2. phase' = "done" => v # None
      BY <2>1
    <3> QED
      BY <1>1, <3>1, <3>2 DEF ConsoleInv, ScreenInv, vars, execVars
  <2>8. SilentInv'
    BY <1>1, <1>4, <2>1, <2>2 DEF SilentInv
  <2> QED
    BY <1>2, <2>4, <2>5, <2>7, <2>8 DEF ConsoleInv
<1> QED
  BY <1>5, <1>6

\* The attaches of a generation that went unanswered, when one more fails.
LEMMA SilentGrows ==
  ASSUME NEW w \in Watch, NEW g, conn[w] # "over", UNCHANGED <<genOf, answered>>,
         \A x \in Watch : conn'[x] = IF x = w THEN "over" ELSE conn[x],
         IsFiniteSet(Silent(g))
  PROVE  /\ IsFiniteSet(Silent(g)')
         /\ Cardinality(Silent(g)) \in Nat /\ Cardinality(Silent(g)') \in Nat
         /\ IF genOf[w] = g /\ ~answered[w]
              THEN /\ w \in Silent(g)'
                   /\ Cardinality(Silent(g)') = Cardinality(Silent(g)) + 1
              ELSE Silent(g)' = Silent(g)
<1> DEFINE S == Silent(g)
           T == Silent(g)'
<1>1. T = IF genOf[w] = g /\ ~answered[w] THEN S \cup {w} ELSE S
  BY DEF Silent
<1>2. w \notin S /\ IsFiniteSet(S)
  BY DEF Silent
<1> HIDE DEF S, T
<1>3. /\ IsFiniteSet(S \cup {w}) /\ Cardinality(S) \in Nat
      /\ Cardinality(S \cup {w}) = Cardinality(S) + 1
  BY <1>2, FS_AddElement, FS_CardinalityType
<1>4. /\ IsFiniteSet(T) /\ Cardinality(S) \in Nat /\ Cardinality(T) \in Nat
      /\ IF genOf[w] = g /\ ~answered[w]
           THEN w \in T /\ Cardinality(T) = Cardinality(S) + 1
           ELSE T = S
  BY <1>1, <1>2, <1>3, FS_CardinalityType
<1> QED
  BY <1>4 DEF S, T

\* A hook that has given up keeps its reason.
GaveUp(g) ==
  /\ IsFiniteSet(Silent(g)) /\ Silent(g) # {}
  /\ MayRefuse \/ Cardinality(Silent(g)) >= MaxAttempts

LEMMA OnErrorInv == ASSUME ConsoleInv, NEW w \in Watch, OnError(w) PROVE ConsoleInv'
<1>1. /\ UNCHANGED <<vars, watching, screen, shownResult, generation, shown, genOf,
                     answered, received, drops>>
      /\ conn[w] \in {"lost", "refused"}
      /\ \A x \in Watch : conn'[x] = IF x = w THEN "over" ELSE conn[x]
      /\ conn' \in [Watch -> {"unused", "open", "closed", "lost", "refused", "over"}]
  BY DEF OnError, ConsoleInv, ConsoleTypeOK
<1>2. LiveRunsInv'
  BY <1>1, VarsKept
<1>3. /\ MaxAttempts \in Nat /\ MaxAttempts # 0
      /\ generation \in Nat /\ attempt \in Nat
  BY RunConsoleAssumption DEF ConsoleInv, ConsoleTypeOK
<1>4. ASSUME NEW g \in 1 .. generation, GaveUp(g) PROVE GaveUp(g)'
  <2> DEFINE c == Cardinality(Silent(g))
             d == Cardinality(Silent(g)')
  <2>1. IsFiniteSet(Silent(g)') /\ Silent(g)' # {} /\ c \in Nat /\ d \in Nat /\ (d = c \/ d = c + 1)
    BY <1>1, <1>4, SilentGrows DEF GaveUp
  <2>2. MayRefuse \/ c >= MaxAttempts
    BY <1>4 DEF GaveUp
  <2> HIDE DEF c, d
  <2>3. MayRefuse \/ d >= MaxAttempts
    BY <1>3, <2>1, <2>2
  <2> QED
    BY <2>1, <2>3 DEF GaveUp, d
<1>5. phase = "error" => \E g \in 1 .. generation' : GaveUp(g)'
  <2>1. phase = "error" => \E g \in 1 .. generation : GaveUp(g)
    BY DEF ConsoleInv, SilentInv, GaveUp
  <2> QED
    BY <1>1, <1>4, <2>1
<1>6. CASE genOf[w] # generation
  <2>1. UNCHANGED <<current, attempt, retry, phase>>
    BY <1>6 DEF OnError, IsCurrent
  <2>2. ConsoleTypeOK'
    BY <1>1, <2>1 DEF ConsoleInv, ConsoleTypeOK
  <2>3. StreamInv'
    BY <1>1, <1>6, <2>1 DEF ConsoleInv, StreamInv, vars, watchVars
  <2>4. ScreenInv'
    BY <1>1, <2>1, ScreenKept
  <2>5. Silent(generation)' = Silent(generation)
    BY <1>1, <1>6 DEF Silent
  <2>6. SilentInv'
    BY <1>1, <1>5, <2>1, <2>5 DEF ConsoleInv, SilentInv, GaveUp
  <2> QED
    BY <1>2, <2>2, <2>3, <2>4, <2>6 DEF ConsoleInv
<1>7. CASE genOf[w] = generation
  <2> DEFINE S == Silent(generation)
             T == Silent(generation)'
  <2>1. current = <<w>> /\ ~retry /\ watching # <<>> /\ generation \in 1 .. generation
    <3>1. current = <<w>> /\ ~retry /\ watching # <<>> /\ generation >= 1
      BY <1>1, <1>7 DEF ConsoleInv, StreamInv
    <3> QED
      BY <1>3, <3>1
  <2>2. IsFiniteSet(S) /\ Cardinality(S) + 1 >= attempt
    BY <2>1 DEF ConsoleInv, SilentInv
  <2>3. answered[w] => conn[w] = "lost" /\ attempt = 0
    BY <1>1, <1>7 DEF ConsoleInv, StreamInv
  <2>4. conn[w] = "refused" => ~answered[w] /\ MayRefuse
    BY DEF ConsoleInv, StreamInv
  <2>5. /\ current' = <<>>
        /\ \/ conn[w] = "lost" /\ attempt' = attempt + 1 /\ retry' = TRUE /\ UNCHANGED phase
           \/ /\ phase' = "error" /\ UNCHANGED <<attempt, retry>>
              /\ conn[w] = "refused" \/ ~(attempt < MaxAttempts)
    BY <1>1, <1>7 DEF OnError, IsCurrent
  <2>6. /\ attempt' \in Nat
        /\ retry' \in BOOLEAN
        /\ phase' \in {"idle", "running", "done", "error", "cancelled"}
    <3>1. attempt' \in Nat
      BY <1>3, <2>5
    <3>2. retry' = TRUE \/ retry' = retry
      BY <2>5
    <3>3. retry \in BOOLEAN /\ phase \in {"idle", "running", "done", "error", "cancelled"}
      BY DEF ConsoleInv, ConsoleTypeOK
    <3>4. phase' = phase \/ phase' = "error"
      BY <2>5
    <3>5. phase' \in {"idle", "running", "done", "error", "cancelled"}
      BY <3>3, <3>4
    <3> QED
      BY <3>1, <3>2, <3>3, <3>5
  <2>7. ConsoleTypeOK'
    <3>1. current' \in {<<>>} \cup {<<x>> : x \in Watch}
      BY <2>5
    <3> QED
      BY <1>1, <2>6, <3>1 DEF ConsoleInv, ConsoleTypeOK
  <2>8. StreamInv'
    <3>1. \A x \in Watch \ {w} :
            ~(conn[x] \in {"open", "lost", "refused"} /\ genOf[x] = generation)
      BY <2>1 DEF ConsoleInv, ConsoleTypeOK, StreamInv
    <3>2. retry' => current' = <<>> /\ watching' # <<>>
      BY <1>1, <2>1, <2>5
    <3>3. \A x \in Watch : conn'[x] \in {"open", "lost", "refused"} => genOf[x] # generation
      BY <1>1, <3>1
    <3>4. current' = <<>> /\ \A x \in Watch : <<x>> # <<>>
      BY <2>5
    <3> QED
      BY <1>1, <1>7, <2>1, <3>2, <3>3, <3>4 DEF ConsoleInv, StreamInv, vars, watchVars
  <2>9. ScreenInv'
    <3>1. phase' = "done" => phase = "done"
      BY <2>5
    <3> QED
      BY <1>1, <2>1, <3>1 DEF ConsoleInv, ScreenInv, DoneIsComplete, vars, execVars
  <2>10. /\ IsFiniteSet(T) /\ Cardinality(S) \in Nat /\ Cardinality(T) \in Nat
         /\ answered[w] => T = S
         /\ ~answered[w] => w \in T /\ Cardinality(T) = Cardinality(S) + 1
    BY <1>1, <1>7, <2>2, SilentGrows
  <2>11. generation' = generation /\ Silent(generation)' = T
    BY <1>1
  <2> HIDE DEF S, T
  <2> DEFINE c == Cardinality(S)
             d == Cardinality(T)
  <2>12. c \in Nat /\ d \in Nat /\ c + 1 >= attempt /\ (answered[w] => d = c)
         /\ (~answered[w] => d = c + 1)
    BY <2>2, <2>10
  <2> HIDE DEF c, d
  <2>13. d + 1 >= attempt'
    BY <1>3, <2>3, <2>5, <2>12
  <2>14. ASSUME phase' # phase, phase' = "error" PROVE T # {} /\ (MayRefuse \/ d >= MaxAttempts)
    <3>1. conn[w] = "refused" \/ ~(attempt < MaxAttempts)
      BY <2>5, <2>14
    <3>2. ~answered[w]
      BY <1>3, <2>3, <2>4, <3>1
    <3>3. MayRefuse \/ d >= MaxAttempts
      BY <1>3, <2>4, <2>12, <3>1, <3>2
    <3> QED
      BY <2>10, <3>2, <3>3
  <2>15. phase' = "error" => \E g \in 1 .. generation' : GaveUp(g)'
    <3>1. ASSUME phase' # phase, phase' = "error" PROVE GaveUp(generation)'
      BY <2>10, <2>11, <2>14, <3>1 DEF GaveUp, T, d
    <3>2. phase' = phase \/ (phase' # phase /\ phase' = "error")
      BY <2>5
    <3> QED
      BY <1>1, <1>5, <2>1, <3>1, <3>2
  <2>16. SilentInv'
    BY <2>10, <2>11, <2>13, <2>15 DEF SilentInv, GaveUp, T, d
  <2> QED
    BY <1>2, <2>7, <2>8, <2>9, <2>16 DEF ConsoleInv
<1> QED
  BY <1>6, <1>7

----------------------------------------------------------------------------
(* The hook's moves.                                                       *)

\* A watch that has not been called yet has no part in the registry's invariant.
LEMMA FreeRunOf ==
  ASSUME LiveRunsInv, NEW w \in Watch, NEW r \in Run, watch[w] = "free",
         runOf' = [runOf EXCEPT ![w] = r],
         UNCHANGED <<execVars, liveVars, watch, replay, doneBefore, queue, aborted, out,
                     end, crashes>>
  PROVE  LiveRunsInv'
<1>1. /\ UNCHANGED <<exec, collected, result, entry, events, watch, replay, doneBefore,
                     queue, aborted, out, end, crashes>>
      /\ out[w] = <<>> /\ end[w] = <<>>
      /\ \A x \in Watch : runOf'[x] = IF x = w THEN r ELSE runOf[x]
      /\ runOf' \in [Watch -> Run]
  BY DEF execVars, liveVars, LiveRunsInv, TypeOK, WatchInv
<1>2. TypeOK' /\ EntryInv'
  BY <1>1 DEF LiveRunsInv, TypeOK, EntryInv
<1>3. \A x \in Watch \ {w} : Balanced(x)' <=> Balanced(x)
  BY <1>1 DEF Balanced, Log
<1>4. WatchInv'
  BY <1>1, <1>3 DEF LiveRunsInv, WatchInv
<1>5. ExactlyOnceInOrder'
  BY <1>1 DEF LiveRunsInv, ExactlyOnceInOrder, Prefix
<1>6. EndIsComplete'
  BY <1>1 DEF LiveRunsInv, EndIsComplete
<1> QED
  BY <1>2, <1>4, <1>5, <1>6 DEF LiveRunsInv

\* A new stream: what is known of it, and of the others.
LEMMA AttachFacts ==
  ASSUME ConsoleInv, NEW w \in Watch, NEW r \in Run, NEW g \in Nat, Attach1(w, r, g),
         UNCHANGED <<execVars, liveVars, watch, replay, doneBefore, queue, aborted, out,
                     end, crashes, answered, received>>
  PROVE  /\ LiveRunsInv'
         /\ conn' \in [Watch -> {"unused", "open", "closed", "lost", "refused", "over"}]
         /\ genOf' \in [Watch -> Nat]
         /\ conn'[w] = "open" /\ genOf'[w] = g /\ runOf'[w] = r /\ current' = <<w>>
         /\ watch[w] = "free" /\ received[w] = 0 /\ ~answered[w] /\ conn[w] = "unused"
         /\ \A x \in Watch \ {w} :
              /\ genOf'[x] = genOf[x] /\ runOf'[x] = runOf[x]
              /\ conn'[x] = IF current = <<x>> THEN "closed" ELSE conn[x]
         /\ \A x \in Watch : conn'[x] = "over" <=> conn[x] = "over"
<1> USE DEF ConsoleInv, ConsoleTypeOK
<1>1. conn[w] = "unused" /\ watch[w] = "free" /\ received[w] = 0 /\ ~answered[w]
  BY DEF Attach1, StreamInv
<1>2. /\ conn' = [x \in Watch |-> IF x = w THEN "open"
                                  ELSE IF current = <<x>> THEN "closed" ELSE conn[x]]
      /\ runOf' = [runOf EXCEPT ![w] = r]
      /\ genOf' = [genOf EXCEPT ![w] = g] /\ current' = <<w>>
  BY DEF Attach1, Closes
<1>3. LiveRunsInv'
  BY <1>1, <1>2, FreeRunOf
<1>4. \A x \in Watch : current = <<x>> => conn[x] # "over"
  BY DEF StreamInv
<1>5. runOf \in [Watch -> Run]
  BY DEF LiveRunsInv, TypeOK
<1> QED
  BY <1>1, <1>2, <1>3, <1>4, <1>5

LEMMA StartInv == ASSUME ConsoleInv, NEW r \in Run, Start(r) PROVE ConsoleInv'
<1> DEFINE g == generation + 1
<1>1. PICK w \in Watch : Attach1(w, r, g)
  BY DEF Start, Detach
<1>2. /\ generation' = g /\ retry' = FALSE /\ watching' = <<r>> /\ screen' = <<>>
      /\ shownResult' = None /\ phase' = "running" /\ shown' = 0 /\ attempt' = 0
      /\ UNCHANGED <<execVars, liveVars, watch, replay, doneBefore, queue, aborted, out,
                     end, crashes, answered, received, drops>>
      /\ generation \in Nat /\ g \in Nat
  BY DEF Start, Detach, RetryAfterDetach, ConsoleInv, ConsoleTypeOK
<1>3. /\ LiveRunsInv'
      /\ conn' \in [Watch -> {"unused", "open", "closed", "lost", "refused", "over"}]
      /\ genOf' \in [Watch -> Nat]
      /\ conn'[w] = "open" /\ genOf'[w] = g /\ runOf'[w] = r /\ current' = <<w>>
      /\ watch[w] = "free" /\ received[w] = 0 /\ ~answered[w] /\ conn[w] = "unused"
      /\ \A x \in Watch \ {w} :
           /\ genOf'[x] = genOf[x] /\ runOf'[x] = runOf[x]
           /\ conn'[x] = IF current = <<x>> THEN "closed" ELSE conn[x]
  BY <1>1, <1>2, AttachFacts
<1>4. ConsoleTypeOK'
  BY <1>2, <1>3, EmptySeq DEF ConsoleInv, ConsoleTypeOK
<1>5. StreamInv'
  <2>1. \A x \in Watch \ {w} : genOf'[x] <= generation /\ genOf'[x] < g
    BY <1>2, <1>3 DEF ConsoleInv, ConsoleTypeOK, StreamInv
  <2>2. \A x \in Watch \ {w} : conn'[x] # "open"
    BY <1>3 DEF ConsoleInv, StreamInv
  <2> QED
    BY <1>2, <1>3, <2>1, <2>2 DEF ConsoleInv, ConsoleTypeOK, StreamInv
<1>6. ScreenInv'
  BY <1>2, EmptySeq DEF ScreenInv, Prefix, DoneIsComplete
<1>7. SilentInv'
  <2>1. Silent(generation)' = {}
    <3>1. \A x \in Watch \ {w} : genOf'[x] # generation'
      BY <1>2, <1>3 DEF ConsoleInv, ConsoleTypeOK, StreamInv
    <3> QED
      BY <1>3, <3>1 DEF Silent
  <2>2. Cardinality(Silent(generation)') = 0 /\ IsFiniteSet(Silent(generation)')
    BY <2>1, FS_EmptySet
  <2>3. IsFiniteSet(Silent(generation)') /\ Cardinality(Silent(generation)') + 1 >= attempt'
    BY <1>2, <2>2
  <2>4. phase' # "error"
    BY <1>2
  <2> QED
    BY <2>3, <2>4 DEF SilentInv
<1> QED
  BY <1>3, <1>4, <1>5, <1>6, <1>7 DEF ConsoleInv

\* The hook leaves its stream, on Stop or Reset.
LEMMA LeaveInv ==
  ASSUME ConsoleInv, StopWatching \/ Reset
  PROVE  ConsoleInv'
<1>1. /\ generation' = generation + 1 /\ retry' = FALSE /\ current' = <<>>
      /\ conn' = [x \in Watch |-> IF current = <<x>> THEN "closed" ELSE conn[x]]
      /\ UNCHANGED <<vars, shown, attempt, genOf, answered, received, drops>>
      /\ generation \in Nat
  BY DEF StopWatching, Reset, Detach, RetryAfterDetach, CloseCurrent, Closes, ConsoleInv,
         ConsoleTypeOK
<1>2. \/ /\ UNCHANGED <<watching, screen, shownResult>> /\ watching # <<>>
         /\ phase' = phase \/ phase' = "cancelled"
      \/ watching' = <<>> /\ phase' = "idle" /\ screen' = <<>> /\ shownResult' = None
  BY DEF StopWatching, Reset
<1>3. LiveRunsInv'
  BY <1>1, VarsKept
<1>4. ConsoleTypeOK'
  <2>1. /\ phase' \in {"idle", "running", "done", "error", "cancelled"}
        /\ screen' \in Seq(Event) /\ shownResult' \in Status \cup {None}
        /\ watching' \in {<<>>} \cup {<<r>> : r \in Run}
    BY <1>2, EmptySeq DEF ConsoleInv, ConsoleTypeOK
  <2>2. conn' \in [Watch -> {"unused", "open", "closed", "lost", "refused", "over"}]
    BY <1>1 DEF ConsoleInv, ConsoleTypeOK
  <2>3. generation' \in Nat
    BY <1>1
  <2>4. retry' \in BOOLEAN
    BY <1>1
  <2>5. current' \in {<<>>} \cup {<<x>> : x \in Watch}
    BY <1>1
  <2> QED
    BY <1>1, <2>1, <2>2, <2>3, <2>4, <2>5 DEF ConsoleInv, ConsoleTypeOK
<1>5. StreamInv'
  <2>1. \A x \in Watch : genOf[x] <= generation /\ genOf[x] < generation + 1
    BY <1>1 DEF ConsoleInv, ConsoleTypeOK, StreamInv
  <2>2. \A x \in Watch : conn'[x] # "open"
    BY <1>1 DEF ConsoleInv, StreamInv
  <2>3. \A x \in Watch : conn'[x] # "closed" => conn'[x] = conn[x]
    BY <1>1
  <2>4. \A x \in Watch : conn'[x] = "unused" => conn[x] = "unused"
    BY <2>3
  <2>5. watching' # <<>> => generation' >= 1
    BY <1>1
  <2>6. \A x \in Watch : genOf'[x] <= generation' /\ genOf'[x] # generation' /\ genOf'[x] < generation'
    BY <1>1, <2>1 DEF ConsoleInv, ConsoleTypeOK
  <2> QED
    BY <1>1, <2>2, <2>3, <2>4, <2>5, <2>6 DEF ConsoleInv, StreamInv, vars, watchVars
<1>6. ScreenInv'
  <2>1. phase' = "done" => phase = "done" /\ UNCHANGED <<watching, screen, shownResult>>
    BY <1>2
  <2>2. watching' # <<>> => UNCHANGED <<watching, screen>>
    BY <1>2
  <2> QED
    BY <1>1, <2>1, <2>2 DEF ConsoleInv, ScreenInv, DoneIsComplete, vars, execVars
<1>7. SilentInv'
  <2>1. \A g \in Nat : Silent(g)' = Silent(g)
    <3>1. \A x \in Watch : conn'[x] = "over" <=> conn[x] = "over"
      BY <1>1 DEF ConsoleInv, StreamInv
    <3> QED
      BY <1>1, <3>1 DEF Silent
  <2>2. phase' = "error" => \E g \in 1 .. generation : GaveUp(g)
    BY <1>2 DEF ConsoleInv, SilentInv, GaveUp
  <2>3. ASSUME NEW g \in 1 .. generation, GaveUp(g)
        PROVE  g \in 1 .. generation' /\ GaveUp(g)'
    BY <1>1, <2>1, <2>3 DEF GaveUp
  <2> QED
    BY <1>1, <2>2, <2>3 DEF SilentInv, GaveUp
<1> QED
  BY <1>3, <1>4, <1>5, <1>6, <1>7 DEF ConsoleInv

LEMMA ReattachInv == ASSUME ConsoleInv, Reattach PROVE ConsoleInv'
<1> DEFINE r == watching[1]
<1>1. PICK w \in Watch : Attach1(w, r, generation)
  BY DEF Reattach
<1>2. /\ retry /\ retry' = FALSE /\ watching # <<>> /\ current = <<>>
      /\ UNCHANGED <<execVars, liveVars, watch, replay, doneBefore, queue, aborted, out,
                     end, crashes, watching, phase, screen, shownResult, generation, shown,
                     attempt, answered, received, drops>>
      /\ r \in Run /\ generation \in Nat /\ generation >= 1 /\ shown \in Nat
      /\ watching = <<r>>
  BY DEF Reattach, ConsoleInv, ConsoleTypeOK, StreamInv
<1>3. /\ LiveRunsInv'
      /\ conn' \in [Watch -> {"unused", "open", "closed", "lost", "refused", "over"}]
      /\ genOf' \in [Watch -> Nat]
      /\ conn'[w] = "open" /\ genOf'[w] = generation /\ runOf'[w] = r /\ current' = <<w>>
      /\ watch[w] = "free" /\ received[w] = 0 /\ ~answered[w] /\ conn[w] = "unused"
      /\ \A x \in Watch \ {w} :
           /\ genOf'[x] = genOf[x] /\ runOf'[x] = runOf[x]
           /\ conn'[x] = IF current = <<x>> THEN "closed" ELSE conn[x]
      /\ \A x \in Watch : conn'[x] = "over" <=> conn[x] = "over"
  BY <1>1, <1>2, AttachFacts
<1>4. \A x \in Watch \ {w} : conn'[x] = conn[x]
  BY <1>2, <1>3
<1>5. ConsoleTypeOK'
  BY <1>2, <1>3 DEF ConsoleInv, ConsoleTypeOK
<1>6. StreamInv'
  <2>1. \A x \in Watch \ {w} :
          ~(conn[x] \in {"open", "lost", "refused"} /\ genOf[x] = generation)
    BY <1>2 DEF ConsoleInv, ConsoleTypeOK, StreamInv
  <2>2. \A x \in Watch : conn'[x] \in {"open", "lost", "refused"} /\ genOf'[x] = generation' => x = w
    BY <1>2, <1>3, <1>4, <2>1
  <2>3. watching' # <<>> => generation' >= 1
    BY <1>2
  <2>4. genOf'[w] <= generation' /\ received'[w] <= shown'
    BY <1>2, <1>3
  <2>5. \A x \in Watch \ {w} : current' # <<x>>
    BY <1>3
  <2> QED
    BY <1>2, <1>3, <1>4, <2>2, <2>3, <2>4, <2>5 DEF ConsoleInv, StreamInv
<1>7. ScreenInv'
  BY <1>2 DEF ConsoleInv, ScreenInv, DoneIsComplete, execVars
<1>8. SilentInv'
  <2>1. \A g \in Nat : Silent(g)' = Silent(g)
    BY <1>2, <1>3 DEF Silent
  <2>2. Silent(generation)' = Silent(generation)
    BY <1>2, <2>1
  <2> QED
    BY <1>2, <2>1, <2>2 DEF ConsoleInv, SilentInv
<1> QED
  BY <1>3, <1>5, <1>6, <1>7, <1>8 DEF ConsoleInv

----------------------------------------------------------------------------
(* The invariant.                                                          *)

LEMMA InitConsoleInv == ConsoleInit => ConsoleInv
<1> SUFFICES ASSUME ConsoleInit PROVE ConsoleInv
  OBVIOUS
<1>1. LiveRunsInv
  BY InitLiveRunsInv DEF ConsoleInit
<1>2. ConsoleTypeOK
  BY EmptySeq DEF ConsoleInit, ConsoleTypeOK
<1>3. StreamInv
  BY DEF ConsoleInit, StreamInv, Init
<1>4. ScreenInv /\ SilentInv
  BY DEF ConsoleInit, ScreenInv, SilentInv
<1> QED
  BY <1>1, <1>2, <1>3, <1>4 DEF ConsoleInv

LEMMA ConsoleInvStep == ConsoleInv /\ [ConsoleNext]_allVars => ConsoleInv'
<1> SUFFICES ASSUME ConsoleInv, [ConsoleNext]_allVars PROVE ConsoleInv'
  OBVIOUS
<1>1. CASE User
  BY <1>1, StartInv, LeaveInv DEF User
<1>2. CASE Reattach
  BY <1>2, ReattachInv
<1>3. CASE \E w \in Watch : Callback(w)
  BY <1>3, AnswerInv, OnEventInv, OnSuccessInv, OnErrorInv DEF Callback
<1>4. CASE Network
  BY <1>4, BackendInv, LostInv DEF Network, BackendStep
<1>5. CASE Restart
  BY <1>5, LostInv
<1>6. CASE Backend
  BY <1>6, BackendInv DEF BackendStep
<1>7. CASE UNCHANGED allVars
  <2>1. UNCHANGED <<vars, hookVars, shown, attempt, conn, genOf, answered, received, drops>>
    BY <1>7 DEF allVars, consoleVars, streamVars
  <2>2. LiveRunsInv' /\ ScreenInv' /\ SilentInv'
    BY <2>1, VarsKept, ScreenKept, SilentKept DEF ConsoleInv, hookVars
  <2>3. ConsoleTypeOK' /\ StreamInv'
    BY <2>1 DEF ConsoleInv, ConsoleTypeOK, StreamInv, hookVars, vars, watchVars
  <2> QED
    BY <2>2, <2>3 DEF ConsoleInv
<1> QED
  BY <1>1, <1>2, <1>3, <1>4, <1>5, <1>6, <1>7 DEF ConsoleNext

\* The console's invariant holds in every reachable state.
THEOREM ConsoleCorrect == ConsoleSpec => []ConsoleInv
BY InitConsoleInv, ConsoleInvStep, PTL DEF ConsoleSpec

\* The screen shows the watched run's events in order, each once, and a console that says
\* "done" the whole run and its own result.
THEOREM ScreenAlwaysTrue == ConsoleSpec => []ScreenIsTrue
<1>1. ConsoleInv => ScreenIsTrue
  BY DEF ConsoleInv, ScreenInv, ScreenInOrder, DoneIsComplete, ScreenIsTrue
<1> QED
  BY <1>1, ConsoleCorrect, PTL

\* Only the stream of the present generation is open.
THEOREM OneStreamAlways == ConsoleSpec => []OneStream
<1>1. ConsoleInv => OneStream
  BY DEF ConsoleInv, StreamInv, OneStream
<1> QED
  BY <1>1, ConsoleCorrect, PTL

\* The hook only gives up on attaches that went unanswered.
THEOREM GivesUpJustified == ConsoleSpec => []GivesUpOnlyWhenUnreachable
<1>1. ConsoleInv => GivesUpOnlyWhenUnreachable
  BY DEF ConsoleInv, SilentInv, GivesUpOnlyWhenUnreachable
<1> QED
  BY <1>1, ConsoleCorrect, PTL
=============================================================================
