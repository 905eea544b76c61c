-------------------------------- MODULE CronForm --------------------------------
(***************************************************************************)
(* The schedule of a job's form: the text of a cron expression, and the    *)
(* assistant that reads an expression as a frequency with its controls and *)
(* writes it again.  An expression is its five fields, or no text.         *)
(***************************************************************************)
EXTENDS Integers, FiniteSets

CONSTANTS
  LastMinute, LastHour, LastDay, LastWeekday, \* the code's 59, 23, 31 and 6
  Morning,       \* the hour of the schedules it offers, the code's 9
  Interval,      \* the intervals it offers, with DefaultInterval
  DefaultInterval,
  TypedNumber,   \* what is typed over an hour or a minute: two digits at most
  TypedText      \* the expressions that are typed or were saved

ASSUME CronAssumption ==
  /\ {LastMinute, LastHour, LastDay, LastWeekday} \subseteq Nat \ {0}
  /\ Morning \in 0 .. LastHour
  /\ DefaultInterval \in Interval /\ Interval \subseteq Nat \ {0}
  /\ TypedNumber \subseteq 0 .. 99

\* A field: any value, each n-th, a number, or something else ("1-5").
Star == <<"any", 0>>
Every(n) == <<"every", n>>
Num(n) == <<"num", n>>
IsNum(f) == f[1] = "num"
Else == <<"else", 0>>
CronField == {"minute", "hour", "day", "month", "weekday"}
Cron(m, h, d, w) == [minute |-> m, hour |-> h, day |-> d, month |-> Star, weekday |-> w]
NoText == [f \in {} |-> Star]
Stepped == {"minute", "hour"}

VARIABLES
  text,     \* the form's expression
  assistant,\* whether the assistant is open
  opened,   \* the expression it was opened over
  draft,    \* the one it edits
  mode,     \* the frequency it has the controls of
  focus,    \* the stepper that has the focus, or "none"
  digits    \* what is typed there: a number, Unset, or Cleared

cronVars == <<text, assistant, opened, draft, mode, focus, digits>>

Unset == -1
Cleared == -2
Lasts == [minute |-> LastMinute, hour |-> LastHour]
Daily(m, h) == Cron(m, h, Star, Star)
Workdays == Cron(Num(0), Num(Morning), Star, Else)

----------------------------------------------------------------------------

\* The frequency that an expression reads as: numbers may be out of range, but for days.
MutScheduleMode(e) ==
  IF e # NoText /\ IsNum(e.minute) /\ IsNum(e.hour) THEN "daily" ELSE "custom" \* mutant: the days are not read
ScheduleMode(e) ==
  LET is(m, h, d, w) == e # NoText /\ e.month = Star /\ m /\ h /\ e.day \in d /\ e.weekday \in w
      numbers == e # NoText /\ IsNum(e.minute) /\ IsNum(e.hour)
      days == {Num(n) : n \in 1 .. LastDay}
      weekdays == {Num(n) : n \in 0 .. LastWeekday}
  IN CASE e # NoText /\ is(e.minute[1] = "every", e.hour = Star, {Star}, {Star}) -> "minutes"
       [] e # NoText /\ is(e.minute = Num(0), e.hour[1] = "every", {Star}, {Star}) -> "hours"
       [] numbers /\ is(TRUE, TRUE, {Star}, {Star}) -> "daily"
       [] numbers /\ is(TRUE, TRUE, {Star}, weekdays) -> "weekly"
       [] numbers /\ is(TRUE, TRUE, days, {Star}) -> "monthly"
       [] OTHER -> "custom"

DefaultExpression(m) ==
  CASE m = "minutes" -> Cron(Every(DefaultInterval), Star, Star, Star)
    [] m = "hours" -> Cron(Num(0), Every(DefaultInterval), Star, Star)
    [] m = "daily" -> Daily(Num(0), Num(Morning))
    [] m = "weekly" -> Cron(Num(0), Num(Morning), Star, Num(1))
    [] m = "monthly" -> Cron(Num(0), Num(Morning), Num(1), Star)
    [] OTHER -> Workdays

InRange(f, x) ==
  CASE f = "minute" -> x \in 0 .. LastMinute
    [] f = "hour" -> x \in 0 .. LastHour
    [] f = "day" -> x \in 1 .. LastDay
    [] OTHER -> x \in 0 .. LastWeekday

CronFormInit ==
  /\ text \in TypedText /\ assistant = FALSE /\ opened = NoText /\ draft = NoText
  /\ mode = "custom" /\ focus = "none" /\ digits = Unset

----------------------------------------------------------------------------

TypeText ==
  /\ ~assistant /\ text' \in TypedText
  /\ UNCHANGED <<assistant, opened, draft, mode, focus, digits>>

\* The assistant takes the form's text, or a day's schedule where there is none.
OpenAssistant ==
  /\ ~assistant /\ assistant' = TRUE
  /\ draft' = IF text = NoText THEN Daily(Num(0), Num(Morning)) ELSE text
  /\ opened' = draft' /\ mode' = ScheduleMode(draft')
  /\ UNCHANGED <<text, focus, digits>>

\* A press on anything else takes the focus from a stepper first.
Presses == assistant /\ focus = "none"

Closes == assistant' = FALSE /\ mode' = "custom" /\ draft' = NoText /\ opened' = NoText
ApplyDraft == Presses /\ Closes /\ text' = draft /\ UNCHANGED <<focus, digits>>
DismissAssistant ==
  assistant /\ Closes /\ focus' = "none" /\ digits' = Unset /\ UNCHANGED text

ChooseFrequency ==
  /\ Presses
  /\ mode' \in {"minutes", "hours", "daily", "weekly", "monthly", "custom"} \ {mode}
  /\ draft' = DefaultExpression(mode')
  /\ UNCHANGED <<text, assistant, opened, focus, digits>>

Edits == UNCHANGED <<text, assistant, opened, mode>>

\* The frequency stays, whatever is typed.
TypeDraft == Presses /\ mode = "custom" /\ draft' \in TypedText /\ Edits /\ UNCHANGED <<focus, digits>>

ChooseInterval(n) ==
  /\ Presses /\ mode \in {"minutes", "hours"}
  /\ draft' = IF mode = "minutes" THEN Cron(Every(n), Star, Star, Star) ELSE Cron(Num(0), Every(n), Star, Star)
  /\ Edits /\ UNCHANGED <<focus, digits>>

PickDay ==
  /\ Presses /\ Edits /\ UNCHANGED <<focus, digits>>
  /\ \/ mode = "weekly" /\ \E w \in 0 .. LastWeekday :
          draft' = Cron(draft.minute, draft.hour, Star, Num(w))
     \/ mode = "monthly" /\ \E d \in 1 .. LastDay :
          draft' = Cron(draft.minute, draft.hour, Num(d), Star)

----------------------------------------------------------------------------
(* The steppers of the hour and the minute.                                *)

HasSteppers == assistant /\ mode \in {"daily", "weekly", "monthly"}

MutWrapped(n, last) == IF n < 0 THEN n ELSE n % (last + 1) \* mutant: the remainder of a negative is one
Wrapped(n, last) == n % (last + 1)
Clamped(n, last) == IF n > last THEN last ELSE n

\* updateTime: the other of the two stays, and the day that the frequency has.
MutUpdateTime(m, h) == Daily(m, h) \* mutant: the day is lost
UpdateTime(m, h) ==
  CASE mode = "weekly" -> Cron(m, h, Star, draft.weekday)
    [] mode = "monthly" -> Cron(m, h, draft.day, Star)
    [] OTHER -> Daily(m, h)

CommitStep(f, n) ==
  LET x == Num(Wrapped(n, Lasts[f]))
  IN draft' = IF f = "minute" THEN UpdateTime(x, draft.hour) ELSE UpdateTime(draft.minute, x)

\* The wheel steps without the focus, and the keys with it: what is typed stays, over the
\* stepped value, until the focus goes.
Step(f, by) ==
  /\ HasSteppers /\ CommitStep(f, draft[f][2] + by)
  /\ by \in {-5, 5} => focus = f
  /\ Edits /\ UNCHANGED <<focus, digits>>
ToEnd(f, last) ==
  HasSteppers /\ focus = f /\ CommitStep(f, IF last THEN Lasts[f] ELSE 0) /\ Edits /\ UNCHANGED <<focus, digits>>

Focus(f) == HasSteppers /\ focus = "none" /\ focus' = f /\ Edits /\ UNCHANGED <<draft, digits>>
TypeDigits(f) ==
  HasSteppers /\ focus = f /\ digits' \in TypedNumber \cup {Cleared} /\ Edits /\ UNCHANGED <<draft, focus>>
Blur(f) ==
  /\ HasSteppers /\ focus = f /\ focus' = "none" /\ digits' = Unset
  /\ IF digits \in TypedNumber THEN CommitStep(f, Clamped(digits, Lasts[f])) ELSE UNCHANGED draft
  /\ Edits

CronFormNext ==
  \/ TypeText \/ OpenAssistant \/ ApplyDraft \/ DismissAssistant
  \/ ChooseFrequency \/ TypeDraft \/ PickDay \/ \E n \in Interval : ChooseInterval(n)
  \/ \E f \in Stepped :
       \/ Focus(f) \/ TypeDigits(f) \/ Blur(f)
       \/ \E by \in {-5, -1, 1, 5} : Step(f, by)
       \/ \E last \in BOOLEAN : ToEnd(f, last)

CronFormSpec == CronFormInit /\ [][CronFormNext]_cronVars

----------------------------------------------------------------------------
(* Properties.                                                             *)

\* The assistant keeps its frequency while an expression is edited, without reading it again
\* (cron-schedule-builder.tsx:78-81): what it writes reads as that frequency all the while.
ModeIsRead == assistant /\ mode # "custom" => ScheduleMode(draft) = mode

\* Whatever is typed or stepped, the assistant brings no number out of its range: one that
\* is was there when it was opened, and nobody has touched its control since.
RangesHold ==
  assistant /\ mode # "custom" =>
    \A f \in CronField : IsNum(draft[f]) /\ ~InRange(f, draft[f][2]) => draft[f] = opened[f]

\* One control changes one field (cron-schedule-controls.tsx:17-21): no hour, minute or day
\* is lost when another is edited.
OneFieldAtATime ==
  [][assistant /\ assistant' /\ mode' = mode /\ mode # "custom" =>
       Cardinality({f \in CronField : draft'[f] # draft[f]}) <= 1]_cronVars

\* A job loses its schedule only where its text was emptied, in the form or in the assistant.
LosesOnlyWhatIsEmptied ==
  [][text # NoText /\ text' = NoText => ~assistant \/ mode = "custom"]_cronVars
=============================================================================
