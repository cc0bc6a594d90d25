------------------------------- MODULE NextRun -------------------------------
(***************************************************************************)
(* When a schedule fires next, as mirrors and builds show it               *)
(* (lib/mirrors/cron.ts): the days are tried one after the other, the      *)
(* first of them from the minute after now, and within a day the hours and *)
(* the minutes are read off the fields.  Kubernetes and Harbor fire the    *)
(* schedule; what they do is Fires.                                        *)
(*                                                                         *)
(* A field is a sequence of parts; time is counted in minutes, in UTC.     *)
(***************************************************************************)
EXTENDS Naturals, Sequences

CONSTANTS
  Schedules,  \* schedules people enter
  Instants,   \* the instants the question is asked at
  Minutes,    \* minutes in an hour
  Hours,      \* hours in a day
  Week,       \* days in a week: day 0 is also written Week
  Months,     \* months in a year
  Month,      \* the longest month
  Calendar,   \* day number -> [month, dom, dow]
  Window,     \* the days tried: as many as the longest year has
  Star,       \* "*"
  None,       \* no last value, no step, no answer yet
  Never       \* the answer that there is none

VARIABLES
  schedule,  \* the schedule in question
  cursor,    \* the first instant looked at
  day,       \* how many days were passed over
  next       \* the answer: an instant, Never, or None as yet

vars == <<schedule, cursor, day, next>>

\* A part is first, first-last, "*", each perhaps with a step: first/step has no last.
Part == [first : Nat \union {Star}, last : Nat \union {None}, step : Nat \union {None}]

PartValues(part, min, max) ==
  LET start == IF part.first = Star THEN min ELSE part.first
      end == IF part.first = Star THEN max
             ELSE IF part.last # None THEN part.last
             ELSE IF part.step # None THEN max ELSE part.first
      step == IF part.step = None THEN 1 ELSE part.step
  IN  {v \in start..end : (v - start) % step = 0}

Values(field, min, max) == UNION {PartValues(field[i], min, max) : i \in DOMAIN field}
Wildcard(field) == field = <<[first |-> Star, last |-> None, step |-> None]>>

MinuteOf(t) == t % Minutes
HourOf(t) == (t \div Minutes) % Hours
DayOf(t) == t \div (Minutes * Hours)
DayBegin(d) == d * Minutes * Hours

TypeOK ==
  /\ schedule \in Schedules
  /\ day \in 0..Window
  /\ next \in Nat \union {None, Never}

Init ==
  /\ schedule \in Schedules
  /\ cursor \in {now + 1 : now \in Instants}
  /\ day = 0 /\ next = None

-----------------------------------------------------------------------------
(* nextRunAt.                                                              *)

Weekdays(s) ==
  LET dow == Values(s.dow, 0, Week)
  IN  IF Week \in dow THEN dow \union {0} ELSE dow

DayMatches(s, d) ==
  LET date == Calendar[d]
      dom == date.dom \in Values(s.dom, 1, Month)
      dow == date.dow \in Weekdays(s)
  IN
  /\ date.month \in Values(s.month, 1, Months)
  /\ IF Wildcard(s.dom) /\ Wildcard(s.dow) THEN TRUE
     ELSE IF Wildcard(s.dom) THEN dow
     ELSE IF Wildcard(s.dow) THEN dom
     ELSE dom \/ dow

\* The times of the day in hand that are to come: the first day begins midway.
Times ==
  LET today == DayOf(cursor) + day
      hour == IF day = 0 THEN HourOf(cursor) ELSE 0
      minute == IF day = 0 THEN MinuteOf(cursor) ELSE 0
  IN  {DayBegin(today) + at[1] * Minutes + at[2] :
         at \in {hm \in Values(schedule.hour, 0, Hours - 1)
                          \X Values(schedule.minute, 0, Minutes - 1) :
                     /\ hm[1] >= hour
                     /\ ~(hm[1] = hour /\ hm[2] < minute)}}

Trying == next = None /\ day < Window

Answer(t) ==
  /\ Trying /\ DayMatches(schedule, DayOf(cursor) + day)
  /\ t \in Times /\ \A other \in Times : t <= other
  /\ next' = t
  /\ UNCHANGED <<schedule, cursor, day>>

NextDay ==
  /\ Trying
  /\ DayMatches(schedule, DayOf(cursor) + day) => Times = {}
  /\ day' = day + 1
  /\ next' = IF day' = Window THEN Never ELSE next
  /\ UNCHANGED <<schedule, cursor>>

Next == (\E t \in Times : Answer(t)) \/ NextDay

Spec == Init /\ [][Next]_vars

-----------------------------------------------------------------------------
(* Properties.                                                             *)

\* What Kubernetes and Harbor fire on: a "*" day field matches every day, and leaves
\* it to the other one; both given, either will do.
Fires(s, t) ==
  LET date == Calendar[DayOf(t)]
      dom == date.dom \in Values(s.dom, 1, Month)
      dow == \E v \in Values(s.dow, 0, Week) : v % Week = date.dow
  IN
  /\ MinuteOf(t) \in Values(s.minute, 0, Minutes - 1)
  /\ HourOf(t) \in Values(s.hour, 0, Hours - 1)
  /\ date.month \in Values(s.month, 1, Months)
  /\ IF Wildcard(s.dom) \/ Wildcard(s.dow) THEN dom /\ dow ELSE dom \/ dow

\* The next run shown is the first instant after now the schedule fires at, and none is
\* shown only if it fires in none of the Window - 1 times 24 hours to come.  A leap
\* year has one day more than that (cron.ts: "matches nothing within a year").
NextIsFirst ==
  /\ next \in Nat => /\ next >= cursor /\ Fires(schedule, next)
                     /\ \A t \in cursor..(next - 1) : ~Fires(schedule, t)
  /\ next = Never =>
       \A t \in cursor..(cursor + (Window - 1) * Minutes * Hours - 1) : ~Fires(schedule, t)

=============================================================================
