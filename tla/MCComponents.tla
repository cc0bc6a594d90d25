---------------------------- MODULE MCComponents ----------------------------
(***************************************************************************)
(* Small instances of components that have nothing to do with each         *)
(* other: the first state says which one a behaviour follows, and the      *)
(* variables of the others stay None.                                      *)
(*   setting: two Harbors, one of which refuses a limit;                   *)
(*   copies:  the catch-up of one replication policy;                      *)
(*   publish: the Jobs and pods of a build;                                *)
(*   revise:  a build that is applied again, or deleted, and its one Job,  *)
(*            for as long as calls fail;                                   *)
(*   realign: a build that is deleted, or whose credentials change;        *)
(*   decide:  requests made and decided one at a time;                     *)
(*   race:    requests made and decided at the same time;                  *)
(*   mirror:  one mirror, two Harbors and Kubernetes;                      *)
(*   clock:   when a schedule fires next, in a calendar of short years.    *)
(***************************************************************************)
EXTENDS Naturals

CONSTANTS
  Harbor, Value, v0, Admin, Strict, Outsize, MaxChanges,  \* Strict refuse the Outsize
  CopySlot, MaxCopies,
  Person, Limit, MaxDecided, MaxRaced, MaxDirect,
  Host, kube, Editor, MaxEdits,
  MaxCrashes, Star, Never, None

VARIABLES
  part, hand, project, asked, runs, crashes, healthy, row, op, edits,
  kind, desired, held, queue, nextId, pass, changes,
  tracked, last, visit, asks, adopted,
  made, overtaken, secrets, cron, seen, job, pod, lease, cred,
  done, direct,
  transport, policy, overlap, lost,
  schedule, cursor, day, next

settingVars == <<kind, desired, held, queue, nextId, pass, changes>>
copyVars == <<tracked, last, visit, asks, adopted>>
buildVars == <<made, overtaken, secrets, cron, seen, job, pod, lease, cred>>
requestVars == <<done, direct>>
mirrorVars == <<transport, policy, overlap, lost>>
clockVars == <<schedule, cursor, day, next>>
vars == <<part, hand, project, asked, runs, crashes, healthy, row, op, edits,
          settingVars, copyVars, buildVars, requestVars, mirrorVars, clockVars>>

Setting == INSTANCE SettingSync WITH
  Initial <- v0, Refused <- Strict \X Outsize, Apart <- TRUE, AnswersLost <- TRUE

Copies == INSTANCE CatchUp WITH MaxAsks <- MaxCopies, Slot <- CopySlot

Build(how) == INSTANCE Builds WITH
  Slot <- how.slots, MaxRevs <- how.revs, MaxDrifts <- how.drifts, MaxEdits <- how.edits,
  MaxCrashes <- 0
Publish == [slots |-> 1..2, revs |-> 1, drifts |-> 0, edits |-> 1]
Revise == [slots |-> {1}, revs |-> 3, drifts |-> 0, edits |-> 3]
Realign == [slots |-> {1}, revs |-> 1, drifts |-> 1, edits |-> 2]

Review(how) == INSTANCE Requests WITH Apart <- how.apart, MaxAsks <- how.asks
Decide == [apart |-> TRUE, asks |-> MaxDecided]
Race == [apart |-> FALSE, asks |-> MaxRaced]

Mirror == INSTANCE Mirrors WITH
  Handler <- Editor, Kube <- kube, AnswersLost <- TRUE

\* Years of two months, the second of which has a third day every other year, weeks
\* of two days, days of two hours of two minutes.
Date(d) ==
  LET r == d % 9
  IN  [month |-> IF r \in {0, 1, 4, 5} THEN 1 ELSE 2,
       dom |-> IF r \in {0, 2, 4, 6} THEN 1 ELSE IF r = 8 THEN 3 ELSE 2,
       dow |-> d % 2]
P(from, to, by) == [first |-> from, last |-> to, step |-> by]
All == <<P(Star, None, None)>>
Only(v) == <<P(v, None, None)>>
ShortSchedules ==
  [minute : {All, Only(1)}, hour : {Only(0)},
   dom : {All, Only(1), Only(3), <<P(1, None, 2)>>, <<P(Star, None, 2)>>},
   month : {All, Only(1), Only(2)},
   dow : {All, Only(1), Only(2), <<P(0, 1, None)>>}]

ShortYears ==
  [schedules |-> ShortSchedules, instants |-> 0..35,
   minutes |-> 2, hours |-> 2, week |-> 2, months |-> 2, month |-> 3,
   calendar |-> [d \in 0..14 |-> Date(d)], window |-> 5]

Clock(how) == INSTANCE NextRun WITH
  Schedules <- how.schedules, Instants <- how.instants, Minutes <- how.minutes,
  Hours <- how.hours, Week <- how.week, Months <- how.months, Month <- how.month,
  Calendar <- how.calendar, Window <- how.window

-----------------------------------------------------------------------------
SettingOff ==
  /\ kind = None /\ desired = None /\ held = None /\ queue = None
  /\ nextId = None /\ pass = None /\ changes = None
CopiesOff == tracked = None /\ last = None /\ visit = None /\ asks = None /\ adopted = None
BuildOff ==
  /\ made = None /\ overtaken = None /\ secrets = None /\ cron = None /\ seen = None
  /\ job = None /\ pod = None /\ lease = None /\ cred = None
RequestsOff == done = None /\ direct = None
MirrorOff == transport = None /\ policy = None /\ overlap = None /\ lost = None
ClockOff == schedule = None /\ cursor = None /\ day = None /\ next = None

Init ==
  \/ /\ part = "setting" /\ Setting!Init
     /\ asked = None /\ runs = None /\ crashes = None /\ healthy = None
     /\ row = None /\ op = None /\ edits = None
     /\ CopiesOff /\ BuildOff /\ RequestsOff /\ MirrorOff /\ ClockOff
  \/ /\ part = "copies" /\ Copies!Init
     /\ hand = None /\ project = None /\ row = None /\ op = None /\ edits = None
     /\ SettingOff /\ BuildOff /\ RequestsOff /\ MirrorOff /\ ClockOff
  \/ /\ \/ part = "publish" /\ Build(Publish)!Init
        \/ part = "revise" /\ Build(Revise)!Init
        \/ part = "realign" /\ Build(Realign)!Init
     /\ hand = None /\ project = None /\ asked = None
     /\ SettingOff /\ CopiesOff /\ RequestsOff /\ MirrorOff /\ ClockOff
  \/ /\ \/ part = "decide" /\ Review(Decide)!Init
        \/ part = "race" /\ Review(Race)!Init
     /\ runs = None /\ healthy = None /\ row = None /\ op = None /\ edits = None
     /\ SettingOff /\ CopiesOff /\ BuildOff /\ MirrorOff /\ ClockOff
  \/ /\ part = "mirror" /\ Mirror!Init
     /\ hand = None /\ project = None /\ asked = None /\ runs = None /\ healthy = None
     /\ SettingOff /\ CopiesOff /\ BuildOff /\ RequestsOff /\ ClockOff
  \/ /\ part = "clock" /\ Clock(ShortYears)!Init
     /\ hand = None /\ project = None /\ asked = None /\ runs = None /\ crashes = None
     /\ healthy = None /\ row = None /\ op = None /\ edits = None
     /\ SettingOff /\ CopiesOff /\ BuildOff /\ RequestsOff /\ MirrorOff

\* A step of the component a behaviour follows leaves the others' variables alone.
SettingStep == part = "setting" /\ Setting!Next /\
  UNCHANGED <<part, asked, runs, crashes, healthy, row, op, edits, copyVars, buildVars,
              requestVars, mirrorVars, clockVars>>

CopyStep(step) == part = "copies" /\ step /\
  UNCHANGED <<part, hand, project, row, op, edits, settingVars, buildVars, requestVars,
              mirrorVars, clockVars>>

BuildStep(publish, revise, realign) ==
  /\ \/ part = "publish" /\ publish
     \/ part = "revise" /\ revise
     \/ part = "realign" /\ realign
  /\ UNCHANGED <<part, hand, project, asked, settingVars, copyVars, requestVars, mirrorVars,
              clockVars>>

RequestStep ==
  /\ \/ part = "decide" /\ Review(Decide)!Next
     \/ part = "race" /\ Review(Race)!Next
  /\ UNCHANGED <<part, runs, healthy, row, op, edits, settingVars, copyVars, buildVars, mirrorVars,
              clockVars>>

MirrorStep == part = "mirror" /\ Mirror!Next /\
  UNCHANGED <<part, hand, project, asked, runs, healthy, settingVars, copyVars, buildVars,
              requestVars, clockVars>>

ClockStep == part = "clock" /\ Clock(ShortYears)!Next /\
  UNCHANGED <<part, hand, project, asked, runs, crashes, healthy, row, op, edits, settingVars,
              copyVars, buildVars, requestVars, mirrorVars>>

Next ==
  \/ SettingStep \/ CopyStep(Copies!Next)
  \/ BuildStep(Build(Publish)!Next, Build(Revise)!Next /\ ~healthy', Build(Realign)!Next)
  \/ RequestStep \/ MirrorStep \/ ClockStep

\* As in CatchUp and Builds: the worker and the collector come round, and what they
\* have started takes its course.
FairSpec ==
  /\ Init /\ [][Next]_vars
  /\ WF_vars(CopyStep(Copies!Heal) \/ BuildStep(Build(Publish)!Heal, FALSE, Build(Realign)!Heal))
  /\ WF_vars(CopyStep(Copies!Ends) \/ BuildStep(Build(Publish)!Operate, FALSE, Build(Realign)!Operate))
  /\ WF_vars(\/ CopyStep(Copies!Poll)
             \/ BuildStep(Build(Publish)!StartCollect, FALSE, Build(Realign)!StartCollect))
  /\ WF_vars(\/ CopyStep(Copies!Consider(FALSE))
             \/ BuildStep(Build(Publish)!Runs(1), FALSE, Build(Realign)!Runs(1)))
  /\ WF_vars(CopyStep(Copies!Post) \/ BuildStep(Build(Publish)!Runs(2), FALSE, FALSE))
  /\ WF_vars(CopyStep(Copies!Record))

-----------------------------------------------------------------------------
TypeOK ==
  CASE part = "setting" -> Setting!TypeOK
    [] part = "copies" -> Copies!TypeOK
    [] part = "publish" -> Build(Publish)!TypeOK
    [] part = "revise" -> Build(Revise)!TypeOK
    [] part = "realign" -> Build(Realign)!TypeOK
    [] part = "decide" -> Review(Decide)!TypeOK
    [] part = "race" -> Review(Race)!TypeOK
    [] part = "mirror" -> Mirror!TypeOK
    [] part = "clock" -> Clock(ShortYears)!TypeOK

\* A Harbor that does not enforce the setting shown is owed it, once, or refused it.
SettingIsOwed == part = "setting" => Setting!ValueIsOwed /\ Setting!OneRowPerHarbor

\* The worker has one copy of the policy under way.
OneCopyAtATime == part = "copies" => Copies!OneCopyAtATime

\* A catch-up request that is no longer recorded was met.
CopyIsOwed == part = "copies" => Copies!CopyIsOwed

\* Two pods of a build never publish at the same time.
OnePublisher == part = "publish" => Build(Publish)!OnePublisher

\* No Job waits for a Secret that was collected or removed, unless its revision was
\* installed, shown as not applied and overtaken by a later one.
SecretIsThere == part = "revise" => Build(Revise)!SecretIsThere

\* A build that is gone has left nothing in the cluster.
NothingLeft == part = "revise" => Build(Revise)!NothingLeft

\* A publication that was seen to succeed stays so.
SuccessIsKept ==
  [][part = "publish" =>
       \A s \in 1..2 : runs[s] = "succeeded" /\ job[s] # Build(Publish)!NoJob /\ row' # None
         => runs'[s] = "succeeded"]_vars

\* What is shown as approved was carried out, whatever overlaps; what is shown as
\* rejected was not, and one request of a kind is shown, when decisions are kept apart.
DecisionsAreTrue ==
  /\ part = "decide" =>
       /\ Review(Decide)!ApprovedIsDone /\ Review(Decide)!RejectedIsNotDone
       /\ Review(Decide)!OnePending
  /\ part = "race" => Review(Race)!ApprovedIsDone

\* The schedule shown is the one that fires: a mirror fires from the one place its row
\* names, as it is shown if it is shown as applied, unless requests for it overlapped, in
\* which nothing serialises them; a paused build is suspended; the next run shown is the
\* first to come.
ScheduleIsTrue ==
  /\ part = "mirror" => Mirror!OneSchedule /\ Mirror!AppliedIsInstalled
  /\ part = "revise" => Build(Revise)!PausedStaysPaused
  /\ part = "clock" => Clock(ShortYears)!NextIsFirst

\* Catch-up requests are met; builds are deleted, invalidated and suspended.
WorkIsDone ==
  <>[] /\ part = "copies" => Copies!CaughtUp
       /\ part = "publish" => Build(Publish)!Settled
       /\ part = "realign" => Build(Realign)!Settled

=============================================================================
