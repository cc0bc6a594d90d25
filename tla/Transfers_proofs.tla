--------------------------- MODULE Transfers_proofs ---------------------------
(***************************************************************************)
(* What holds of a transfer request for any number of destinations,        *)
(* handlers, crashes and lost locks, and what the per-request lock buys    *)
(* when none is lost.                                                      *)
(***************************************************************************)
EXTENDS Transfers, TLAPS

\* The roll-up of any destinations is a status.
LEMMA AggregateType == AggregateStatus(target) \in Status
  BY DEF AggregateStatus, Status

\* What a handler remembers of one destination stays in range.
LEMMA WorkType ==
  ASSUME TypeOK, NEW p \in Proc, NEW t \in Target, NEW w \in Work, SetWork(p, t, w)
  PROVE  work' \in [Proc -> [Target -> Work]]
  BY DEF TypeOK, SetWork

\* A handler that ends leaves nothing behind: no work, no roll-up, no lock of its own.
LEMMA FinishClears ==
  ASSUME TypeOK, NEW p \in Proc, Finish(p)
  PROVE  /\ \A t \in Target : work'[p][t] = "none"
         /\ \A q \in Proc \ {p} : work'[q] = work[q] /\ pc'[q] = pc[q] /\ rollup'[q] = rollup[q]
         /\ pc'[p] = "idle"
         /\ lock' = IF lock = p THEN Nobody ELSE lock
  BY DEF TypeOK, Finish, NoWork, Released

\* A new request is in range.
LEMMA TypeCorrectInit == Init => TypeOK
  BY TransfersAssumption, SMT DEF Init, TypeOK, Status, JobState, PC, Work, NoWork, Proc

\* Every step of every handler and of Kubernetes keeps the state in range.
LEMMA TypeCorrectStep == TypeOK /\ [Next]_vars => TypeOK'
<1> SUFFICES ASSUME TypeOK, [Next]_vars PROVE TypeOK'
  OBVIOUS
<1> USE TransfersAssumption DEF TypeOK
<1>1. CASE UNCHANGED vars
  BY <1>1 DEF vars
<1>2. ASSUME NEW p \in Proc, Handler(p) PROVE TypeOK'
  <2>0. \A q \in Proc : NoWork \in [Target -> Work] /\ "PENDING" \in Status
    BY DEF NoWork, Work, Status
  <2>1. CASE ApproveCheck(p)
    BY <2>1 DEF ApproveCheck, Goto, PC
  <2>2. CASE LaunchRefused(p)
    BY <2>2 DEF LaunchRefused, Goto, PC
  <2>3. CASE LaunchLoad(p)
    BY <2>3 DEF LaunchLoad, Take, Goto, PC, Work
  <2>4. CASE LaunchNothing(p)
    BY <2>0, <2>4 DEF LaunchNothing, Finish, Released, PC
  <2>5. CASE LaunchLoopEnds(p)
    BY <2>5 DEF LaunchLoopEnds, Goto, PC
  <2>6. CASE LaunchRecorded(p)
    BY <2>6 DEF LaunchRecorded, Goto, PC
  <2>7. CASE RejectRead(p)
    BY <2>7 DEF RejectRead, Take, Goto, PC
  <2>8. CASE RejectWrite(p)
    BY <2>0, <2>8 DEF RejectWrite, Finish, Released, PC, Status
  <2>9. CASE SyncLoad(p)
    BY <2>9 DEF SyncLoad, Goto, PC, Work
  <2>10. CASE SyncPolled(p)
    BY <2>10 DEF SyncPolled, Goto, PC
  <2>11. CASE RefreshKeeps(p)
    BY <2>0, <2>11 DEF RefreshKeeps, Finish, Released, PC
  <2>12. CASE RefreshRead(p)
    BY <2>12, AggregateType DEF RefreshRead, Goto, PC
  <2>13. CASE RefreshWrite(p)
    BY <2>0, <2>13 DEF RefreshWrite, Finish, Released, PC
  <2>14. ASSUME NEW t \in Target, LaunchTarget(p, t) PROVE TypeOK'
    <3>1. job' \in [Target -> JobState]
      BY <2>14 DEF LaunchTarget, JobState
    <3>2. copies' \in [Target -> 0..2]
      BY <2>14 DEF LaunchTarget
    <3>3. work' \in [Proc -> [Target -> Work]]
      <4>1. SetWork(p, t, "refused") \/ SetWork(p, t, "started")
        BY <2>14 DEF LaunchTarget
      <4>2. "refused" \in Work /\ "started" \in Work
        BY DEF Work
      <4> QED
        BY <4>1, <4>2, WorkType
    <3> QED
      BY <2>14, <3>1, <3>2, <3>3 DEF LaunchTarget
  <2>15. ASSUME NEW t \in Target, LaunchRecord(p, t) PROVE TypeOK'
    BY <2>15 DEF LaunchRecord, SetWork, Work, Status
  <2>16. ASSUME NEW t \in Target, SyncPoll(p, t) \/ SyncPollFails(p, t) PROVE TypeOK'
    BY <2>16 DEF SyncPoll, SyncPollFails, SetWork, Work
  <2>17. ASSUME NEW t \in Target, SyncRecord(p, t) PROVE TypeOK'
    BY <2>17 DEF SyncRecord, SetWork, Work, Status
  <2>18. ASSUME NEW t \in Target, SyncDelete(p, t) PROVE TypeOK'
    BY <2>18 DEF SyncDelete, SetWork, Work, JobState
  <2> QED
    BY <1>2, <2>1, <2>2, <2>3, <2>4, <2>5, <2>6, <2>7, <2>8, <2>9, <2>10, <2>11,
       <2>12, <2>13, <2>14, <2>15, <2>16, <2>17, <2>18 DEF Handler
<1>3. ASSUME NEW p \in Proc, Crash(p) PROVE TypeOK'
  BY <1>3 DEF Crash, Finish, Released, PC, Work, NoWork, Status
<1>4. ASSUME NEW t \in Target, JobRetries(t) \/ JobEnds(t) \/ JobExpires(t) PROVE TypeOK'
  BY <1>4 DEF JobRetries, JobEnds, JobExpires, JobState
<1>5. CASE LoseLock
  BY <1>5 DEF LoseLock
<1> QED
  BY <1>1, <1>2, <1>3, <1>4, <1>5 DEF Next

\* The request, its destinations, the Jobs and the handlers stay in their ranges.
THEOREM TypeCorrect == Spec => []TypeOK
  BY TypeCorrectInit, TypeCorrectStep, PTL DEF Spec

-----------------------------------------------------------------------------
\* A status is only ever as good as the Job it was read from: a Job that reads
\* succeeded has delivered, and so has one a poll saw succeed.
SuccessInv ==
  /\ TypeOK
  /\ SuccessIsReal
  /\ \A t \in Target : job[t] = "succeeded" => copied[t]
  /\ \A p \in Proc, t \in Target : work[p][t] = "sawSucceeded" => copied[t]

\* A destination shown as SUCCEEDED did receive its image, through every crash,
\* lost lock, expired Job and racing poll.
THEOREM SuccessHolds == Spec => []SuccessIsReal
<1>1. Init => SuccessInv
  BY TypeCorrectInit DEF Init, SuccessInv, SuccessIsReal, NoWork
<1>2. SuccessInv /\ [Next]_vars => SuccessInv'
  <2> SUFFICES ASSUME SuccessInv, [Next]_vars PROVE SuccessInv'
    OBVIOUS
  <2>0. TypeOK'
    BY TypeCorrectStep DEF SuccessInv
  <2> USE DEF SuccessInv, SuccessIsReal, TypeOK
  <2>1. CASE UNCHANGED vars
    BY <2>0, <2>1 DEF vars
  <2>2. ASSUME NEW p \in Proc, Handler(p) PROVE SuccessInv'
    <3>1. CASE ApproveCheck(p) \/ LaunchRefused(p) \/ LaunchLoopEnds(p) \/ LaunchRecorded(p)
               \/ RejectRead(p) \/ SyncPolled(p) \/ RefreshRead(p)
      BY <2>0, <3>1 DEF ApproveCheck, LaunchRefused, LaunchLoopEnds, LaunchRecorded,
                        RejectRead, SyncPolled, RefreshRead
    <3>2. CASE LaunchNothing(p) \/ RefreshKeeps(p) \/ RefreshWrite(p)
      <4>1. Finish(p) /\ UNCHANGED <<target, job, copied>>
        BY <3>2 DEF LaunchNothing, RefreshKeeps, RefreshWrite
      <4> QED
        BY <2>0, <4>1, FinishClears
    <3>9. CASE RejectWrite(p)
      BY <2>0, <3>9, FinishClears DEF RejectWrite
    <3>3. CASE LaunchLoad(p) \/ SyncLoad(p)
      BY <2>0, <3>3 DEF LaunchLoad, SyncLoad
    <3>4. ASSUME NEW t \in Target, LaunchTarget(p, t) PROVE SuccessInv'
      BY <2>0, <3>4 DEF LaunchTarget, SetWork
    <3>5. ASSUME NEW t \in Target, LaunchRecord(p, t) PROVE SuccessInv'
      BY <2>0, <3>5 DEF LaunchRecord, SetWork
    <3>6. ASSUME NEW t \in Target, SyncPoll(p, t) PROVE SuccessInv'
      <4>1. \/ SetWork(p, t, "sawSucceeded") /\ job[t] = "succeeded"
            \/ SetWork(p, t, "none") \/ SetWork(p, t, "sawFailed")
        BY <3>6 DEF SyncPoll
      <4> QED
        BY <2>0, <3>6, <4>1 DEF SyncPoll, SetWork
    <3>10. ASSUME NEW t \in Target, SyncPollFails(p, t) PROVE SuccessInv'
      BY <2>0, <3>10 DEF SyncPollFails, SetWork
    <3>7. ASSUME NEW t \in Target, SyncRecord(p, t) PROVE SuccessInv'
      BY <2>0, <3>7 DEF SyncRecord, SetWork
    <3>8. ASSUME NEW t \in Target, SyncDelete(p, t) PROVE SuccessInv'
      BY <2>0, <3>8 DEF SyncDelete, SetWork
    <3> QED
      BY <2>2, <3>1, <3>2, <3>3, <3>4, <3>5, <3>6, <3>7, <3>8, <3>9,
         <3>10 DEF Handler
  <2>3. ASSUME NEW p \in Proc, Crash(p) PROVE SuccessInv'
    BY <2>0, <2>3 DEF Crash, Finish, NoWork
  <2>4. ASSUME NEW t \in Target, JobRetries(t) \/ JobEnds(t) \/ JobExpires(t) PROVE SuccessInv'
    BY <2>0, <2>4 DEF JobRetries, JobEnds, JobExpires, JobState
  <2>5. CASE LoseLock
    BY <2>0, <2>5 DEF LoseLock
  <2> QED
    BY <2>1, <2>2, <2>3, <2>4, <2>5 DEF Next
<1>3. SuccessInv => SuccessIsReal
  BY DEF SuccessInv
<1> QED
  BY <1>1, <1>2, <1>3, PTL DEF Spec

-----------------------------------------------------------------------------
\* What the per-request lock guarantees while no handler dies holding it.

Moved(t) == target[t] \notin {"PENDING", "REJECTED"}

\* Which steps each kind of handler goes through.
Places ==
  /\ \A p \in Launcher : pc[p] \in {"idle", "checked", "launch", "record", "refresh", "write"}
  /\ \A p \in Rejecter : pc[p] \in {"idle", "reject"}
  /\ \A p \in Syncer : pc[p] \in {"idle", "poll", "refresh", "write"}

\* A launch, and a rejection, holds the lock from its first read to its answer.
Holding ==
  /\ \A p \in Launcher \union Rejecter : pc[p] \notin {"idle", "checked"} <=> lock = p
  /\ lock \notin Syncer

\* A poll is only ever busy with destinations that were launched.
PollsMoved == \A p \in Syncer, t \in Target : work[p][t] # "none" => Moved(t)

\* Nothing has happened to a request that is PENDING, unless a launch is at it.
PendingIsFresh ==
  request = "PENDING" /\ lock \notin Launcher =>
    \A t \in Target : target[t] = "PENDING" /\ job[t] = "absent"

\* What the launch that holds the lock has done so far.
LaunchProgress ==
  \A p \in Launcher :
    /\ pc[p] = "launch" /\ request = "PENDING" =>
         \A t \in Target : target[t] = "PENDING" /\ (job[t] = "absent" \/ work[p][t] = "started")
    /\ pc[p] = "record" => \E t \in Target : work[p][t] = "started" \/ Moved(t)
    /\ pc[p] = "refresh" => \E t \in Target : Moved(t)

\* A roll-up about to be written tells of a destination that was launched.
RollupMoved ==
  \A p \in Proc : pc[p] = "write" =>
    rollup[p] \notin {"PENDING", "REJECTED"} /\ \E t \in Target : Moved(t)

\* The request and its destinations agree.
Agree ==
  /\ lock \in Rejecter => request = "PENDING"
  /\ lock \in Launcher => request # "REJECTED"
  /\ \A t \in Target : target[t] = "REJECTED" => request = "REJECTED"
  /\ request \notin {"PENDING", "REJECTED"} => \E t \in Target : Moved(t)

LockInv ==
  /\ TypeOK
  /\ Places /\ Holding /\ PollsMoved /\ PendingIsFresh /\ LaunchProgress
  /\ RollupMoved /\ Agree /\ RejectedHasNoneRunning

\* The same, from the invariant of the rejection.
LEMMA TypePreserved ==
  ASSUME LockInv, [Next]_vars
  PROVE  TypeOK'
  BY TypeCorrectStep DEF LockInv

\* A new request: no handler is in its way and nothing is launched.
LEMMA LockInit == Init => LockInv
<1> SUFFICES ASSUME Init PROVE LockInv
  OBVIOUS
<1>1. TypeOK
  BY TypeCorrectInit
<1>2. Places /\ Holding
  BY TransfersAssumption DEF Init, Places, Holding, Proc
<1>3. PollsMoved /\ PendingIsFresh /\ LaunchProgress /\ RollupMoved /\ Agree
  BY TransfersAssumption
     DEF Init, PollsMoved, PendingIsFresh, LaunchProgress, RollupMoved, Agree, NoWork, Proc
<1>4. RejectedHasNoneRunning
  BY DEF Init, RejectedHasNoneRunning
<1> QED
  BY <1>1, <1>2, <1>3, <1>4 DEF LockInv

\* The launch.
LEMMA LockLaunch ==
  ASSUME LockInv, TypeOK', NEW p \in Proc,
         \/ ApproveCheck(p) \/ LaunchRefused(p) \/ LaunchLoad(p) \/ LaunchNothing(p)
         \/ LaunchLoopEnds(p) \/ LaunchRecorded(p)
  PROVE  LockInv'
<1> USE TransfersAssumption
    DEF LockInv, TypeOK, Places, Holding, PollsMoved, PendingIsFresh, LaunchProgress,
        RollupMoved, Agree, RejectedHasNoneRunning, Moved, Proc
<1>1. CASE ApproveCheck(p)
  BY <1>1 DEF ApproveCheck, Goto
<1>2. CASE LaunchRefused(p)
  BY <1>2 DEF LaunchRefused, Goto
<1>3. CASE LaunchLoad(p)
  BY <1>3 DEF LaunchLoad, Take, Goto
<1>4. CASE LaunchNothing(p)
  BY <1>4, FinishClears DEF LaunchNothing
<1>5. CASE LaunchLoopEnds(p)
  BY <1>5 DEF LaunchLoopEnds, Goto
<1>6. CASE LaunchRecorded(p)
  BY <1>6 DEF LaunchRecorded, Goto, Idle
<1> QED
  BY <1>1, <1>2, <1>3, <1>4, <1>5, <1>6

\* The launch of one destination: only the holder of the lock creates a Job.
LEMMA LockLaunchTarget ==
  ASSUME LockInv, TypeOK', NEW p \in Proc, NEW t \in Target,
         LaunchTarget(p, t) \/ LaunchRecord(p, t)
  PROVE  LockInv'
<1> USE TransfersAssumption
    DEF LockInv, TypeOK, Places, Holding, PollsMoved, PendingIsFresh, LaunchProgress,
        RollupMoved, Agree, RejectedHasNoneRunning, Moved, Proc
<1>0. p \in Launcher /\ lock = p
  BY DEF LaunchTarget, LaunchRecord
<1>1. CASE LaunchTarget(p, t)
  BY <1>0, <1>1 DEF LaunchTarget, SetWork
<1>2. CASE LaunchRecord(p, t)
  BY <1>0, <1>2 DEF LaunchRecord, SetWork
<1> QED
  BY <1>1, <1>2

\* The rejection: it finds the request as it was created.
LEMMA LockReject ==
  ASSUME LockInv, TypeOK', NEW p \in Proc, RejectRead(p) \/ RejectWrite(p)
  PROVE  LockInv'
<1> USE TransfersAssumption
    DEF LockInv, TypeOK, Places, Holding, PollsMoved, PendingIsFresh, LaunchProgress,
        RollupMoved, Agree, RejectedHasNoneRunning, Moved, Proc
<1>1. CASE RejectRead(p)
  BY <1>1 DEF RejectRead, Take, Goto
<1>2. CASE RejectWrite(p)
  <2>1. p \in Rejecter /\ lock = p
    BY <1>2 DEF RejectWrite
  <2>2. \A t \in Target : target[t] = "PENDING" /\ job[t] = "absent"
    BY <2>1
  <2>3. /\ request' = "REJECTED" /\ target' = [t \in Target |-> "REJECTED"]
        /\ Finish(p) /\ UNCHANGED job
    BY <1>2, <2>2 DEF RejectWrite
  <2>4. Places' /\ Holding' /\ lock' = Nobody
    BY <2>1, <2>3, FinishClears
  <2>5. PollsMoved' /\ PendingIsFresh' /\ LaunchProgress' /\ RollupMoved'
    BY <2>1, <2>2, <2>3, <2>4, FinishClears
  <2>6. Agree' /\ RejectedHasNoneRunning'
    BY <2>2, <2>3, <2>4
  <2> QED
    BY <2>4, <2>5, <2>6
<1> QED
  BY <1>1, <1>2

\* The poll.
LEMMA LockSync ==
  ASSUME LockInv, TypeOK', NEW p \in Proc,
         \/ SyncLoad(p) \/ SyncPolled(p)
         \/ \E t \in Target : \/ SyncPoll(p, t) \/ SyncPollFails(p, t)
                              \/ SyncRecord(p, t) \/ SyncDelete(p, t)
  PROVE  LockInv'
<1> USE TransfersAssumption
    DEF LockInv, TypeOK, Places, Holding, PollsMoved, PendingIsFresh, LaunchProgress,
        RollupMoved, Agree, RejectedHasNoneRunning, Moved, Proc
<1>1. CASE SyncLoad(p)
  BY <1>1 DEF SyncLoad, Goto
<1>2. CASE SyncPolled(p)
  BY <1>2 DEF SyncPolled, Goto
<1>3. ASSUME NEW t \in Target, SyncPoll(p, t) \/ SyncPollFails(p, t) PROVE LockInv'
  BY <1>3 DEF SyncPoll, SyncPollFails, SetWork
<1>4. ASSUME NEW t \in Target, SyncRecord(p, t) PROVE LockInv'
  BY <1>4 DEF SyncRecord, SetWork
<1>5. ASSUME NEW t \in Target, SyncDelete(p, t) PROVE LockInv'
  BY <1>5 DEF SyncDelete, SetWork
<1> QED
  BY <1>1, <1>2, <1>3, <1>4, <1>5

\* The roll-up, whoever does it.
LEMMA LockRefresh ==
  ASSUME LockInv, TypeOK', NEW p \in Proc, RefreshKeeps(p) \/ RefreshRead(p) \/ RefreshWrite(p)
  PROVE  LockInv'
<1> USE TransfersAssumption
    DEF LockInv, TypeOK, Places, Holding, PollsMoved, PendingIsFresh, LaunchProgress,
        RollupMoved, Agree, RejectedHasNoneRunning, Moved, Proc
<1>1. CASE RefreshKeeps(p)
  BY <1>1, FinishClears DEF RefreshKeeps, AggregateStatus
<1>2. CASE RefreshRead(p)
  BY <1>2 DEF RefreshRead, Goto, AggregateStatus
<1>3. CASE RefreshWrite(p)
  <2>1. request' = rollup[p] /\ Finish(p) /\ UNCHANGED <<target, job>>
    BY <1>3 DEF RefreshWrite
  <2>2. request' \notin {"PENDING", "REJECTED"} /\ \E t \in Target : Moved(t)
    BY <1>3, <2>1 DEF RefreshWrite
  <2>3. Places' /\ Holding'
    BY <1>3, <2>1, FinishClears DEF RefreshWrite
  <2>4. PollsMoved' /\ PendingIsFresh' /\ RollupMoved' /\ RejectedHasNoneRunning'
    BY <2>1, <2>2, FinishClears
  <2>5. LaunchProgress'
    BY <2>1, <2>2, FinishClears
  <2>6. lock \notin Rejecter
    BY <2>2
  <2>7. lock' \notin Rejecter
    BY <2>1, <2>6, FinishClears
  <2>8. Agree'
    BY <2>1, <2>2, <2>7
  <2> QED
    BY <2>3, <2>4, <2>5, <2>8
<1> QED
  BY <1>1, <1>2, <1>3

\* Kubernetes ends, retries and removes Jobs: none appears.
LEMMA LockJobs ==
  ASSUME LockInv, TypeOK', NEW t \in Target, JobRetries(t) \/ JobEnds(t) \/ JobExpires(t)
  PROVE  LockInv'
<1> USE TransfersAssumption
    DEF LockInv, TypeOK, Places, Holding, PollsMoved, PendingIsFresh, LaunchProgress,
        RollupMoved, Agree, RejectedHasNoneRunning, Moved, Proc
<1>1. \A x \in Target : job[x] = "absent" => job'[x] = "absent"
  BY DEF JobRetries, JobEnds, JobExpires
<1> QED
  BY <1>1 DEF JobRetries, JobEnds, JobExpires

\* Every step.
LEMMA LockStep ==
  ASSUME MaxCrashes = 0, MaxLockLosses = 0
  PROVE  LockInv /\ [Next]_vars => LockInv'
<1> SUFFICES ASSUME LockInv, [Next]_vars PROVE LockInv'
  OBVIOUS
<1>0. TypeOK'
  BY TypePreserved
<1>1. CASE UNCHANGED vars
  BY <1>0, <1>1
     DEF vars, LockInv, TypeOK, Places, Holding, PollsMoved, PendingIsFresh,
         LaunchProgress, RollupMoved, Agree, RejectedHasNoneRunning, Moved
<1>2. ASSUME NEW p \in Proc, Handler(p) PROVE LockInv'
  BY <1>0, <1>2, LockLaunch, LockLaunchTarget, LockReject, LockSync, LockRefresh DEF Handler
<1>3. ASSUME NEW p \in Proc, Crash(p) PROVE FALSE
  BY <1>3 DEF Crash, LockInv, TypeOK
<1>4. ASSUME NEW t \in Target, JobRetries(t) \/ JobEnds(t) \/ JobExpires(t) PROVE LockInv'
  BY <1>0, <1>4, LockJobs
<1>5. CASE LoseLock
  BY <1>5 DEF LoseLock, LockInv, TypeOK
<1> QED
  BY <1>1, <1>2, <1>3, <1>4, <1>5 DEF Next

\* A rejected request has no destination launched and no Job, as long as no
\* handler dies and no lock is lost: nothing else is assumed of the
\* interleaving, the Jobs or the polls.
THEOREM RejectionHolds ==
  ASSUME MaxCrashes = 0, MaxLockLosses = 0
  PROVE  Spec => []RejectedHasNoneRunning
<1>1. LockInv => RejectedHasNoneRunning
  BY DEF LockInv
<1> QED
  BY <1>1, LockStep, LockInit, PTL DEF Spec

-----------------------------------------------------------------------------
\* A Job per destination: what makes a launch that is tried again adopt the Job of
\* the one that died.

\* While no lock is lost, whatever dies: a launch holds the lock, what it has still to
\* launch is PENDING, and a Job that is gone was the Job of a destination that moved on.
CopyInv ==
  /\ TypeOK
  /\ Places
  /\ CopiedOnce
  /\ lockLosses = 0 /\ ~TtlExpires =>
       /\ Holding
       /\ PollsMoved
       /\ \A p \in Launcher, t \in Target :
            work[p][t] = "todo" => pc[p] = "launch" /\ target[t] = "PENDING"
       /\ \A t \in Target : copies[t] # 0 => job[t] # "absent" \/ Moved(t)

\* Nothing is copied before the first launch.
LEMMA CopyInit == Init => CopyInv
<1> SUFFICES ASSUME Init PROVE CopyInv
  OBVIOUS
<1>1. TypeOK
  BY TypeCorrectInit
<1>2. Places /\ Holding
  BY TransfersAssumption DEF Init, Places, Holding, Proc
<1>3. PollsMoved /\ CopiedOnce
  BY TransfersAssumption DEF Init, PollsMoved, CopiedOnce, NoWork, Proc
<1>4. \A p \in Launcher, t \in Target : work[p][t] # "todo"
  BY DEF Init, NoWork, Proc
<1> QED
  BY <1>1, <1>2, <1>3, <1>4 DEF CopyInv, Init

\* A handler's step: only the holder of the lock creates a Job, and only where there is none.
LEMMA CopyHandler ==
  ASSUME CopyInv, TypeOK', NEW p \in Proc, Handler(p)
  PROVE  CopyInv'
<1> USE TransfersAssumption
    DEF CopyInv, TypeOK, Places, Holding, PollsMoved, CopiedOnce, Moved, Proc
<1>1. CASE ApproveCheck(p)
  BY <1>1 DEF ApproveCheck, Goto
<1>2. CASE LaunchRefused(p)
  BY <1>2 DEF LaunchRefused, Goto
<1>3. CASE LaunchLoad(p)
  BY <1>3 DEF LaunchLoad, Take, Goto
<1>4. CASE LaunchNothing(p) \/ RefreshKeeps(p) \/ RefreshWrite(p)
  <2>1. Finish(p) /\ UNCHANGED <<target, job, copies, lockLosses>>
    BY <1>4 DEF LaunchNothing, RefreshKeeps, RefreshWrite
  <2> QED
    BY <2>1, FinishClears
<1>5. CASE LaunchLoopEnds(p)
  BY <1>5 DEF LaunchLoopEnds, Goto
<1>6. CASE LaunchRecorded(p)
  BY <1>6 DEF LaunchRecorded, Goto, Idle
<1>7. CASE RejectRead(p)
  BY <1>7 DEF RejectRead, Take, Goto
<1>8. CASE RejectWrite(p)
  BY <1>8, FinishClears DEF RejectWrite
<1>9. CASE SyncLoad(p)
  BY <1>9 DEF SyncLoad, Goto
<1>10. CASE SyncPolled(p)
  BY <1>10 DEF SyncPolled, Goto
<1>11. CASE RefreshRead(p)
  BY <1>11 DEF RefreshRead, Goto
<1>12. ASSUME NEW t \in Target, LaunchTarget(p, t) PROVE CopyInv'
  BY <1>12 DEF LaunchTarget, SetWork
<1>13. ASSUME NEW t \in Target, LaunchRecord(p, t) PROVE CopyInv'
  BY <1>13 DEF LaunchRecord, SetWork
<1>14. ASSUME NEW t \in Target, SyncPoll(p, t) \/ SyncPollFails(p, t) PROVE CopyInv'
  BY <1>14 DEF SyncPoll, SyncPollFails, SetWork
<1>15. ASSUME NEW t \in Target, SyncRecord(p, t) PROVE CopyInv'
  BY <1>15 DEF SyncRecord, SetWork
<1>16. ASSUME NEW t \in Target, SyncDelete(p, t) PROVE CopyInv'
  BY <1>16 DEF SyncDelete, SetWork
<1> QED
  BY <1>1, <1>2, <1>3, <1>4, <1>5, <1>6, <1>7, <1>8, <1>9, <1>10, <1>11, <1>12, <1>13,
     <1>14, <1>15, <1>16 DEF Handler

\* An image is never copied twice, whatever dies and however often the launch is tried
\* again, as long as no lock is lost and no ended Job is removed by its TTL.
THEOREM CopiedOnceHolds == Spec => []CopiedOnce
<1>1. CopyInv /\ [Next]_vars => CopyInv'
  <2> SUFFICES ASSUME CopyInv, [Next]_vars PROVE CopyInv'
    OBVIOUS
  <2>0. TypeOK'
    BY TypeCorrectStep DEF CopyInv
  <2> USE DEF CopyInv, TypeOK, Places, Holding, PollsMoved, CopiedOnce, Moved
  <2>1. CASE UNCHANGED vars
    BY <2>0, <2>1 DEF vars
  <2>2. ASSUME NEW p \in Proc, Handler(p) PROVE CopyInv'
    BY <2>0, <2>2, CopyHandler
  <2>3. ASSUME NEW p \in Proc, Crash(p) PROVE CopyInv'
    <3>1. Finish(p) /\ UNCHANGED <<target, job, copies, lockLosses>>
      BY <2>3 DEF Crash
    <3> QED
      BY <2>0, <3>1, FinishClears, TransfersAssumption DEF Proc
  <2>4. ASSUME NEW t \in Target, JobRetries(t) \/ JobEnds(t) \/ JobExpires(t) PROVE CopyInv'
    BY <2>0, <2>4 DEF JobRetries, JobEnds, JobExpires
  <2>5. CASE LoseLock
    BY <2>0, <2>5 DEF LoseLock
  <2> QED
    BY <2>1, <2>2, <2>3, <2>4, <2>5 DEF Next
<1>2. CopyInv => CopiedOnce
  BY DEF CopyInv
<1> QED
  BY <1>1, <1>2, CopyInit, PTL DEF Spec

-----------------------------------------------------------------------------
\* What is recorded of a destination is what its only Job did.

\* Nothing reads as failed that is not: no handler dies, no lock is lost, Jobs keep
\* until they are deleted and have one pod, and one page is open.
Undisturbed ==
  /\ MaxCrashes = 0 /\ MaxLockLosses = 0
  /\ ~TtlExpires /\ ~PodRetries
  /\ \A p, q \in Syncer : p = q

\* The Job of a destination and what is recorded of it agree.
JobsAgree ==
  \A t \in Target :
    /\ job[t] # "retrying"
    /\ job[t] = "succeeded" => copied[t]
    /\ copied[t] => job[t] = "succeeded" \/ target[t] = "SUCCEEDED"
    /\ job[t] = "running" => target[t] \in {"PENDING", "RUNNING"}
    /\ target[t] = "SUCCEEDED" => copied[t]

\* What a launch has made of a destination that is still PENDING.
LaunchesAgree ==
  /\ \A p \in Launcher, t \in Target :
       /\ work[p][t] \in {"none", "todo", "started", "refused"}
       /\ work[p][t] # "none" => pc[p] \in {"launch", "record"} /\ target[t] = "PENDING"
  /\ \A t \in Target :
       /\ target[t] = "PENDING"
       /\ \A p \in Launcher : work[p][t] # "started"
       => job[t] = "absent"

\* What a poll saw of a destination that is still RUNNING.
PollsAgree ==
  \A p \in Syncer, t \in Target :
    /\ work[p][t] \in {"none", "todo", "sawSucceeded", "sawFailed", "delete"}
    /\ work[p][t] \in {"todo", "sawSucceeded", "sawFailed"} => target[t] = "RUNNING"
    /\ work[p][t] = "sawSucceeded" => copied[t]
    /\ work[p][t] = "sawFailed" => ~copied[t] /\ job[t] \in {"absent", "failed"}
    /\ work[p][t] = "delete" => target[t] \in {"SUCCEEDED", "FAILED"}

FateInv == LockInv /\ FailureIsReal /\ JobsAgree /\ LaunchesAgree /\ PollsAgree

\* Nothing has been launched, polled or recorded.
LEMMA FateInit == Init => FailureIsReal /\ JobsAgree /\ LaunchesAgree /\ PollsAgree
  BY TransfersAssumption
     DEF Init, FailureIsReal, JobsAgree, LaunchesAgree, PollsAgree, NoWork, Proc

\* The launch.
LEMMA FateLaunch ==
  ASSUME Undisturbed, FateInv, LockInv', NEW p \in Proc,
         \/ ApproveCheck(p) \/ LaunchRefused(p) \/ LaunchLoad(p) \/ LaunchNothing(p)
         \/ LaunchLoopEnds(p) \/ LaunchRecorded(p)
  PROVE  FateInv'
<1> USE TransfersAssumption
    DEF LockInv, TypeOK, Places, Holding, PollsMoved, PendingIsFresh, LaunchProgress,
        RejectedHasNoneRunning, Moved, FateInv, FailureIsReal, JobsAgree, LaunchesAgree,
        PollsAgree, Undisturbed, Agree, Proc
<1>1. CASE ApproveCheck(p)
  BY <1>1 DEF ApproveCheck, Goto
<1>2. CASE LaunchRefused(p)
  BY <1>2 DEF LaunchRefused, Goto
<1>3. CASE LaunchLoad(p)
  BY <1>3 DEF LaunchLoad, Take, Goto
<1>4. CASE LaunchNothing(p)
  BY <1>4, FinishClears DEF LaunchNothing
<1>5. CASE LaunchLoopEnds(p)
  BY <1>5 DEF LaunchLoopEnds, Goto
<1>6. CASE LaunchRecorded(p)
  BY <1>6 DEF LaunchRecorded, Goto, Idle
<1> QED
  BY <1>1, <1>2, <1>3, <1>4, <1>5, <1>6

\* The launch of one destination.
LEMMA FateLaunchTarget ==
  ASSUME Undisturbed, FateInv, LockInv', NEW p \in Proc, NEW t \in Target,
         LaunchTarget(p, t) \/ LaunchRecord(p, t)
  PROVE  FateInv'
<1> USE TransfersAssumption
    DEF LockInv, TypeOK, Places, Holding, PollsMoved, PendingIsFresh, LaunchProgress,
        RejectedHasNoneRunning, Moved, FateInv, FailureIsReal, JobsAgree, LaunchesAgree,
        PollsAgree, Undisturbed, Agree, Proc
<1>a. p \in Launcher /\ lock = p
  BY DEF LaunchTarget, LaunchRecord
<1>b. \A q \in Launcher : q # p => pc[q] \in {"idle", "checked"}
  BY <1>a
<1>0. p \in Launcher /\ lock = p /\ \A q \in Launcher : q # p => work[q][t] = "none"
  BY <1>a, <1>b
<1>1. CASE LaunchTarget(p, t)
  BY <1>0, <1>1 DEF LaunchTarget, SetWork
<1>2. CASE LaunchRecord(p, t)
  BY <1>0, <1>2 DEF LaunchRecord, SetWork
<1> QED
  BY <1>1, <1>2

\* The rejection: no launch is at it, so what is PENDING has no Job.
LEMMA FateReject ==
  ASSUME Undisturbed, FateInv, LockInv', NEW p \in Proc, RejectRead(p) \/ RejectWrite(p)
  PROVE  FateInv'
<1> USE TransfersAssumption
    DEF LockInv, TypeOK, Places, Holding, PollsMoved, PendingIsFresh, LaunchProgress,
        RejectedHasNoneRunning, Moved, FateInv, FailureIsReal, JobsAgree, LaunchesAgree,
        PollsAgree, Undisturbed, Agree, Proc
<1>1. CASE RejectRead(p)
  BY <1>1 DEF RejectRead, Take, Goto
<1>2. CASE RejectWrite(p)
  BY <1>2, FinishClears DEF RejectWrite
<1> QED
  BY <1>1, <1>2

\* The poll.
LEMMA FateSync ==
  ASSUME Undisturbed, FateInv, LockInv', NEW p \in Proc,
         \/ SyncLoad(p) \/ SyncPolled(p)
         \/ \E t \in Target : \/ SyncPoll(p, t) \/ SyncPollFails(p, t)
                              \/ SyncRecord(p, t) \/ SyncDelete(p, t)
  PROVE  FateInv'
<1> USE TransfersAssumption
    DEF LockInv, TypeOK, Places, Holding, PollsMoved, PendingIsFresh, LaunchProgress,
        RejectedHasNoneRunning, Moved, FateInv, FailureIsReal, JobsAgree, LaunchesAgree,
        PollsAgree, Undisturbed, Agree, Proc
<1>0. p \in Syncer /\ \A q \in Syncer : q = p
  BY DEF SyncLoad, SyncPolled, SyncPoll, SyncPollFails, SyncRecord, SyncDelete
<1>1. CASE SyncLoad(p)
  BY <1>0, <1>1 DEF SyncLoad, Goto
<1>2. CASE SyncPolled(p)
  BY <1>0, <1>2 DEF SyncPolled, Goto
<1>3. ASSUME NEW t \in Target, SyncPoll(p, t) \/ SyncPollFails(p, t) PROVE FateInv'
  BY <1>0, <1>3 DEF SyncPoll, SyncPollFails, SetWork, JobState
<1>4. ASSUME NEW t \in Target, SyncRecord(p, t) PROVE FateInv'
  BY <1>0, <1>4 DEF SyncRecord, SetWork
<1>5. ASSUME NEW t \in Target, SyncDelete(p, t) PROVE FateInv'
  BY <1>0, <1>5 DEF SyncDelete, SetWork
<1> QED
  BY <1>1, <1>2, <1>3, <1>4, <1>5

\* The roll-up changes the request only.
LEMMA FateRefresh ==
  ASSUME Undisturbed, FateInv, LockInv', NEW p \in Proc,
         RefreshKeeps(p) \/ RefreshRead(p) \/ RefreshWrite(p)
  PROVE  FateInv'
<1> USE TransfersAssumption
    DEF LockInv, TypeOK, Places, Holding, PollsMoved, PendingIsFresh, LaunchProgress,
        RejectedHasNoneRunning, Moved, FateInv, FailureIsReal, JobsAgree, LaunchesAgree,
        PollsAgree, Undisturbed, Agree, Proc
<1>1. CASE RefreshKeeps(p)
  BY <1>1, FinishClears DEF RefreshKeeps
<1>2. CASE RefreshRead(p)
  BY <1>2 DEF RefreshRead, Goto
<1>3. CASE RefreshWrite(p)
  BY <1>3, FinishClears DEF RefreshWrite
<1> QED
  BY <1>1, <1>2, <1>3

\* Kubernetes: a Job ends once.
LEMMA FateJobs ==
  ASSUME Undisturbed, FateInv, LockInv', NEW t \in Target,
         JobRetries(t) \/ JobEnds(t) \/ JobExpires(t)
  PROVE  FateInv'
  BY DEF LockInv, TypeOK, Places, Holding, PollsMoved, PendingIsFresh, LaunchProgress,
        RejectedHasNoneRunning, Moved, FateInv, FailureIsReal, JobsAgree, LaunchesAgree,
        PollsAgree, Undisturbed, Agree, Proc, JobRetries, JobEnds, JobExpires

\* Every step.
LEMMA FateStep ==
  ASSUME Undisturbed
  PROVE  FateInv /\ [Next]_vars => FateInv'
<1> SUFFICES ASSUME FateInv, [Next]_vars PROVE FateInv'
  OBVIOUS
<1>0. LockInv'
  BY LockStep DEF FateInv, Undisturbed
<1>1. CASE UNCHANGED vars
  BY <1>0, <1>1 DEF vars, FateInv, FailureIsReal, JobsAgree, LaunchesAgree, PollsAgree
<1>2. ASSUME NEW p \in Proc, Handler(p) PROVE FateInv'
  BY <1>0, <1>2, FateLaunch, FateLaunchTarget, FateReject, FateSync, FateRefresh DEF Handler
<1>3. ASSUME NEW p \in Proc, Crash(p) PROVE FALSE
  BY <1>3 DEF Crash, FateInv, LockInv, TypeOK, Undisturbed
<1>4. ASSUME NEW t \in Target, JobRetries(t) \/ JobEnds(t) \/ JobExpires(t) PROVE FateInv'
  BY <1>0, <1>4, FateJobs
<1>5. CASE LoseLock
  BY <1>5 DEF LoseLock, FateInv, LockInv, TypeOK, Undisturbed
<1> QED
  BY <1>1, <1>2, <1>3, <1>4, <1>5 DEF Next

\* A destination shown as FAILED did not receive its image, when nothing disturbs the
\* transfer; each part of Undisturbed is needed.
THEOREM FailureHolds ==
  ASSUME Undisturbed
  PROVE  Spec => []FailureIsReal
<1>1. Init => FateInv
  BY LockInit, FateInit DEF FateInv
<1>2. FateInv => FailureIsReal
  BY DEF FateInv
<1> QED
  BY <1>1, <1>2, FateStep, PTL DEF Spec

\* The decision that the promise sees: rejected, not taken yet, or approved.
Decision ==
  IF request = "REJECTED" THEN "rejected"
  ELSE IF \A t \in Target : target[t] = "PENDING" THEN "open" ELSE "approved"

\* A step that leaves the destinations alone does not touch the decision either.
LEMMA DecisionStays ==
  ASSUME FateInv, FateInv', UNCHANGED target
  PROVE  Decision' = Decision
  BY TransfersAssumption
     DEF Decision, FateInv, LockInv, RejectedHasNoneRunning, Agree

\* Every step of the request takes a step of the promise, or none.
LEMMA PromiseStep ==
  ASSUME Undisturbed, FateInv, FateInv', [Next]_vars
  PROVE  [Promised!PNext]_(Promised!promiseVars)
<1> USE TransfersAssumption DEF Promised!promiseVars
<1>1. ASSUME UNCHANGED <<target, copied>> PROVE UNCHANGED Promised!promiseVars
  BY <1>1, DecisionStays DEF Decision
<1>2. ASSUME NEW p \in Proc, NEW t \in Target, LaunchRecord(p, t) PROVE Promised!Launch(t)
  <2>1. p \in Launcher /\ lock = p
    BY <1>2 DEF LaunchRecord, FateInv, LockInv, Places, Holding, Proc
  <2>2. request # "REJECTED" /\ UNCHANGED <<request, copied>>
    BY <1>2, <2>1 DEF LaunchRecord, FateInv, LockInv, Agree
  <2>3. target[t] = "PENDING"
    BY <1>2, <2>1 DEF LaunchRecord, FateInv, LaunchesAgree
  <2>4. PICK r \in {"RUNNING", "FAILED"} : target' = [target EXCEPT ![t] = r]
    BY <1>2 DEF LaunchRecord
  <2>5. target'[t] = r
    BY <2>4 DEF FateInv, LockInv, TypeOK
  <2>6. r = "FAILED" => ~copied[t]
    BY <2>2, <2>5 DEF FateInv, FailureIsReal
  <2>7. Decision # "rejected" /\ Decision' = "approved"
    BY <2>2, <2>4, <2>5 DEF Decision
  <2> QED
    BY <2>2, <2>3, <2>4, <2>6, <2>7 DEF Promised!Launch, Decision
<1>3. ASSUME NEW p \in Proc, RejectWrite(p) PROVE Promised!Reject
  <2>1. lock = p /\ p \in Rejecter
    BY <1>3 DEF RejectWrite, FateInv, LockInv, Places, Holding, Proc
  <2>2. request = "PENDING" /\ \A t \in Target : target[t] = "PENDING" /\ job[t] = "absent"
    BY <2>1 DEF FateInv, LockInv, Agree, PendingIsFresh
  <2>3. \A t \in Target : ~copied[t]
    BY <2>2 DEF FateInv, JobsAgree
  <2>4. request' = "REJECTED" /\ target' = [t \in Target |-> "REJECTED"] /\ UNCHANGED copied
    BY <1>3, <2>2 DEF RejectWrite
  <2>5. Decision = "open" /\ Decision' = "rejected"
    BY <2>2, <2>4 DEF Decision
  <2> QED
    BY <2>3, <2>4, <2>5 DEF Promised!Reject, Decision
<1>4. ASSUME NEW p \in Proc, NEW t \in Target, SyncRecord(p, t) PROVE Promised!Settle(t)
  <2>1. p \in Syncer
    BY <1>4 DEF SyncRecord, FateInv, LockInv, Places, Proc
  <2>2. target[t] = "RUNNING" /\ (copied[t] <=> work[p][t] = "sawSucceeded")
    BY <1>4, <2>1 DEF SyncRecord, FateInv, PollsAgree
  <2>3. /\ target' = [target EXCEPT ![t] = IF copied[t] THEN "SUCCEEDED" ELSE "FAILED"]
        /\ UNCHANGED <<request, copied>>
    BY <1>4, <2>2 DEF SyncRecord
  <2>4. Decision = "approved" /\ Decision' = "approved"
    BY <2>2, <2>3 DEF Decision, FateInv, LockInv, TypeOK, RejectedHasNoneRunning
  <2> QED
    BY <2>2, <2>3, <2>4 DEF Promised!Settle, Decision
<1>5. ASSUME NEW t \in Target, JobEnds(t)
      PROVE  Promised!Deliver(t) \/ UNCHANGED Promised!promiseVars
  <2>1. job[t] = "running" /\ UNCHANGED <<request, target>>
    BY <1>5 DEF JobEnds, FateInv, JobsAgree
  <2>2. target[t] \in {"PENDING", "RUNNING"} /\ request # "REJECTED"
    BY <2>1 DEF FateInv, JobsAgree, LockInv, RejectedHasNoneRunning
  <2>3. copied' = [copied EXCEPT ![t] = TRUE] \/ copied' = copied
    <3>1. PICK r \in {"succeeded", "failed"} :
            copied' = [copied EXCEPT ![t] = copied[t] \/ r = "succeeded"]
      BY <1>5 DEF JobEnds
    <3>2. copied \in [Target -> BOOLEAN]
      BY DEF FateInv, LockInv, TypeOK
    <3>3. CASE r = "succeeded"
      BY <3>1, <3>3
    <3>4. CASE r = "failed"
      BY <3>1, <3>2, <3>4
    <3> QED
      BY <3>3, <3>4
  <2>4. Decision # "rejected" /\ Decision' = Decision
    BY <2>1, <2>2 DEF Decision
  <2> QED
    BY <2>1, <2>2, <2>3, <2>4 DEF Promised!Deliver, Decision
<1>6. CASE UNCHANGED vars
  BY <1>1, <1>6 DEF vars
<1>7. ASSUME NEW p \in Proc, Handler(p) PROVE [Promised!PNext]_(Promised!promiseVars)
  BY <1>1, <1>2, <1>3, <1>4, <1>7
     DEF Handler, Promised!PNext, ApproveCheck, LaunchRefused, LaunchLoad, LaunchNothing,
         LaunchLoopEnds, LaunchRecorded, RejectRead, SyncLoad, SyncPolled, RefreshKeeps,
         RefreshRead, RefreshWrite, LaunchTarget, SyncPoll, SyncPollFails, SyncDelete
<1>8. ASSUME NEW p \in Proc, Crash(p) PROVE UNCHANGED <<target, copied>>
  BY <1>8 DEF Crash
<1>9. ASSUME NEW t \in Target, JobRetries(t) \/ JobExpires(t) PROVE UNCHANGED <<target, copied>>
  BY <1>9 DEF JobRetries, JobExpires
<1>10. CASE LoseLock
  BY <1>1, <1>10 DEF LoseLock
<1> QED
  BY <1>1, <1>5, <1>6, <1>7, <1>8, <1>9, <1>10 DEF Next, Promised!PNext

\* The request implements its promise: one decision, no copy once it is rejected, and
\* final results that are what the copies did.
THEOREM PromiseKept ==
  ASSUME Undisturbed
  PROVE  Spec => KeepsPromise
<1>1. Init => FateInv
  BY LockInit, FateInit DEF FateInv
<1>2. Init => Promised!PInit
  BY TransfersAssumption DEF Init, Promised!PInit
<1>3. FateInv /\ FateInv' /\ [Next]_vars => [Promised!PNext]_(Promised!promiseVars)
  <2> SUFFICES ASSUME FateInv, FateInv', [Next]_vars
               PROVE  [Promised!PNext]_(Promised!promiseVars)
    OBVIOUS
  <2> QED
    BY PromiseStep
<1> QED
  BY <1>1, <1>2, <1>3, FateStep, PTL DEF Spec, KeepsPromise, Promised!Promise

=============================================================================
