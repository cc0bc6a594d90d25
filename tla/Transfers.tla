------------------------------ MODULE Transfers ------------------------------
(***************************************************************************)
(* One transfer request and its destinations: the launch under the         *)
(* per-request advisory lock (lib/transfers/launch.ts), the rejection      *)
(* (api/transfers/[id]/reject), the unlocked poll a browser triggers       *)
(* (api/transfers/[id]/sync) and the roll-up of the destinations' statuses *)
(* onto the request (lib/transfers/status.ts).                             *)
(*                                                                         *)
(* Requests share nothing but the Kubernetes API, and the lock is taken    *)
(* per request id, so one request stands for all of them.  The Kubernetes  *)
(* API is external: a Job is absent, running or ended.                     *)
(***************************************************************************)
EXTENDS Naturals, FiniteSets

CONSTANTS
  Target,         \* destinations of the request (TransferTarget rows)
  Launcher,       \* handlers that approve, or create and launch at once
  Rejecter,       \* handlers of POST /api/transfers/[id]/reject
  Syncer,         \* handlers of POST /api/transfers/[id]/sync
  Nobody,         \* the lock's owner when it is free
  MaxCrashes,     \* bound: handlers that may die half way
  MaxLockLosses,  \* bound: lock transactions lost while their handler runs on
  TtlExpires,     \* whether ttlSecondsAfterFinished may remove an ended Job
  PodRetries      \* whether backoffLimit lets a Job replace a failed pod

Proc == Launcher \union Rejecter \union Syncer

ASSUME TransfersAssumption ==
  /\ Target # {} /\ IsFiniteSet(Target)
  /\ Launcher \intersect Rejecter = {}
  /\ Launcher \intersect Syncer = {}
  /\ Rejecter \intersect Syncer = {}
  /\ Nobody \notin Proc
  /\ MaxCrashes \in Nat /\ MaxLockLosses \in Nat
  /\ TtlExpires \in BOOLEAN /\ PodRetries \in BOOLEAN

VARIABLES
  request,   \* TransferRequest.status
  target,    \* TransferTarget.status, per destination
  job,       \* the destination's Kubernetes Job
  copies,    \* history: Jobs created for the destination (capped at 2)
  copied,    \* history: some Job of the destination has delivered the image
  lock,      \* owner of the request's advisory lock
  pc,        \* where each handler is
  work,      \* each handler's view of each destination
  rollup,    \* the status a refresh has computed and is about to write
  crashes, lockLosses

vars == <<request, target, job, copies, copied, lock, pc, work, rollup,
          crashes, lockLosses>>

Status == {"PENDING", "RUNNING", "SUCCEEDED", "FAILED", "REJECTED"}
\* A Job that is retrying has a failed pod and a running one.
JobState == {"absent", "running", "retrying", "succeeded", "failed"}
PC == {"idle", "checked", "launch", "record", "reject", "poll", "refresh", "write"}
\* What a handler still has to do about a destination: nothing; launch or poll
\* it; record what the launch or the poll gave; delete the ended Job.
Work == {"none", "todo", "started", "refused", "sawSucceeded", "sawFailed", "delete"}
Settled == {"SUCCEEDED", "FAILED", "REJECTED"}

NoWork == [t \in Target |-> "none"]

TypeOK ==
  /\ request \in Status
  /\ target \in [Target -> Status]
  /\ job \in [Target -> JobState]
  /\ copies \in [Target -> 0..2]
  /\ copied \in [Target -> BOOLEAN]
  /\ lock \in Proc \union {Nobody}
  /\ pc \in [Proc -> PC]
  /\ work \in [Proc -> [Target -> Work]]
  /\ rollup \in [Proc -> Status]
  /\ crashes \in 0..MaxCrashes
  /\ lockLosses \in 0..MaxLockLosses

\* Seeded bug: a failed destination does not count as settled.
AggregateStatusBug(ts) ==
  IF \A t \in Target : ts[t] = "PENDING" THEN "PENDING"
  ELSE IF \E t \in Target : ts[t] \notin {"SUCCEEDED", "REJECTED"} THEN "RUNNING"
  ELSE "SUCCEEDED"

(***************************************************************************)
(* aggregateTransferStatus: the request-level view of a set of             *)
(* destinations.                                                           *)
(***************************************************************************)
AggregateStatus(ts) ==
  LET Every(S) == \A t \in Target : ts[t] \in S
  IN  IF Every({"PENDING"}) THEN "PENDING"
      ELSE IF ~Every(Settled) THEN "RUNNING"
      ELSE IF Every({"REJECTED"}) THEN "REJECTED"
      ELSE IF Every({"SUCCEEDED", "REJECTED"}) THEN "SUCCEEDED"
      ELSE "FAILED"

\* At most one handler is a launch of a request its own caller just created
\* (POST /api/transfers); the others start from the approval queue.
Init ==
  /\ request = "PENDING"
  /\ target = [t \in Target |-> "PENDING"]
  /\ job = [t \in Target |-> "absent"]
  /\ copies = [t \in Target |-> 0]
  /\ copied = [t \in Target |-> FALSE]
  /\ lock = Nobody
  /\ \E creators \in SUBSET Launcher :
       /\ \A p, q \in creators : p = q
       /\ pc = [p \in Proc |-> IF p \in creators THEN "checked" ELSE "idle"]
  /\ work = [p \in Proc |-> NoWork]
  /\ rollup = [p \in Proc |-> "PENDING"]
  /\ crashes = 0
  /\ lockLosses = 0

-----------------------------------------------------------------------------
(* withTransferLock: pg_try_advisory_xact_lock never waits.                *)

Take(p) == lock = Nobody /\ lock' = p

Released(p) == IF lock = p THEN Nobody ELSE lock

\* The handler answers: its transaction ends and with it the lock it may hold.
Finish(p) ==
  /\ pc' = [pc EXCEPT ![p] = "idle"]
  /\ work' = [work EXCEPT ![p] = NoWork]
  /\ rollup' = [rollup EXCEPT ![p] = "PENDING"]
  /\ lock' = Released(p)

Goto(p, label) == pc' = [pc EXCEPT ![p] = label]
SetWork(p, t, w) == work' = [work EXCEPT ![p][t] = w]
Idle(p) == \A t \in Target : work[p][t] = "none"

-----------------------------------------------------------------------------
(* Launch.                                                                 *)

\* approve/route.ts reads the status before, and outside of, the lock.
ApproveCheck(p) ==
  /\ p \in Launcher /\ pc[p] = "idle"
  /\ request = "PENDING"
  /\ Goto(p, "checked")
  /\ UNCHANGED <<request, target, job, copies, copied, lock, work, rollup, crashes, lockLosses>>

\* The lock is busy, or the request is rejected or has nothing pending: the
\* launch throws.
LaunchRefused(p) ==
  /\ p \in Launcher /\ pc[p] = "checked"
  /\ \/ lock # Nobody
     \/ request = "REJECTED"
     \/ \A t \in Target : target[t] # "PENDING"
  /\ Goto(p, "idle")
  /\ UNCHANGED <<request, target, job, copies, copied, lock, work, rollup, crashes, lockLosses>>

\* Seeded bug: the launch does not take the lock.
LaunchLoadBug(p) ==
  /\ p \in Launcher /\ pc[p] = "checked"
  /\ request # "REJECTED"
  /\ \E t \in Target : target[t] = "PENDING"
  /\ work' = [work EXCEPT ![p] =
                [t \in Target |-> IF target[t] = "PENDING" THEN "todo" ELSE "none"]]
  /\ Goto(p, "launch")
  /\ UNCHANGED <<request, target, job, copies, copied, lock, rollup, crashes, lockLosses>>

LaunchLoad(p) ==
  /\ p \in Launcher /\ pc[p] = "checked"
  /\ Take(p)
  /\ request # "REJECTED"
  /\ \E t \in Target : target[t] = "PENDING"
  /\ work' = [work EXCEPT ![p] =
                [t \in Target |-> IF target[t] = "PENDING" THEN "todo" ELSE "none"]]
  /\ Goto(p, "launch")
  /\ UNCHANGED <<request, target, job, copies, copied, rollup, crashes, lockLosses>>

\* Seeded bug: an existing Job is not looked for.
LaunchTargetBug(p, t) ==
  /\ pc[p] = "launch" /\ work[p][t] = "todo"
  /\ SetWork(p, t, "started")
  /\ job' = [job EXCEPT ![t] = "running"]
  /\ copies' = [copies EXCEPT ![t] = IF @ < 2 THEN @ + 1 ELSE @]
  /\ UNCHANGED <<request, target, copied, lock, pc, rollup, crashes, lockLosses>>

\* launchTarget with ensureTransferResources: a destination is refused (no
\* robot, no live member, Kubernetes said no), its existing Job is adopted, a
\* Job is created under the destination's own name, or the POST's outcome stays
\* unknown and the destination is reported as started without a Job.
LaunchTarget(p, t) ==
  /\ pc[p] = "launch" /\ work[p][t] = "todo"
  /\ \/ /\ SetWork(p, t, "refused")
        /\ UNCHANGED <<job, copies>>
     \/ /\ SetWork(p, t, "started")
        /\ job' = [job EXCEPT ![t] = IF @ = "absent" THEN "running" ELSE @]
        /\ copies' = [copies EXCEPT ![t] =
                        IF job[t] = "absent" /\ @ < 2 THEN @ + 1 ELSE @]
     \/ /\ job[t] = "absent"
        /\ SetWork(p, t, "started")
        /\ UNCHANGED <<job, copies>>
  /\ UNCHANGED <<request, target, copied, lock, pc, rollup, crashes, lockLosses>>

\* Nothing started: nothing is written and the request stays retryable.
LaunchNothing(p) ==
  /\ pc[p] = "launch"
  /\ \A t \in Target : work[p][t] \in {"none", "refused"}
  /\ Finish(p)
  /\ UNCHANGED <<request, target, job, copies, copied, crashes, lockLosses>>

LaunchLoopEnds(p) ==
  /\ pc[p] = "launch"
  /\ \A t \in Target : work[p][t] # "todo"
  /\ \E t \in Target : work[p][t] = "started"
  /\ Goto(p, "record")
  /\ UNCHANGED <<request, target, job, copies, copied, lock, work, rollup, crashes, lockLosses>>

\* Seeded bug: a started destination is recorded as approved only.
LaunchRecordBug(p, t) ==
  /\ pc[p] = "record" /\ work[p][t] \in {"started", "refused"}
  /\ target' = [target EXCEPT ![t] =
                  IF work[p][t] = "started" THEN "APPROVED" ELSE "FAILED"]
  /\ SetWork(p, t, "none")
  /\ UNCHANGED <<request, job, copies, copied, lock, pc, rollup, crashes, lockLosses>>

\* One row of the Promise.all over the outcomes.
LaunchRecord(p, t) ==
  /\ pc[p] = "record" /\ work[p][t] \in {"started", "refused"}
  /\ target' = [target EXCEPT ![t] =
                  IF work[p][t] = "started" THEN "RUNNING" ELSE "FAILED"]
  /\ SetWork(p, t, "none")
  /\ UNCHANGED <<request, job, copies, copied, lock, pc, rollup, crashes, lockLosses>>

LaunchRecorded(p) ==
  /\ pc[p] = "record" /\ Idle(p)
  /\ Goto(p, "refresh")
  /\ UNCHANGED <<request, target, job, copies, copied, lock, work, rollup, crashes, lockLosses>>

-----------------------------------------------------------------------------
(* Reject: the status is read under the lock, and the request and its      *)
(* pending destinations are settled in one transaction of their own.       *)

\* Seeded bug: the rejection does not take the lock.
RejectReadBug(p) ==
  /\ p \in Rejecter /\ pc[p] = "idle"
  /\ request = "PENDING"
  /\ Goto(p, "reject")
  /\ UNCHANGED <<request, target, job, copies, copied, lock, work, rollup, crashes, lockLosses>>

RejectRead(p) ==
  /\ p \in Rejecter /\ pc[p] = "idle"
  /\ Take(p)
  /\ request = "PENDING"
  /\ Goto(p, "reject")
  /\ UNCHANGED <<request, target, job, copies, copied, work, rollup, crashes, lockLosses>>

RejectWrite(p) ==
  /\ pc[p] = "reject"
  /\ request' = "REJECTED"
  /\ target' = [t \in Target |-> IF target[t] = "PENDING" THEN "REJECTED" ELSE target[t]]
  /\ Finish(p)
  /\ UNCHANGED <<job, copies, copied, crashes, lockLosses>>

-----------------------------------------------------------------------------
(* Sync: unlocked, all the running destinations at once.                   *)

SyncLoad(p) ==
  /\ p \in Syncer /\ pc[p] = "idle"
  /\ work' = [work EXCEPT ![p] =
                [t \in Target |-> IF target[t] = "RUNNING" THEN "todo" ELSE "none"]]
  /\ Goto(p, "poll")
  /\ UNCHANGED <<request, target, job, copies, copied, lock, rollup, crashes, lockLosses>>

\* Seeded bug: a Job that is gone is taken for one that ended well.
SyncPollBug(p, t) ==
  /\ pc[p] = "poll" /\ work[p][t] = "todo"
  /\ SetWork(p, t, CASE job[t] = "running" -> "none"
                     [] job[t] = "failed" -> "sawFailed"
                     [] OTHER -> "sawSucceeded")
  /\ UNCHANGED <<request, target, job, copies, copied, lock, pc, rollup, crashes, lockLosses>>

\* getJobPhase: any failed pod reads "failed", and a Job that is gone reads
\* "not-found", which the route takes for a failure.
SyncPoll(p, t) ==
  /\ pc[p] = "poll" /\ work[p][t] = "todo"
  /\ SetWork(p, t, CASE job[t] = "running" -> "none"
                     [] job[t] = "succeeded" -> "sawSucceeded"
                     [] OTHER -> "sawFailed")
  /\ UNCHANGED <<request, target, job, copies, copied, lock, pc, rollup, crashes, lockLosses>>

\* Seeded bug: an unreadable Job is taken for a failed one.
SyncPollFailsBug(p, t) ==
  /\ pc[p] = "poll" /\ work[p][t] = "todo"
  /\ SetWork(p, t, "sawFailed")
  /\ UNCHANGED <<request, target, job, copies, copied, lock, pc, rollup, crashes, lockLosses>>

\* A Kubernetes error while reading the phase counts as still running.
SyncPollFails(p, t) ==
  /\ pc[p] = "poll" /\ work[p][t] = "todo"
  /\ SetWork(p, t, "none")
  /\ UNCHANGED <<request, target, job, copies, copied, lock, pc, rollup, crashes, lockLosses>>

SyncRecord(p, t) ==
  /\ pc[p] = "poll" /\ work[p][t] \in {"sawSucceeded", "sawFailed"}
  /\ target' = [target EXCEPT ![t] =
                  IF work[p][t] = "sawSucceeded" THEN "SUCCEEDED" ELSE "FAILED"]
  /\ SetWork(p, t, "delete")
  /\ UNCHANGED <<request, job, copies, copied, lock, pc, rollup, crashes, lockLosses>>

\* A failed deletion is swallowed.
SyncDelete(p, t) ==
  /\ pc[p] = "poll" /\ work[p][t] = "delete"
  /\ \/ job' = [job EXCEPT ![t] = "absent"]
     \/ UNCHANGED job
  /\ SetWork(p, t, "none")
  /\ UNCHANGED <<request, target, copies, copied, lock, pc, rollup, crashes, lockLosses>>

\* Seeded bug: the poll answers without rolling the destinations up.
SyncPolledBug(p) ==
  /\ pc[p] = "poll" /\ Idle(p)
  /\ Finish(p)
  /\ UNCHANGED <<request, target, job, copies, copied, crashes, lockLosses>>

SyncPolled(p) ==
  /\ pc[p] = "poll" /\ Idle(p)
  /\ Goto(p, "refresh")
  /\ UNCHANGED <<request, target, job, copies, copied, lock, work, rollup, crashes, lockLosses>>

-----------------------------------------------------------------------------
(* refreshTransferStatus: one read of the request with its targets, then   *)
(* one write if the roll-up moved.                                         *)

RefreshKeeps(p) ==
  /\ pc[p] = "refresh"
  /\ request = "REJECTED" \/ AggregateStatus(target) = request
  /\ Finish(p)
  /\ UNCHANGED <<request, target, job, copies, copied, crashes, lockLosses>>

RefreshRead(p) ==
  /\ pc[p] = "refresh"
  /\ request # "REJECTED" /\ AggregateStatus(target) # request
  /\ rollup' = [rollup EXCEPT ![p] = AggregateStatus(target)]
  /\ Goto(p, "write")
  /\ UNCHANGED <<request, target, job, copies, copied, lock, work, crashes, lockLosses>>

RefreshWrite(p) ==
  /\ pc[p] = "write"
  /\ request' = rollup[p]
  /\ Finish(p)
  /\ UNCHANGED <<target, job, copies, copied, crashes, lockLosses>>

-----------------------------------------------------------------------------
(* The environment.                                                        *)

JobRetries(t) ==
  /\ PodRetries /\ job[t] = "running"
  /\ job' = [job EXCEPT ![t] = "retrying"]
  /\ UNCHANGED <<request, target, copies, copied, lock, pc, work, rollup, crashes, lockLosses>>

JobEnds(t) ==
  /\ job[t] \in {"running", "retrying"}
  /\ \E r \in {"succeeded", "failed"} :
       /\ job' = [job EXCEPT ![t] = r]
       /\ copied' = [copied EXCEPT ![t] = @ \/ r = "succeeded"]
  /\ UNCHANGED <<request, target, copies, lock, pc, work, rollup, crashes, lockLosses>>

JobExpires(t) ==
  /\ TtlExpires /\ job[t] \in {"succeeded", "failed"}
  /\ job' = [job EXCEPT ![t] = "absent"]
  /\ UNCHANGED <<request, target, copies, copied, lock, pc, work, rollup, crashes, lockLosses>>

\* A handler dies, or one of its database writes fails: PostgreSQL drops the lock.
Crash(p) ==
  /\ crashes < MaxCrashes /\ pc[p] # "idle"
  /\ crashes' = crashes + 1
  /\ Finish(p)
  /\ UNCHANGED <<request, target, job, copies, copied, lockLosses>>

\* The lock's transaction ends (timeout, lost connection) but run() goes on.
LoseLock ==
  /\ lockLosses < MaxLockLosses /\ lock # Nobody
  /\ lockLosses' = lockLosses + 1
  /\ lock' = Nobody
  /\ UNCHANGED <<request, target, job, copies, copied, pc, work, rollup, crashes>>

Handler(p) ==
  \/ ApproveCheck(p) \/ LaunchRefused(p) \/ LaunchLoad(p) \/ LaunchNothing(p)
  \/ LaunchLoopEnds(p) \/ LaunchRecorded(p)
  \/ RejectRead(p) \/ RejectWrite(p)
  \/ SyncLoad(p) \/ SyncPolled(p)
  \/ RefreshKeeps(p) \/ RefreshRead(p) \/ RefreshWrite(p)
  \/ \E t \in Target :
       \/ LaunchTarget(p, t) \/ LaunchRecord(p, t)
       \/ SyncPoll(p, t) \/ SyncPollFails(p, t) \/ SyncRecord(p, t) \/ SyncDelete(p, t)

Next ==
  \/ \E p \in Proc : Handler(p) \/ Crash(p)
  \/ \E t \in Target : JobRetries(t) \/ JobEnds(t) \/ JobExpires(t)
  \/ LoseLock

Spec == Init /\ [][Next]_vars

-----------------------------------------------------------------------------
(* Fairness.  A handler that started is run to its end by Node; a Job ends *)
(* (activeDeadlineSeconds).  SyncLoad is a user with the page open: weak   *)
(* fairness of it says somebody keeps looking, as sync/route.ts notes.     *)
(* Nobody is obliged to approve or reject.                                 *)

Ends(p) ==
  \/ LaunchRefused(p) \/ LaunchLoad(p) \/ LaunchNothing(p) \/ LaunchLoopEnds(p)
  \/ LaunchRecorded(p) \/ RejectWrite(p) \/ SyncPolled(p)
  \/ RefreshKeeps(p) \/ RefreshRead(p) \/ RefreshWrite(p)
  \/ \E t \in Target :
       LaunchTarget(p, t) \/ LaunchRecord(p, t) \/ SyncRecord(p, t) \/ SyncDelete(p, t)

Fairness ==
  /\ \A p \in Proc : WF_vars(Ends(p))
  /\ \A p \in Syncer : WF_vars(SyncLoad(p))
  /\ \A p \in Syncer, t \in Target :
       /\ WF_vars(SyncPoll(p, t) \/ SyncPollFails(p, t))
       /\ SF_vars(SyncPoll(p, t))
  /\ \A t \in Target : WF_vars(JobEnds(t))

FairSpec == Spec /\ Fairness

-----------------------------------------------------------------------------
(* Properties.                                                             *)

\* A destination recorded as SUCCEEDED did receive its image: the status comes
\* from a Job seen succeeded, whatever crashed, expired or raced since.
SuccessIsReal ==
  \A t \in Target : target[t] = "SUCCEEDED" => copied[t]

\* A destination recorded as FAILED did not receive its image: sync/route.ts
\* "reads each running Job's terminal state from Kubernetes and reflects it
\* back onto its TransferTarget".
FailureIsReal ==
  \A t \in Target : target[t] = "FAILED" => ~copied[t]

\* status.ts: "a rejected request has none running".  The launch and the
\* rejection exclude each other, so a rejected request never had a Job.
RejectedHasNoneRunning ==
  request = "REJECTED" =>
    \A t \in Target : target[t] = "REJECTED" /\ job[t] = "absent"

\* A Job is named after its destination, so an attempt that dies half way leaves
\* a Job the next attempt adopts: as long as it has not expired, and the lock was
\* not lost while a launch ran on, the image is never copied twice.
CopiedOnce ==
  lockLosses = 0 /\ ~TtlExpires => \A t \in Target : copies[t] <= 1

\* With the page open every running destination is settled, and the request is
\* left with the roll-up of its settled destinations, even if the launch died
\* between recording them and rolling them up.
SyncSettles ==
  /\ \A t \in Target : target[t] = "RUNNING" ~> target[t] \in Settled
  /\ (\A t \in Target : target[t] \in {"SUCCEEDED", "FAILED"})
       ~> (request \in {AggregateStatus(target), "REJECTED"})

\* A request in flight comes to an end.  lock.ts counts on "the next attempt" to
\* "recover already-created resources" of a launch that died.
InFlightEnds == request = "RUNNING" ~> request # "RUNNING"

\* The request keeps the promise of TransferPromise.
Promised == INSTANCE TransferPromise WITH
  decision <- IF request = "REJECTED" THEN "rejected"
              ELSE IF \A t \in Target : target[t] = "PENDING" THEN "open" ELSE "approved",
  result <- target,
  delivered <- copied

KeepsPromise == Promised!Promise

=============================================================================
