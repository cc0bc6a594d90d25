------------------------------- MODULE Builds -------------------------------
(***************************************************************************)
(* One scheduled build (lib/builds/service.ts, worker.ts): a row, the      *)
(* CronJob that stands for it, a revision with its Secret for each time it *)
(* was applied, and the Jobs and pods the cluster makes of them.  The      *)
(* operations of the Gateway, and the collector, hold the build lock; the  *)
(* cluster does not, nor does what changes the credentials a revision was  *)
(* made from.  A pod publishes only if its init container created the      *)
(* build's Lease (deploy/build-runner/runner.py), which the collector      *)
(* releases.  A Job keeps its slot until Kubernetes has forgotten it.      *)
(***************************************************************************)
EXTENDS Naturals, FiniteSets

CONSTANTS
  Slot,        \* Jobs at one time
  None,        \* no row, no object
  MaxRevs,     \* bound: revisions
  MaxDrifts,   \* bound: changes of the credentials or the CA
  MaxEdits,    \* bound: saves, pauses, deletions and manual runs
  MaxCrashes   \* bound: operations that die

VARIABLES
  row,      \* the ScheduledBuild row
  made,     \* per revision: the credentials it was made from, None if there is no row
  overtaken,  \* history: revisions installed, shown as not applied, and replaced by a later one
  runs,     \* per Job: the status of its BuildRun row
  secrets,  \* the revisions whose Secret exists
  cron,     \* the CronJob
  seen,     \* the CronJob as its controller knows it
  job, pod, \* per slot
  lease,    \* the slot of the pod that holds the Lease
  cred,     \* the credentials and CA of the destination
  op,       \* what the holder of the build lock is doing
  healthy,  \* whether the faults have come to an end
  edits, crashes

cluster == <<cron, seen, job, pod, lease, secrets>>
vars == <<row, made, overtaken, runs, cluster, cred, op, healthy, edits, crashes>>

Rev == 1..MaxRevs
Final == {"succeeded", "failed", "skipped"}

NoJob == [st |-> "none", rev |-> None]
Idle == [kind |-> "idle", pc |-> "idle", on |-> FALSE, rev |-> None, live |-> None, lease |-> None,
         jobs |-> [s \in Slot |-> NoJob], used |-> {}]

TypeOK ==
  /\ row = None \/ row \in [deleting : BOOLEAN, enabled : BOOLEAN, applied : BOOLEAN,
                            quiet : BOOLEAN, rev : Rev \union {None}]
  /\ made \in [Rev -> 0..MaxDrifts \union {None}] /\ secrets \subseteq Rev /\ overtaken \subseteq Rev
  /\ runs \in [Slot -> Final \union {"none", "pending", "unknown"}]
  /\ {cron, seen} \subseteq [rev : Rev, suspend : BOOLEAN] \union {None}
  /\ job \in [Slot -> [st : {"none", "active", "succeeded", "failed", "deleting"},
                       rev : Rev \union {None}]]
  /\ pod \in [Slot -> {"none", "pending", "publishing"} \union Final]
  /\ lease \in Slot \union {None} /\ cred \in 0..MaxDrifts
  /\ op.kind \in {"idle", "save", "apply", "pause", "invalidate", "run", "delete", "collect"}

Init ==
  /\ row = None /\ made = [r \in Rev |-> None] /\ secrets = {} /\ overtaken = {}
  /\ runs = [s \in Slot |-> "none"] /\ cron = None /\ seen = None
  /\ job = [s \in Slot |-> NoJob] /\ pod = [s \in Slot |-> "none"]
  /\ lease = None /\ cred = 0 /\ op = Idle
  /\ healthy = FALSE /\ edits = 0 /\ crashes = 0

-----------------------------------------------------------------------------
(* Operations begin with the lock free.                                    *)

Begin(kind, pc, on) ==
  /\ op = Idle
  /\ op' = [Idle EXCEPT !.kind = kind, !.pc = pc, !.on = on]

Edit == ~healthy /\ edits < MaxEdits /\ edits' = edits + 1

\* A build that exists is suspended before its row changes.
StartSave(on) ==
  /\ Edit /\ (row # None => ~row.deleting) /\ \E r \in Rev : made[r] = None
  /\ Begin("save", IF row = None THEN "write" ELSE "suspend", on)
  /\ UNCHANGED <<row, made, overtaken, runs, cluster, cred, healthy, crashes>>

StartPause ==
  /\ Edit /\ row # None
  /\ Begin("pause", "suspend", FALSE)
  /\ UNCHANGED <<row, made, overtaken, runs, cluster, cred, healthy, crashes>>

StartApply ==
  /\ Edit /\ row # None /\ ~row.deleting /\ \E r \in Rev : made[r] = None
  /\ Begin("apply", "suspend", FALSE)
  /\ UNCHANGED <<row, made, overtaken, runs, cluster, cred, healthy, crashes>>

\* The robot is rotated or revoked, or the CA replaced: builds are invalidated first.
StartInvalidate ==
  /\ Edit /\ row # None /\ row.applied
  /\ Begin("invalidate", "suspend", FALSE)
  /\ UNCHANGED <<row, made, overtaken, runs, cluster, cred, healthy, crashes>>

\* No object, and nobody who still speaks of one.
Free(s) == job[s] = NoJob /\ pod[s] = "none" /\ s # lease /\ s # op.lease /\ op.jobs[s] = NoJob

\* A run is refused while a Job is active, and when the credentials have moved.
StartRun ==
  /\ Edit /\ row # None /\ ~row.deleting /\ row.applied
  /\ IF made[row.rev] # cred THEN Begin("invalidate", "suspend", FALSE)
     ELSE /\ \A s \in Slot : job[s].st # "active"
          /\ Begin("run", "post", FALSE)
  /\ UNCHANGED <<row, made, overtaken, runs, cluster, cred, healthy, crashes>>

StartDelete ==
  /\ Edit /\ row # None
  /\ Begin("delete", "suspend", FALSE)
  /\ row' = [row EXCEPT !.deleting = TRUE, !.enabled = FALSE]
  /\ UNCHANGED <<made, overtaken, runs, cluster, cred, healthy, crashes>>

\* A seeded bug: the credentials are not compared.
StartCollectBug ==
  /\ row # None
  /\ IF row.deleting THEN Begin("delete", "suspend", FALSE)
     ELSE Begin("collect", IF row.applied THEN "jobs" ELSE "suspend", FALSE)
  /\ UNCHANGED <<row, made, overtaken, runs, cluster, cred, healthy, edits, crashes>>

\* The collector takes up a deletion, suspends what is not applied, and invalidates
\* what was made from credentials that are no longer those of the destination.
StartCollect ==
  /\ row # None
  /\ IF row.deleting THEN Begin("delete", "suspend", FALSE)
     ELSE Begin("collect", IF row.applied /\ made[row.rev] = cred THEN "jobs" ELSE "suspend", FALSE)
  /\ UNCHANGED <<row, made, overtaken, runs, cluster, cred, healthy, edits, crashes>>

-----------------------------------------------------------------------------
(* Their steps.  A call to the cluster leads on; or fails, having done     *)
(* nothing, or its answer is lost: the operation then ends, and a build    *)
(* that was being applied is marked as not applied.                        *)

Fails ==
  /\ ~healthy
  /\ op' = Idle
  /\ row' = IF op.kind = "apply" THEN [row EXCEPT !.applied = FALSE] ELSE row

LeadsTo(pc) == \/ op' = [op EXCEPT !.pc = pc] /\ UNCHANGED row
               \/ Fails

CallFails ==
  /\ op.pc \notin {"idle", "write", "pause", "invalid", "applied", "sweep", "forget"}
  /\ Fails
  /\ UNCHANGED <<made, overtaken, runs, cluster, cred, healthy, edits, crashes>>

Suspend ==
  /\ op.pc = "suspend"
  /\ cron' = IF cron = None THEN cron ELSE [cron EXCEPT !.suspend = TRUE]
  /\ LeadsTo(CASE op.kind = "save" -> "write" [] op.kind = "apply" -> "revise"
               [] op.kind = "pause" -> "pause" [] op.kind = "delete" -> "uncron"
               [] OTHER -> "invalid")
  /\ UNCHANGED <<made, overtaken, runs, seen, job, pod, lease, secrets, cred, healthy, edits, crashes>>

\* saveBuild writes the row, and goes on to apply it.
Write ==
  /\ op.pc = "write"
  /\ row' = [deleting |-> FALSE, enabled |-> op.on, applied |-> FALSE,
             quiet |-> row # None /\ row.quiet, rev |-> IF row = None THEN None ELSE row.rev]
  /\ op' = [op EXCEPT !.kind = "apply", !.pc = "suspend"]
  /\ UNCHANGED <<made, overtaken, runs, cluster, cred, healthy, edits, crashes>>

\* The destination may not be ready.
Revise ==
  /\ op.pc = "revise"
  /\ \E r \in Rev :
       /\ made[r] = None /\ \A q \in Rev : q < r => made[q] # None
       /\ made' = [made EXCEPT ![r] = cred]
       /\ op' = [op EXCEPT !.pc = "secret", !.rev = r]
  /\ UNCHANGED <<row, overtaken, runs, cluster, cred, healthy, edits, crashes>>

CreateSecret ==
  /\ op.pc = "secret"
  /\ secrets' = secrets \union {op.rev}
  /\ LeadsTo("install")
  /\ UNCHANGED <<made, overtaken, runs, cron, seen, job, pod, lease, cred, healthy, edits, crashes>>

Install ==
  /\ op.pc = "install"
  /\ cron' = [rev |-> op.rev, suspend |-> ~row.enabled]
  /\ overtaken' = overtaken \union
                    (IF cron = None \/ cron.rev = row.rev THEN {} ELSE {cron.rev})
  /\ LeadsTo("applied")
  /\ UNCHANGED <<made, runs, seen, job, pod, lease, secrets, cred, healthy, edits, crashes>>

Finish ==
  /\ op.pc \in {"applied", "pause", "invalid"}
  /\ row' = CASE op.pc = "applied" -> [row EXCEPT !.applied = TRUE, !.rev = op.rev, !.quiet = FALSE]
              [] op.pc = "pause" -> [row EXCEPT !.enabled = FALSE]
              [] op.pc = "invalid" -> [row EXCEPT !.applied = FALSE]
  /\ op' = IF op.kind = "collect" THEN [op EXCEPT !.pc = "jobs"] ELSE Idle
  /\ UNCHANGED <<made, overtaken, runs, cluster, cred, healthy, edits, crashes>>

\* The run is recorded before the Job is posted.  (With no slot left it is not: a bound.)
Post ==
  /\ op.pc = "post"
  /\ \/ \E s \in Slot :
          /\ Free(s)
          /\ runs' = [runs EXCEPT ![s] = "pending"]
          /\ \/ /\ job' = [job EXCEPT ![s] = [st |-> "active", rev |-> row.rev]]
                /\ pod' = [pod EXCEPT ![s] = "pending"]
             \/ ~healthy /\ UNCHANGED <<job, pod>>
     \/ /\ \A s \in Slot : ~Free(s)
        /\ UNCHANGED <<runs, job, pod>>
  /\ op' = Idle
  /\ UNCHANGED <<row, made, overtaken, cron, seen, lease, secrets, cred, healthy, edits, crashes>>

-----------------------------------------------------------------------------
(* deleteBuild: the schedule, the Jobs, and, once Jobs and pods are gone,  *)
(* the rest.                                                               *)

\* Foreground too: it is gone when its controller has let go of it.
RemoveCron ==
  /\ op.pc = "uncron"
  /\ cron' = None /\ seen' = None
  /\ LeadsTo("unjob")
  /\ UNCHANGED <<made, overtaken, runs, job, pod, lease, secrets, cred, healthy, edits, crashes>>

\* Foreground: a Job goes once its pods have.
RemoveJobs ==
  /\ op.pc = "unjob"
  /\ job' = [s \in Slot |-> IF job[s] = NoJob THEN NoJob ELSE [job[s] EXCEPT !.st = "deleting"]]
  /\ LeadsTo("check")
  /\ UNCHANGED <<made, overtaken, runs, cron, seen, pod, lease, secrets, cred, healthy, edits, crashes>>

\* A seeded bug: the Jobs were deleted, so they are gone.
CheckGoneBug ==
  /\ op.pc = "check"
  /\ op' = [op EXCEPT !.pc = "unsecret"]
  /\ UNCHANGED <<row, made, overtaken, runs, cluster, cred, healthy, edits, crashes>>

CheckGone ==
  /\ op.pc = "check"
  /\ op' = IF cron = None /\ \A s \in Slot : job[s] = NoJob /\ pod[s] = "none"
           THEN [op EXCEPT !.pc = "unsecret"] ELSE Idle
  /\ UNCHANGED <<row, made, overtaken, runs, cluster, cred, healthy, edits, crashes>>

RemoveSecrets ==
  /\ op.pc = "unsecret"
  /\ secrets' = secrets \ {r \in Rev : made[r] # None}
  /\ LeadsTo("unlease")
  /\ UNCHANGED <<made, overtaken, runs, cron, seen, job, pod, lease, cred, healthy, edits, crashes>>

RemoveLease ==
  /\ op.pc = "unlease"
  /\ lease' = None
  /\ LeadsTo("forget")
  /\ UNCHANGED <<made, overtaken, runs, cron, seen, job, pod, secrets, cred, healthy, edits, crashes>>

Forget ==
  /\ op.pc = "forget"
  /\ row' = None /\ made' = [r \in Rev |-> None] /\ runs' = [s \in Slot |-> "none"]
  /\ op' = Idle /\ overtaken' = {}
  /\ UNCHANGED <<cluster, cred, healthy, edits, crashes>>

-----------------------------------------------------------------------------
(* collectBuilds, of a build that is not being deleted.                    *)

\* It reads the Jobs, then the Lease, and then the pods.
Look ==
  /\ \/ op.pc = "jobs" /\ op' = [op EXCEPT !.pc = "lease", !.jobs = job]
     \/ op.pc = "lease" /\ op' = [op EXCEPT !.pc = "pods", !.lease = lease]
  /\ UNCHANGED <<row, made, overtaken, runs, cluster, cred, healthy, edits, crashes>>

\* runOutcome: success is what a pod reported.
Outcome(s) ==
  CASE op.jobs[s].st = "active" -> "pending"
    [] op.jobs[s].st = "succeeded" ->
         IF pod[s] \in {"succeeded", "skipped"} THEN pod[s] ELSE "unknown"
    [] OTHER -> "failed"

\* A seeded bug: what was collected is replaced.
RecordedBug(s) ==
  IF op.jobs[s] # NoJob THEN Outcome(s)
  ELSE IF runs[s] = "pending" THEN "unknown" ELSE runs[s]

\* retainRunOutcome, and the Jobs that went before they were collected.
Recorded(s) ==
  IF op.jobs[s] # NoJob
    THEN IF Outcome(s) = "unknown" /\ runs[s] \in Final THEN runs[s] ELSE Outcome(s)
    ELSE IF runs[s] = "pending" THEN "unknown" ELSE runs[s]

\* A seeded bug: the Job has ended, so its pod has.
AbandonedBug == op.lease # None /\ op.jobs[op.lease].st # "active"

\* The Lease it read is of a pod that it does not find, or finds ended.
Abandoned == op.lease # None /\ pod[op.lease] \in Final \union {"none"}

\* The pods, and what is recorded of them.
Record ==
  /\ op.pc = "pods"
  /\ \/ /\ runs' = [s \in Slot |-> Recorded(s)]
        /\ op' = [op EXCEPT !.pc = IF Abandoned THEN "release" ELSE "cron",
                            !.jobs = Idle.jobs,
                            !.lease = IF Abandoned THEN op.lease ELSE None,
                            !.used = ({op.jobs[s].rev : s \in Slot} \union
                                       {job[s].rev : s \in {t \in Slot : pod[t] # "none"}}) \ {None}]
     \/ Fails /\ UNCHANGED runs
  /\ UNCHANGED <<row, made, overtaken, cluster, cred, healthy, edits, crashes>>

Release ==
  /\ op.pc = "release"
  /\ lease' = IF lease = op.lease THEN None ELSE lease
  /\ \/ op' = [op EXCEPT !.pc = "cron", !.lease = None] /\ UNCHANGED row
     \/ Fails
  /\ UNCHANGED <<made, overtaken, runs, cron, seen, job, pod, secrets, cred, healthy, edits, crashes>>

ReadCron ==
  /\ op.pc = "cron"
  /\ row' = IF cron = None THEN [row EXCEPT !.applied = FALSE] ELSE row
  /\ op' = [op EXCEPT !.pc = "sweep", !.live = IF cron = None THEN None ELSE cron.rev]
  /\ UNCHANGED <<made, overtaken, runs, cluster, cred, healthy, edits, crashes>>

\* A seeded bug: the revision of the row is the one that runs.
InUseBug(r) == r = row.rev \/ r \in op.used

\* A revision that the row, the CronJob, a Job or a pod refers to.
InUse(r) == r = row.rev \/ r = op.live \/ r \in op.used

Sweep ==
  /\ op.pc = "sweep"
  /\ secrets' = IF row.quiet THEN {r \in secrets : InUse(r)} ELSE secrets
  /\ op' = Idle
  /\ UNCHANGED <<row, made, overtaken, runs, cron, seen, job, pod, lease, cred, healthy, edits, crashes>>

-----------------------------------------------------------------------------
(* The cluster.                                                            *)

Kube == UNCHANGED <<row, made, overtaken, cred, op, healthy, edits, crashes>>

\* The controller's cache catches up.
ControllerSees ==
  /\ seen # cron /\ seen' = cron
  /\ Kube /\ UNCHANGED <<runs, cron, job, pod, lease, secrets>>

\* The schedule comes round: a Job is made from the CronJob as the controller knows it.
CronFires(s) ==
  /\ seen # None /\ ~seen.suspend /\ Free(s)
  /\ job' = [job EXCEPT ![s] = [st |-> "active", rev |-> seen.rev]]
  /\ pod' = [pod EXCEPT ![s] = "pending"]
  /\ runs' = [runs EXCEPT ![s] = "none"]
  /\ Kube /\ UNCHANGED <<cron, seen, lease, secrets>>

\* A pod runs when its volumes can be mounted; its init container creates the
\* Lease, or finds that it is held.
Claim(s) ==
  /\ pod[s] = "pending" /\ job[s].rev \in secrets
  /\ pod' = [pod EXCEPT ![s] = IF lease = None THEN "publishing" ELSE "skipped"]
  /\ lease' = IF lease = None THEN s ELSE lease
  /\ Kube /\ UNCHANGED <<runs, cron, seen, job, secrets>>

PodEnds(s) ==
  /\ \/ pod[s] = "publishing" /\ \E end \in {"succeeded", "failed"} : pod' = [pod EXCEPT ![s] = end]
     \/ /\ pod[s] = "pending" /\ job[s].st # "active"
        /\ pod' = [pod EXCEPT ![s] = "failed"]
  /\ Kube /\ UNCHANGED <<runs, cron, seen, job, lease, secrets>>

\* With its pod, or at its deadline, while the pod is still being stopped.
JobEnds(s) ==
  /\ job[s].st = "active"
  /\ \E end \in {"succeeded", "failed"} :
       /\ end = "succeeded" => pod[s] \in {"succeeded", "skipped"}
       /\ end = "failed" => pod[s] \notin {"succeeded", "skipped"}
       /\ job' = [job EXCEPT ![s].st = end]
  /\ Kube /\ UNCHANGED <<runs, cron, seen, pod, lease, secrets>>

\* Pods can expire before their Job; a Job goes when it has no pod.
Expires(s) ==
  /\ job[s].st # "active"
  /\ \/ /\ pod[s] \in Final /\ pod' = [pod EXCEPT ![s] = "none"]
        /\ UNCHANGED job
     \/ /\ job[s] # NoJob /\ pod[s] = "none" /\ job' = [job EXCEPT ![s] = NoJob]
        /\ UNCHANGED pod
  /\ Kube /\ UNCHANGED <<runs, cron, seen, lease, secrets>>

-----------------------------------------------------------------------------
(* What else happens.                                                      *)

\* buildsJobTtlSeconds after the build was applied: the controller caught up long before.
Quiet ==
  /\ row # None /\ row.rev # None /\ ~row.quiet /\ seen = cron /\ op = Idle
  /\ row' = [row EXCEPT !.quiet = TRUE]
  /\ UNCHANGED <<made, overtaken, runs, cluster, cred, op, healthy, edits, crashes>>

\* A realigned secret, or a new CA: the build lock is not asked for.
Drift ==
  /\ cred < MaxDrifts /\ ~healthy /\ cred' = cred + 1
  /\ UNCHANGED <<row, made, overtaken, runs, cluster, op, healthy, edits, crashes>>

Crash ==
  /\ op # Idle /\ crashes < MaxCrashes /\ ~healthy
  /\ op' = Idle /\ crashes' = crashes + 1
  /\ UNCHANGED <<row, made, overtaken, runs, cluster, cred, healthy, edits>>

\* The faults, and the requests, come to an end.
Heal ==
  /\ ~healthy /\ healthy' = TRUE
  /\ UNCHANGED <<row, made, overtaken, runs, cluster, cred, op, edits, crashes>>

Operate ==
  \/ CallFails \/ Suspend \/ Write \/ Revise \/ CreateSecret \/ Install \/ Finish
  \/ Post
  \/ RemoveCron \/ RemoveJobs \/ CheckGone \/ RemoveSecrets \/ RemoveLease \/ Forget
  \/ Look \/ Record \/ Release \/ ReadCron \/ Sweep

Runs(s) == Claim(s) \/ PodEnds(s) \/ JobEnds(s) \/ Expires(s)

Next ==
  \/ (\E on \in BOOLEAN : StartSave(on))
  \/ StartPause \/ StartApply \/ StartInvalidate \/ StartRun \/ StartDelete \/ StartCollect
  \/ Operate
  \/ ControllerSees \/ (\E s \in Slot : CronFires(s) \/ Runs(s))
  \/ Quiet \/ Drift \/ Crash \/ Heal

Spec == Init /\ [][Next]_vars

\* The collector comes round, and the cluster does what it was asked.
FairSpec ==
  /\ Spec /\ WF_vars(Heal) /\ WF_vars(Operate) /\ WF_vars(StartCollect)
  /\ \A s \in Slot : WF_vars(Runs(s))

-----------------------------------------------------------------------------
(* Properties.                                                             *)

\* At no time do two pods of a build publish.
OnePublisher == \A s, t \in Slot : pod[s] = "publishing" /\ pod[t] = "publishing" => s = t

\* No Job waits for a Secret that was collected or removed, but one of a revision that
\* was installed, shown as not applied because the answer was lost, and replaced by a
\* later one: the collector (worker.ts: "Recent applies must not race a CronJob
\* controller creating an old Job") counts the applies that were recorded only.
SecretIsThere ==
  \A s \in Slot : job[s].st = "active" /\ pod[s] = "pending" => job[s].rev \in secrets \union overtaken

\* The schedule of a build that people are shown as paused is suspended.
PausedStaysPaused ==
  row # None /\ ~row.enabled /\ ~row.deleting => cron = None \/ cron.suspend

\* A publication that was seen to succeed stays so, whatever expires.
SuccessIsKept ==
  [][\A s \in Slot : runs[s] = "succeeded" /\ job[s] # NoJob /\ row' # None
       => runs'[s] = "succeeded"]_vars

\* A build that is gone has left nothing in the cluster.
NothingLeft ==
  row = None /\ op.kind # "apply" =>
    /\ cron = None /\ secrets = {} /\ lease = None
    /\ \A s \in Slot : job[s] = NoJob /\ pod[s] = "none"

\* Once the faults are over: what is being deleted goes; a schedule made from other
\* credentials than the destination's does not go on; and what runs is what is shown.
Settled ==
  row # None =>
    /\ ~row.deleting
    /\ IF row.applied THEN made[row.rev] = cred /\ cron # None /\ cron.rev = row.rev
       ELSE cron = None \/ cron.suspend

BuildSettles == <>[]Settled

=============================================================================
