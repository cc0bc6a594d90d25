# Tessark Gateway in TLA+

Tessark Gateway is a Next.js application that administers clusters of Harbor
registries. It keeps the desired state in PostgreSQL (Prisma), pushes it to
every Harbor of a cluster through Harbor's HTTP API, and runs copies, mirrors and
builds as Kubernetes Jobs. No transaction spans those three stores, most handlers
take no lock, and several replicas of the Gateway may run. This directory
models the protocols that are meant to keep the three in agreement. TLC checks
the models on small instances and TLAPS proves the main invariants for every
instance. Paths below are relative to the repository.

## Inventory

| Component | State it keeps | Operations | Hard part | What makes it correct |
|---|---|---|---|---|
| Image transfers (`src/lib/transfers`, `src/app/api/transfers`) | `TransferRequest`, `TransferTarget`, one Kubernetes Job per destination, an advisory lock per request | create, approve, launch, reject, poll, roll-up | handlers that die between Job and row, unlocked polls, Jobs removed by their TTL | a recorded result is what the copy did; rejected means never copied; one copy per destination; what runs is settled |
| Project membership (`src/lib/clusters/project-members.ts`, `project-groups.ts`) | `ProjectMember`, grants in each Harbor, `PendingOperation` rows | add, change role, remove, replay | Harbors that fail half way, roll-back, replay racing handlers, lost answers | a Harbor that disagrees with the Gateway is owed the difference, once; it converges |
| Project settings (`src/lib/projects/quota.ts`, `src/lib/clusters/{quota,scan-policy,retention}.ts`) | columns of `Project`, `RetentionPolicy`, the value (and the policy id) each Harbor holds | set, roll back, replay | concurrent sets, roll-back, stale replay, refusals on merit, an id that is lost with the answer | what a Harbor does not enforce it is owed, once, or refused |
| Queue of owed writes (`src/lib/clusters/fanout.ts`) | `PendingOperation` | fan out, enqueue with deduplication and supersession | read-then-write enqueue | one row per subject, removals never lost |
| Reconciliation (`src/lib/clusters/reconcile.ts`, `replication-worker.ts`, `replication-retry.ts`) | the queue, back-off per registry, the replication lock | drain a registry oldest first | a row that cannot succeed blocks what is behind it; back-off; the worker of another replica | order is kept, everything is eventually replayed |
| Replication lock (`src/lib/clusters/replication-lock.ts`) | a PostgreSQL advisory lock held by a transaction | try, re-enter, time out | the transaction ends while its body runs on | one replication writer at a time |
| Replication mesh (`src/lib/clusters/replication*.ts`) | `ReplicationLink`, `ReplicationCleanup`, an endpoint and a policy in each Harbor | sync, apply, drop, drain, catch up | runs that die, refused deletions, stale fingerprints, members that leave and come back, ids that a rebuilt Harbor gives to other objects | an active link is wired; no object is forgotten; no cleanup takes a live link; a catch-up asked for is met, once |
| Project lifecycle (`src/lib/projects/{activate,delete}.ts`, `src/lib/clusters/projects.ts`, `src/app/api/projects`) | `Project.status`, `ProjectPlacement`, the project each Harbor holds, `PendingOperation` rows | request, approve, reject, activate, delete, replay | partial activation, images pushed during a deletion, remnants under a name used again | an active project is on every Harbor or owed to it; a deleted one is nowhere, or its deletion is owed or its refusal reported |
| Quota and deletion requests (`src/app/api/{quota,project-delete}-requests`, `src/lib/requests`) | `QuotaRequest`, `ProjectDeleteRequest` | ask, supersede, approve, reject | two administrators, unlocked check-then-act | a decision is taken once and its effects follow it |
| Images of a project (`src/lib/projects/artifacts.ts`) | none of its own: what people push, what the mesh carries, `PendingOperation` rows | remove an image or a repository everywhere, replay | removals that race with replication and with new pushes | what was removed stays removed, what was not is served |
| Robots (`src/lib/clusters/robots.ts`) | `RobotAccount`, `RobotPlacement`, a robot and its secret in each Harbor | create, rotate, revoke, replay, realign | one secret on all Harbors, refusals, lost answers | the secret kept opens the Harbor, or is owed; a revoked robot opens nothing |
| System robot (`src/lib/clusters/system-robot.ts`) | `Registry.systemRobotSecret`, the robot on the Harbor, the copy its peers push with | provision on use, rotate, forget, deposit on a peer | three writes that nothing ties together, a forgotten secret still in use | the secret stored opens the robot; the peers get it |
| Cluster composition (`src/lib/clusters/{service,adopt,move-project}.ts`) | `Cluster`, `Registry`, placements | join, leave, adopt, move a project | everything above while the membership changes | no Harbor keeps or lacks what it should |
| Builds (`src/lib/builds`) | `ScheduledBuild`, `BuildRevision`, `BuildRun`, a CronJob, a Secret and a Lease in Kubernetes, an advisory lock | save, apply, pause, delete, poll | the order of the snapshots the worker takes, a lock that ends with its transaction (120 s) | one pod publishes at a time; what is collected is not in use; a deleted build leaves nothing; the schedule is the one shown |
| Mirrors (`src/lib/mirrors`) | `ScheduledMirror`, a CronJob or a Harbor policy | create, change, apply, delete | two stores written one after the other, requests that overlap without a lock, removal as a best effort | a mirror fires from one place, as it is shown |
| Schedules (`src/lib/mirrors/cron.ts`) | none | parse, next run | days of month and of week together, the length of a year | the next run shown is the first that fires |
| Directory identities (`src/lib/clusters/{identity,identity-sync}.ts`) | `UserClusterIdentity`, `Cluster.identityMode`, grants by account name | map, change, drop, add a member with an account | a change revokes under one name and grants under another, Harbor by Harbor | nobody is let in under a name that is nobody's; every member is let in |
| Registry and Kubernetes clients, transfer rules, authentication, notifications, history retention, settings, read-only views, web interface | see `PROJECT.json` | | I/O, presentation or request-scoped decisions | not modelled, with the reason there |

How they interact. Handlers of the API write rows and call Harbors in turn
(`fanOut`), then queue a `PendingOperation` for each Harbor that failed
(`enqueue`). A worker (`replication-worker.ts`) takes the replication lock,
reads the queue of each registry whose back-off is over and replays it oldest
first, with the state desired at that moment (`replay`), stopping at the first
failure. Handlers do not take that lock. Transfers use their own lock, one per
request, and share the database with the rest but no state.

## Modules

| Module | Models | State ↔ code | Actions ↔ code |
|---|---|---|---|
| `Transfers` | one transfer request, its destinations, handlers and Jobs | `request`, `target`: the two `status` columns; `job`: the Kubernetes Job of a destination; `lock`: `pg_try_advisory_xact_lock`; `pc`, `work`, `rollup`: locals of the handlers; `copies`, `copied`: history | `ApproveCheck`, `Launch*`: `approve/route.ts`, `launch.ts`; `Reject*`: `reject/route.ts`; `Sync*`: `sync/route.ts`, `getJobPhase`; `Refresh*`: `status.ts`; `Job*`: Kubernetes |
| `TransferPromise` | what a request promises, without handlers, locks or Jobs | `decision`, `result`, `delivered` | abstract: no code of its own |
| `Transfers_proofs` | theorems about `Transfers` | | |
| `PendingOps` | the `PendingOperation` table and `enqueue` as operators | a set of rows `[id, registry, kind, key]`; `id` stands for `createdAt` | used by every module that replays |
| `MembershipSync` | the grants of one project on all Harbors of its cluster | `row`: `ProjectMember`; `grant`: what each Harbor holds; `placed`: the project is there; `queue`; `hand`: handlers; `pass`: the worker's pass | `Save*`, `RollBackCreation`, `Forget`, `Unrow`: `saveMemberAcrossCluster`; `Remove*`: `removeMemberAcrossCluster` and its route; `FanOut*`, `Enqueue*`: `fanout.ts`; `Pass*`: `runReconcileRegistry`, `replay`, `applyProjectToMember` |
| `MembershipSync_proofs` | theorems about `MembershipSync` | | |
| `Identities` | the accounts people go by, on all their projects | `mode`: `Cluster.identityMode`; `mapping`: `UserClusterIdentity`; `row`: `ProjectMember`; `grant`: the accounts each Harbor lets in; `withdrawn`: history; `queue`, `hand`, `pass` as above | `Map`, `Unmap`, `MapWrite`, `UnmapWrite`, `Load`: the identity routes, `identity.ts`, `identity-sync.ts`; `Add*`, `Drop`: the member routes; `SwitchMode`: `runUpdateCluster`; `Call*`, `FannedOut`: `fanout.ts`; `Pass*`: as above |
| `SettingSync` | one setting of one project on all Harbors: the storage limit, the scan policy or the retention policy | `kind`: which; `desired`: the column; `held`: what each Harbor enforces; `project`: absent, there without a placement, placed; `queue`, `hand`, `pass` as above | `Change`, `Record`, `RollBack`: `applyProjectQuota`; `FanOut*`, `Enqueue*`: `syncQuotaAcrossCluster` and its like, `enqueue`; `Pass*`: as above |
| `SettingSync_proofs` | theorems about `SettingSync` | | |
| `ProjectLifecycle` | the projects that bear one name in a cluster, one after the other | `project`: the row, its generation standing for `Project.id`; `placement`: `ProjectPlacement`; `harbor`: the project of that name on each Harbor, with its id and whether it holds images; `queue`, `hand`, `pass` as above; `torn`: a deletion died half way | `Request*`: POST `projects/route.ts`; `Approve`, `Sync*`, `MarkFailed`, `Enqueue`, `Activated`: `approve/route.ts`, `activateProject`, `syncProjectAcrossCluster`; `Reject*`; `Delete`, `Inspect*`, `Remove*`, `EnqueueDelete`, `Forget`, `Unrow`: `deleteProjectEverywhere` and what it calls; `Pass*`: as above; `Push`: people |
| `ProjectLifecycle_proofs` | theorems about `ProjectLifecycle` | | |
| `ClusterComposition` | one project name across clusters whose members change | `member`: `Registry.clusterId`; `project`: the cluster of each row; `placement`, `harbor`, `queue`, `hand`, `pass` as above; `claimed`, `torn`: history | `Join*`, `Leave*`: `service.ts`; `Move*`: `move-project.ts`; adoptions: `adopt.ts`; `Pass*`: as above |
| `ArtifactRemoval` | the images of one repository on every Harbor | `mode`: `Cluster.replicationMode`; `holds`; `flight`: executions of the mesh; `live`: history; `queue`, `hand`, `pass` as above | `Remove`, `FanOut*`, `Enqueue`, `Answer`: `deleteProjectArtifact` and its route; `Pass*`: `ARTIFACT_DELETE`; `Push`, `Execute`, `Scheduled`: people and Harbor |
| `ReplicationMesh` | the links of a cluster, in the directions of `Edge` | `members`, `on`, `login`; `link`: `ReplicationLink`; `cleanup`: `ReplicationCleanup`; `object`: endpoint and policy on the source; `foreign`: recorded ids that now name something else; `queued`: `REPLICATION_SYNC` rows; `run`: what holds the replication lock | `StartSync`, `StartReplay`, `Join`, `Leave*`, `SwitchMode`: what takes the lock; `Unlink`, `Apply*`: `replication.ts`; `Drain*`: `replication-cleanup.ts`; `ApplyBarred`, `DrainBarred`: a run that meets such an id (`harborObjectMatches`); `Rebuild`, `Reuse`: Harbor |
| `ReplicationMesh_proofs` | theorems about `ReplicationMesh` | | |
| `CatchUp` | the catch-up of one link | `asked`, `tracked`, `last`: columns of the link; `runs`: executions on the source Harbor; `visit`: the worker | `Poll`, `Consider`, `Post`, `Record`: `replication-catchup.ts` |
| `Robots` | one robot account of a project | `row`, `place`: `RobotAccount`, `RobotPlacement`; `robot`: id and secret on each Harbor; `shown`: secrets people were given; `queue`, `hand`, `pass` | `Create`, `Rotate`, `Revoke`: the robot routes; `HandStep`: `applyRobotToMember`, `revokeRobotAcrossCluster`; `PassStep`: `ROBOT_CREATE`, `ROBOT_DELETE`, `realignRobotSecrets` |
| `SystemRobot` | the Gateway's robot on one Harbor, and one peer | `robot`: the secret that opens it; `row`: the one stored; `link`: what the peer's endpoint logs in with and the fingerprint; `queued`: a `REPLICATION_SYNC` row; `lock`, `hand` | `Ensure`, `Rotate`, `Forget`: `ensureSystemRobot` and the system-robot route; `Again` to `Owe`: `provision`; `Sync*`: `applyReplicationLink` |
| `Builds` | one scheduled build and what Kubernetes makes of it | `row`, `made`, `runs`: `ScheduledBuild`, `BuildRevision`, `BuildRun`; `secrets`, `cron`, `job`, `pod`, `lease`: the cluster; `op`: the holder of the build lock; `overtaken`: history | `Start*`, `Operate`: `service.ts`, `worker.ts`; `CronFires`, `Runs`: Kubernetes and `deploy/build-runner/runner.py` |
| `Requests` | requests for a limit or a deletion | `asked`: `QuotaRequest`, `ProjectDeleteRequest`; `project`; `done`: history; `hand` per person | `Ask*`: the two request routes; `Decide`, `Carry`, `Mark`: the two decision routes; `Direct`: what happens without a request |
| `Mirrors` | one scheduled mirror | `row`: `ScheduledMirror`; `policy`: what each host holds; `op`: what each handler is at; `overlap`, `lost`: history | `Create`, `Update`, `Apply`, `Delete` and the steps of `service.ts`, `harbor-transport.ts`, `skopeo-transport.ts` |
| `NextRun` | `cron.ts` | `schedule`, `cursor`, `day`, `next`: the locals of `nextRunAt` | `NextDay`, `Answer`: one round of its loop |
| `MCTransfers`, `MCMembershipSync`, `MCIdentities`, `MCProjectLifecycle` | model values and symmetry | | |
| `MCFanOut`, `MCProjects`, `MCMembers`, `MCComponents` | several small instances in one run: `part` (`cluster` in `MCFanOut`) is fixed in the first state and says which instance the behaviour follows; the variables of the others stay `None`. Where two instances are of one module they share a parametrised `INSTANCE` (`Build(how)`, `Review(how)`, `Clock(how)`, `Own(how)`, `Gather(how)`, `Removal(how)`, `Naming(how)`), and `how` is a record of its bounds | | |
| `MCComponents_proofs` | theorems about `CatchUp`, `Mirrors`, `Requests`, `Builds` and `NextRun`, and about `MCComponents` | | |
| `MCMembers_proofs` | theorems about `Robots` and `SystemRobot`, and about `MCMembers` | | |
| `MCProjects_proofs` | theorems about `ArtifactRemoval`, `Identities` and `ClusterComposition`, and about `MCProjects` | | |

An action is the code between two points at which another handler, the worker,
a Harbor or Kubernetes may be observed to have moved: an `await` on the
database, on Harbor or on Kubernetes. Reads whose result only decides the next
write at the same await are folded into it. Operators whose name ends in `Bug`
are seeded bugs: the definition they stand next to with one plausible mistake.
They are used by no specification; each shows that a property is sensitive to
the code.

### What is abstracted

- Names, sizes, messages, conversions of units and HTTP details. A Harbor's
  answer is success, failure (with or without effect, `AnswersLost`), no such
  account (`Unknown`), a refusal of the value (`Refused`) or, of a lookup, an error
  the code takes for "nobody" (`Misread`: `findHarborProjectMember`, `harbor.ts:1013`).
- Requests are bounded (`MaxRequests`, `MaxChanges`, `MaxEdits`, ...), crashes by
  `MaxCrashes` and lost locks by `MaxLockLosses`. `copies` is capped at 2, which is
  enough to tell one copy from several.
- The fan-out calls Harbors in any order, each as one step: `fanOut` runs them
  with `Promise.all`, so their effects interleave with everything else.
- Two steps the code takes in turn are one action in the replay:
  `applyProjectMembersToMember` (and the limit queued by `applyProjectToMember`)
  enqueues with one read and one write, which the pass does in a single action. The
  two-step enqueue and its races are modelled where handlers run concurrently.
- `Identities` follows accounts where `MembershipSync` follows roles: every Harbor has
  every project, a call that fails queues its row at once, and the calls about all the
  projects of a person are one fan-out. A handler that dies between the mapping and the
  fan-outs is left out: nothing remembers the old name then.
- Directory groups follow the code of people line for line with the group as the
  subject, and are not modelled apart. The scan policy is `SettingSync` with nothing
  refused and nothing rolled back; the retention policy is one more, whose id is on
  the Harbor and in the placement. A setting handler that dies is not modelled:
  nothing looks at the Harbors again, so no property of the setting would survive it.
- `ProjectLifecycle` leaves grants and settings to the other modules, writes the
  placement in the step that creates the project, and queues a creation in one step.
  Deletions run one at a time, as `withBuildLock` has it; that the lock ends with its
  transaction after 120 s is left out. A Harbor that creates a project
  for a handler that is gone before it hears of it is the case of a lost answer.
- `ClusterComposition` takes the final pass of a join and the adoption that may follow
  it as ordinary steps that may happen at any time, and leaves open, at each call
  that asks, whether a project holds images. Retention and robots queued behind a
  creation are left to the modules about them.
- `ReplicationMesh` applies the edges of a run one after the other; the code applies
  those of distinct sources in parallel, which share no row and no object. The links of
  one source do share the ids its Harbor gives: a rebuilt Harbor may give the
  recorded id of one link to the object of another, or to an administrator's.
  `Reuse` lets any recorded id of the link followed be given away so.
- `SystemRobot`: one peer, whose sync is the deposit of the login; the rest of it is in
  `ReplicationMesh`, where `NewLogin` stands for the rotation. Secrets are reused once
  nobody holds them.
- `Builds`: the model's CronJob may start a Job while another runs, which
  `concurrencyPolicy: Forbid` rules out, so it has more behaviours than the cluster.
  `Quiet` assumes that a controller catches up with what it watches. The deletion of
  a Job is seen by its pods later. What limits the history of runs, and the 120 s of
  the lock, are left out.
- `ArtifactRemoval`: an execution of the event-based mesh comes to its end; one
  repository, on every member.
- The back-off of a registry, and the replication lock where it is not named, are left
  out of the modules that replay: one pass runs at a time, when it likes.

## Runs

Each run asks one question of a part of the system. The passing ones assume as
little as the property in question allows. What is assumed of the environment and of the
way requests come is a constant of the module (`Apart`, `Patient`, `AnswersLost`, the
bounds). What the code itself gets wrong under those constants is excepted in the
property, by a history variable that says what happened: `lost` and `overlap` of
`Mirrors`, `overtaken` of `Builds`, `strays` and `foreign` of `ReplicationMesh`, `torn`
of `ProjectLifecycle` and `ClusterComposition`, `adopted` of `CatchUp`. What is lost
without each is said under "What the code does not guarantee".

### Transfers

| Run | Instance | Shows |
|---|---|---|
| `Transfers_promise` | 2 destinations, 2 launches, a rejection, 1 poller, nothing fails | under `FairSpec`: `KeepsPromise` (refinement of `TransferPromise`), `InFlightEnds`, `FailureIsReal`, `RejectedHasNoneRunning`, `TypeOK` |
| `Transfers_recovery` | 2 destinations, 2 launches, a rejection, 1 poller, a crash, a lost lock, pod retries | `CopiedOnce`: a relaunch adopts the Jobs of the attempt that died; `SuccessIsReal` survives everything |
| `Transfers_page_open` | 2 destinations, 1 launch, a rejection, 1 poller, a crash, TTL and pod retries | `SyncSettles` under `FairSpec` |
| `Transfers_two_syncs` | 1 destination, 2 pollers, nothing fails | violates `FailureIsReal`: a finding |

Bounds. Two destinations are the least for which the roll-up, a partial launch and
the loop over destinations mean anything; two launches and a rejection are the
least for handlers to race under the lock. The theorems below cover every number.

### Membership and settings

| Run | Instance | Shows |
|---|---|---|
| `MembershipSync_apart` | 2 Harbors, one without an account for one of 2 people, 2 roles, 1 handler, 3 requests, a crash | `GrantIsOwed`, `RevocationIsOwed`, `OneRowPerSubject`, `TypeOK` |
| `FanOut_converges` | three clusters. `careful`: 2 Harbors, 1 person, 2 requests. `overlap`: 1 Harbor, 2 handlers on one person in every interleaving, lost answers, misread lookups, a crash. `setting`: 2 Harbors, one change of a limit or a scan policy, lost answers | `FanOutSettles` under `FairSpec`: in all three the queue is drained in the end; in `careful` every Harbor then holds the grants shown, in `setting` the value shown |
| `MembershipSync_misread` | 2 Harbors, 1 person, 1 handler, 2 requests, no crash | violates `RevocationIsOwed`: a finding |
| `Projects_apart`, `names` and `moves` | 1 Harbor, 2 accounts to map people to. `names`: 2 people, 1 project, 3 requests. `moves`: 1 person, 2 projects, 2 requests. Both modes, any mapping and membership to begin with | `AccountsAreTrue`, which is `GrantIsSomebodys` and `MemberIsLetIn` |
| `Identities_remap` | 1 Harbor, 1 person, 2 projects, 1 request | violates `GrantIsSomebodys`: a finding |
| `Components_each`, `setting` | 2 Harbors, one refusing a value, 3 values, 2 changes, lost answers, the three settings | `SettingIsOwed` |

`Apart` keeps the steps about one person (one setting) from interleaving, while the
pass still interleaves with requests about the other; `Patient` keeps anyone from
granting to a person whose removal is still queued (in `Identities`, to an account that
is owed a removal, or a grant as somebody else's). Neither is enforced by the code:
they delimit what it does get right. Three requests are the least for remove, add,
remove, and for an account to pass from one person to another; two Harbors the least for one to accept while another fails; three values tell
the one recorded, the one it replaced and the one a Harbor enforced before.

### Projects

| Run | Instance | Shows |
|---|---|---|
| `Projects_apart` | seven, two of them above. `life`: 2 Harbors, 2 administrators, 1 project, 3 decisions, a crash, images pushed at any time. `name`: 2 projects in turn under one name, 1 administrator. `meet`: 2 Harbors, 2 clusters, 2 rows, 3 changes, a crash, one change at a time. `rush`: the same with every step of handlers and passes interleaved and adoptions that do not wait, 2 changes. `wipe`: 2 Harbors, 2 images, 2 removals, 1 push, the three replication modes | `ActiveIsHeld` (and a placement shown as failed is owed its replay), `DeletedIsOwed` in `life` and `name`; `MemberHolds` in `meet` and `rush`; `PlacementIsTrue`, `NothingStray` in `meet`; `StaysRemoved` in `wipe` without scheduled copies, `KeptIsServed` with all modes; `TypeOK` |
| `ProjectLifecycle_recreate` | 2 Harbors, 1 administrator, 2 projects in turn, 1 decision, queued deletions not waited for | violates `ActiveIsHeld`: a finding |

`Apart` keeps activations, deletions, moves, adoptions and replays from overlapping;
rejections overlap with everything. `Patient` lets nobody ask for a name, adopt a
project or push an image whose deletion is still owed to some Harbor. Two projects are
the least for one to find what another left behind; three decisions allow an approval
that dies, one that works and a deletion, or a deletion that dies and is asked for
again; three changes a Harbor that leaves, joins elsewhere and meets a project that moves.

### What members are given

| Run | Instance | Shows |
|---|---|---|
| `Members_settle` | four. `mesh`: 2 Harbors and the link of one to the other, 2 joins, departures or changes of mode, a second login, a Harbor rebuilt, whose old ids may then be given to other objects, a crash. `robot`: 2 Harbors, 3 creations, rotations or revocations. `login`: the system robot of a Harbor and 1 peer, 3 requests one at a time, a crash, calls that fail or are not heard of. `rush`: the same with 2 handlers and the syncs in every interleaving, no faults | `ActiveIsWired`, `NothingIsForgotten`, `CleanupSparesLinks`; `SecretWorks` (with the flag that says one secret opens all, and `StoredOpens` of the system robot), `RevokedOpensNothing`; `MembersSettle` under `FairSpec`: once the faults stop, the mesh is what membership, mode and logins call for, but for the links of which a recorded id was given to another object: those are shown as FAILED for as long as they are wanted, and what is left of them is not cleaned up; one secret opens every Harbor, and the peer pushes with the secret that is stored; `TypeOK` |

One direction is enough: two links share the row of a queued sync, which `StartReplay`
replays as that of the whole cluster, and the ids of their source, which `Reuse` stands
for; each row and object is of one link. Two
moves are the least for a member to leave and come back; three requests for a robot to be
created, revoked and created again, or rotated twice.

### Components with no state in common

| Run | Instance | Shows |
|---|---|---|
| `Components_each` | nine. `setting`, above. `copies`: 1 link, 2 requests, 3 executions, a worker that dies. `publish`: 2 Jobs of 1 revision. `revise`: 3 revisions, 3 edits, 1 Job, while calls fail. `realign`: 1 revision, a change of credentials, 2 edits, a deletion. `decide`: 2 people, 3 requests, one at a time, a crash. `race`: the same at the same time, 2 requests. `mirror`: 2 Harbors and Kubernetes, 2 handlers in every interleaving, 4 requests, lost answers, a crash. `clock`: every schedule of a small calendar, at every minute of two years | `SettingIsOwed`; `OneCopyAtATime`, `CopyIsOwed`; `OnePublisher`, `SuccessIsKept`; `SecretIsThere`, `NothingLeft`; `DecisionsAreTrue`; `ScheduleIsTrue` of mirrors, paused builds and the next run shown; `WorkIsDone` under `FairSpec`: catch-ups asked for are met, builds are deleted, invalidated and suspended; `TypeOK` |

Two Jobs are the least for two publishers. Two revisions are the least for one to be
collected while the other is in use, three for one to be installed unheard of between
two others, which is what `overtaken` is about; that instance is checked for as long as
calls fail, and its liveness in `publish` and `realign`. Two handlers are the least for
requests about a mirror to overlap, four requests for a creation, two that overlap
and an apply that puts things right. Three executions allow one that is followed, one
that is remembered and a foreign one. The calendar of `clock` has months of two and three days, weeks
of two days, days of two hours of two minutes, and a leap year every other year: every
case of `nextRunAt` (day of month and of week, `7` for Sunday, the day it begins in)
happens within it, and the reference `Fires` is evaluated minute by minute.

### What the code does not guarantee

The constants that delimit the passing runs are not decoration. Each of these
was relaxed in turn, and TLC found the property named violated:

| Relaxed | Property lost | What happens |
|---|---|---|
| `Transfers`: two pollers | `FailureIsReal` | the second poll finds no Job and writes FAILED over SUCCEEDED (`Transfers_two_syncs`) |
| `TtlExpires` | `FailureIsReal` | a Job that succeeded expires before it is polled, and is recorded as failed |
| `PodRetries` | `FailureIsReal` | a poll between two pods of a Job records a failure, and the next pod copies the image |
| `MaxCrashes = 1` | `RejectedHasNoneRunning`, `InFlightEnds` | a launch dies after its Job is created: the request, still PENDING, may be rejected; once moved but not rolled up, no handler picks it up again, however often it is approved |
| `MaxLockLosses = 1` | one copy per destination, which `CopiedOnce` states with the lock kept | the lock's transaction ends while the launch goes on, and a second one starts |
| `MembershipSync`: `Patient = FALSE` | `GrantIsOwed`, `RevocationIsOwed` | a removal still queued takes away what was granted again meanwhile; an addition that is rolled back forgets the removal queued before it |
| `AnswersLost = TRUE` | `RevocationIsOwed` | a creation is rolled back, though a Harbor had granted it |
| `Apart = FALSE` | `GrantIsOwed`, `RevocationIsOwed`, `OneRowPerSubject` | the earlier of two roles given at the same time reaches a Harbor last; a replay grants while the person is being removed; what is enqueued between the read and the write of another is not seen |
| an account unknown to a Harbor | `FanOutSettles` | the replay of its grant fails for good and stops the pass (`reconcile.ts:157-159` says that such a row is dropped, which holds only of people without an identity) |
| `Misread = TRUE` | `RevocationIsOwed` | a lookup answered with an error finds nobody to remove (`MembershipSync_misread`) |
| `Identities`: `Remaps = TRUE` | `GrantIsSomebodys` | a member added again with another account keeps the grants of the first (`Identities_remap`) |
| `Patient = FALSE` | `GrantIsSomebodys` | an account goes to somebody else while a removal, or a grant to the one who had it, is queued |
| `Apart = FALSE` | `GrantIsSomebodys` | a creation is rolled back while a replay grants it |
| accounts that differ by case (`Fold`) | `MemberIsLetIn` | the removal queued under the old spelling takes away what was granted under the new one: the queue compares exactly (`fanout.ts:130`), Harbor ignores case (`harbor.ts:1022`) |
| an account that is the `User.username` of somebody else, in a GATEWAY cluster | `MemberIsLetIn` | `setClusterIdentity` looks only at mappings: two people share an account, and the removal of one is the removal of both |
| `SettingSync`: `Apart = FALSE` | `SettingIsOwed` | two changes undo each other; a replay that read the old value overtakes the new one |
| a refused value, on replay | `FanOutSettles` | it stays at the head of the queue |
| a retention policy, with `AnswersLost` | `FanOutSettles` | a Harbor created the policy and its id was lost (`retention.ts:37`): every replay creates it again, is refused, and the queue waits behind it |
| `ProjectLifecycle`: `Patient = FALSE` | `ActiveIsHeld` | a queued deletion removes the new project that adopted what was left (`ProjectLifecycle_recreate`) |
| `Apart = FALSE` | `DeletedIsOwed`, `FailedIsOwed` | an activation or a replay creates the project on a Harbor after its row has gone; an activation marks a placement as failed that another has just reached, and dies before it queues the creation. `ActiveIsHeld` survives |
| `AnswersLost = TRUE` | `DeletedIsOwed` | a project created without an answer has no placement, and no deletion asks for it |
| `ClusterComposition`: `Apart = FALSE` | `NothingStray`, `PlacementIsTrue` | a pass replays from its snapshot (`reconcile.ts:274`) a creation that a move has just forgotten (`move-project.ts:117-120`) |
| `Patient = FALSE` | `PlacementIsTrue` | a project whose deletion is queued is adopted (`adopt.ts:126`), then deleted |
| `AnswersLost = TRUE` | `NothingStray` | as for the lifecycle |
| `Apart = FALSE` with 3 clusters and 4 requests | `MemberHolds` | a move takes the build lock, joins and departures the replication lock. Project 2 is adopted and moves to a cluster without members; a move of project 1 reads the id its placement has on a Harbor; the Harbor leaves, joins the cluster of project 2, and the queued creation adopts what is there under the name, with the same id; the deletion of the move then takes it, and nobody owes it to project 2. Three requests are too few for it |
| `ArtifactRemoval`: `scheduled` | `StaysRemoved` | the copy a Harbor makes before its queued removal is replayed brings the image back elsewhere |
| `Patient = FALSE` | `KeptIsServed` | a queued removal takes an image that was pushed again since |
| `Robots`: `AnswersLost = TRUE` | `RevokedOpensNothing` | a placement without an id is taken for one that never landed (`robots.ts:274`) |
| `Apart = FALSE`, or `Patient = FALSE` | `SecretWorks` | a replay or a realignment overtakes a rotation; a queued revocation of a name removes the robot created under it since |
| `SystemRobot`: `Apart = FALSE`, with faults | `SecretWorks` (`StoredOpens`), `MembersSettle` | the secret is forgotten before the lock is taken (`system-robot/route.ts:36`): a sync provisions in between, the rotation sets another secret and dies, and the one stored opens nothing, for good |
| nothing | `PeerIsOwed`, that a peer left with a replaced secret is owed a sync | a rotation forgets the secret before `provision` looks for it (`system-robot.ts:108`), so the sync its comment promises is not queued; the worker's next one mends it |
| `Mirrors`: `lost` not excepted, a removal refused | `AppliedIsInstalled` | a mirror applied as disabled adopts the policy left on that Harbor (`harbor.ts:2306`), which goes on firing |
| `lost` not excepted, two handlers | `AppliedIsInstalled` | two updates overlap: each reads the row and installs it, the earlier value last, and the row says applied. `service.ts:2-3` says the row and what it generates never drift apart; nothing in it takes a lock |
| the same | `OneSchedule` | a first apply overlaps a deletion, which reads no host in the row: the policy is installed, the row is gone, and no row names it |
| `Builds`: `overtaken` not excepted, 3 revisions, 3 edits | `SecretIsThere` | revision 1 is applied. Revision 2 is installed and its answer lost; the controller sees it. Revision 3 is installed and its answer lost. The collector, which goes by the applies that were recorded, keeps the Secrets of 1 and 3, and the controller, a step behind, starts a Job of 2 (`worker.ts:88-91` says recent applies do not race it) |
| `ReplicationMesh`: `Barred` not excepted | `MembersSettle` | a rebuilt Harbor gives a recorded id to another object: `harborObjectMatches` (`harbor.ts:1968-1977`) throws rather than touch it, at every pass, with every call answered. The link stays FAILED, or the cleanup row stays, until somebody repairs the row |
| `Requests`: `Apart = FALSE` | one request pending of a kind, and that what is rejected was not done (both within `DecisionsAreTrue`) | two transactions do not see each other's row; a rejection overtakes the approval that is being carried out. That an approved request was done survives |
| `MaxCrashes = 1` | that what is rejected was not done | an approval is carried out, dies, and is then rejected |
| `NextRun`: a year of 366 days | `NextIsFirst` | the first of the 366 days tried is only what is left of it: a yearly schedule asked about just after it fired has no next run, if a leap day is to come (`cron.ts:83-87` says a year) |

A rejected project may be on its Harbors too: an approval that failed everywhere
leaves its creations queued, and they are replayed after the rejection. No property
is stated of REJECTED. A creation of the mesh whose answer is lost leaves an object no
row knows (`strays`), which `NothingIsForgotten` and `MembersSettle` allow for. A move, or
a deletion, whose handler dies half way leaves some Harbors with the project and some
without (`torn`); nothing resumes it, and somebody has to ask again. A catch-up that finds
an execution of somebody else's under way follows it as if it met the request, whenever
it was started (`adopted`). The
replay of a queued sync fails if any link of the cluster does (`reconcile.ts:220-228`),
so a healthy Harbor's queue waits for a peer that is down: `MembersSettle` assumes that
all come back. What the properties of a robot say is said of robots none of whose
handlers died (`crashes = 0`): nothing finishes the work of one that did.

### Fairness

- A handler that has started goes on (weak fairness of its steps): Node runs it.
  Crashes are the exception and are bounded. The same holds of a pass, and the
  worker's timer starts one whenever a row is owed.
- A Job ends: `activeDeadlineSeconds` is set in `job-spec.ts`. The pods and Jobs of a
  build take their course (weak fairness of `Runs`), and the collector comes round.
- `SyncLoad` in `Transfers` is a user: weak fairness says that somebody keeps the page open, which
  `sync/route.ts` states as its premise.
- Strong fairness of a replay step, and of a poll that reads its Job: calls fail at
  will, but a Harbor (or the Kubernetes API) asked again and again answers at last.
  Weak fairness would not do, since each failed attempt disables the step.
- `healthy`, in `ReplicationMesh`, `CatchUp`, `Robots`, `SystemRobot` and `Builds`: faults go on
  until `Heal`, which happens at last (weak fairness), and there are none afterwards.
  It says the same as strong fairness of every call, in one formula.
- The duties of the worker in `ReplicationMesh` (sync, replay, drain) share one lock:
  each is strongly fair, since the worker's loop comes back to all of them.
- Nobody is obliged to approve, reject, grant or set anything. `Requests`, `Mirrors`,
  `ProjectLifecycle`, `ClusterComposition`, `ArtifactRemoval` and `Identities` are checked
  for safety only.

`CHECK_DEADLOCK FALSE` is given where the system does stop: when the bounded requests
are served and the queue is empty.

## Proofs

A `_proofs` module states an inductive invariant, the lemmas that it holds at first and is
kept by each group of actions, and the theorems that follow. TLC checked each invariant,
before its proof, on instances like those of the runs or larger. A theorem is about every
set of Harbors, people, handlers, destinations or edges, and every bound, crashes
included. The constants are assumed to be of the right sorts and no more:
`TransfersAssumption` and `NoneAssumption` say so in the modules that the runs extend, and
the hypotheses whose names end in `Sorts` do in the others (`None` is no value of the
data, a bound is a natural number, an edge is a pair of registries). Those that are less
obvious: `OwnSorts` wants more secrets than can be in use at once, so that a fresh one
exists; `ClockSorts`, that schedules and dates keep to the bounds of their fields;
`IdSorts`, that accounts are told apart whatever their case and that nobody is mapped to a
directory account of somebody else; `Grounds`, that no Harbor is a number, as ids are. Every other
hypothesis is one of the conditions that the code does not guarantee; the table above
says, of each, what is lost without it.

| Theorem | Shows, always | Beside the sorts, it supposes |
|---|---|---|
| `Transfers_proofs`: `SuccessHolds` | `SuccessIsReal` | nothing |
| `CopiedOnceHolds` | `CopiedOnce` | nothing: the property says itself that the lock is kept and no Job expires |
| `RejectionHolds` | `RejectedHasNoneRunning` | `MaxCrashes = 0`, `MaxLockLosses = 0` |
| `FailureHolds`, `PromiseKept` | `FailureIsReal`, the refinement `KeepsPromise` | `Undisturbed`: the same, one poller, no TTL, no pod retries |
| `MembershipSync_proofs`: `OneRowHolds` | `OneRowPerSubject` | `Apart` |
| `GrantHolds` | `GrantIsOwed` | `Careful`: `Apart`, `Patient` (lookups may be misread, answers lost) |
| `RevocationHolds` | `RevocationIsOwed` | `Careful`, and `Heard`: no misread lookup, no lost answer |
| `SettingSync_proofs`: `OneRowHolds`, `ValueHolds` | `OneRowPerHarbor`, `ValueIsOwed` | `Apart` (answers may be lost) |
| `ProjectLifecycle_proofs`: `DeletedHolds` | `DeletedIsOwed` | `Apart`, no lost answer |
| `ActiveHolds` | `ActiveIsHeld` | `Patient` (in every interleaving, and answers may be lost) |
| `FailedHolds` | `FailedIsOwed` | `Apart` |
| `ReplicationMesh_proofs`: `WiredHolds`, `NothingForgottenHolds`, `SparesHolds` | `ActiveIsWired`, `NothingIsForgotten`, `CleanupSparesLinks` | nothing: ids may be reused, answers lost |
| `MCComponents_proofs`: `OneCopyHolds`, `CopyHolds` | `OneCopyAtATime`, `CopyIsOwed` of `CatchUp` | nothing: an adopted execution is excepted by the property |
| `OneScheduleHolds`, `AppliedHolds` | `OneSchedule`, `AppliedIsInstalled` of `Mirrors`, with any handlers in any interleaving | nothing; but the properties say nothing of a host (`lost`) where a refused removal, a lost answer, a crash or requests that overlapped may have left something else |
| `ApprovedHolds` | `ApprovedIsDone` of `Requests` | nothing |
| `RejectedHolds`, `OnePendingHolds` | `RejectedIsNotDone`, `OnePending` | nothing: the properties say themselves that people take turns (`Apart`) and, the first, that nobody died |
| `BuildHolds` | `OnePublisher`, `NothingLeft`, `PausedStaysPaused`, `SecretIsThere` of `Builds`, for any number of revisions | nothing; but `SecretIsThere` says nothing of a revision that was `overtaken` |
| `SuccessHolds` | `SuccessIsKept` | nothing |
| `NextRunHolds` | `NextIsFirst` of `NextRun` | nothing: it is about the days that are tried |
| `MCMembers_proofs`: `OpensHolds`, `RevokedHolds`, `FlagHolds` | `SecretWorks`, `RevokedOpensNothing`, `FlagIsTrue` of `Robots` | `Apart`, `Patient`, no lost answer, no crash: `Robot` of `MCMembers` fixes them |
| `StoredHolds` | `StoredOpens` of `SystemRobot` | `Apart`, or no faults |
| `MCProjects_proofs`: `StaysRemovedHolds`, `KeptIsServedHolds` | `StaysRemoved`, `KeptIsServed` | `Apart`, `Patient`; the first, no scheduled copies |
| `AccountsAreTrueHolds` | `GrantIsSomebodys`, `MemberIsLetIn` of `Identities` | `Apart`, `Patient`, no `Remaps` |
| `MemberHoldsApart`, `PlacementIsTrueHolds`, `NothingStrayHolds` | `MemberHolds`, `PlacementIsTrue`, `NothingStray` of `ClusterComposition` | `Apart`, `Patient`, no lost answer: the instance `meet`, but for the number of Harbors and clusters |

Each module also has theorems of type correctness, from the sorts alone. The last group of
theorems of `MCComponents_proofs`, `MCMembers_proofs` and `MCProjects_proofs` states what
the runs check, by the name they check it under, and derives it from those above, for any
values of the constants of the `MC` module: `SettingIsOwedHolds`, `OneCopyAtATimeHolds`,
`CopyIsOwedHolds`, `DecisionsHold`, `OnePublisherHolds`, `SuccessIsKeptHolds`,
`SecretIsThereHolds`, `NothingLeftHolds`, `ScheduleIsTrueHolds`; `ActiveIsWiredHolds`,
`NothingIsForgottenHolds`, `CleanupSparesLinksHolds`, `SecretWorksHolds`,
`RevokedOpensNothingHolds`; `ActiveIsHeldHolds`, `DeletedIsOwedHolds`, those of the last
three rows, and a `TypesHold` of each.

### The inductive invariants

No property above is inductive as it stands: a handler may have read something and not
acted on it yet. The invariants say what is known at each program counter.

`Transfers_proofs`

- `SuccessInv` adds to `SuccessIsReal` that a Job seen or found succeeded, by a handler
  that has not recorded it yet, has copied its image.
- `LockInv` says which program counters a kind of handler can be at (`Places`); that a
  handler between taking and releasing the lock holds it (`Holding`); that only launched
  destinations are polled (`PollsMoved`); that while the request is PENDING and nobody
  launches, nothing has a Job (`PendingIsFresh`), and how far the launch that holds the
  lock has come (`LaunchProgress`); that a roll-up about to be written is not PENDING
  (`RollupMoved`); and that the request and its destinations agree on being rejected
  (`Agree`). Without `Holding` and `LaunchProgress` a rejection could be written after
  a launch had started.
- `CopyInv` says, while no lock is lost and no Job expires, that a launch holds the lock,
  that what it has still to launch is PENDING, and that a Job that has gone was that of a
  destination that moved on: so a relaunch finds the Job of the attempt that died.
- `FateInv` adds to `LockInv` that a Job and what is recorded of its destination agree
  (`JobsAgree`), what a launch has made of a destination still PENDING
  (`LaunchesAgree`), and what a poll has seen of one still RUNNING (`PollsAgree`). With it
  `PromiseKept` maps each step to one of `TransferPromise`, or to a stutter. Each
  part of `Undisturbed` is needed: without it TLC finds the refinement or
  `FailureIsReal` violated.

`MembershipSync_proofs`

- `ApartInv`: one handler serves a person, and none while a replay is about them
  (`OneAtATime`); the row a handler found queued is still what is queued
  (`SeenIsQueued`); one row a subject (`OneRow`). The deduplication in `enqueue` reads
  and then writes, so the second is what makes the third inductive.
- `OwedInv` adds, until a handler dies, `Owing`: a removal is queued only for people who
  are not members or are being removed (`RemovalsAreTrue`); nobody is left out
  unless a handler serves them (`Accounted`); and how far a grant, a revocation or a replay
  has come, Harbor by Harbor (`GrantUnderWay`, `RevocationUnderWay`, `ReplayUnderWay`).
  What they say of revocations supposes `Heard`, what they say of grants does not: a grant
  taken for failed is queued and granted again, a removal that found nobody by mistake
  is not.

`SettingSync_proofs`: `ApartInv` is as above. `DueInv` says that at rest every Harbor is
settled for the value shown; that half way through a change those dealt with are settled for
the new value and, until one has taken it, all but those that failed are still settled for
the one a roll-back restores (`OwedBy`); and that the pass replays the value shown
(`PassDue`).

`ProjectLifecycle_proofs`

- `ApartInv`: work on a row is alone and the row is still there; creations are queued for the
  row there is, deletions leave the queue by their replay only, and the ids the Harbors and
  placements bear belong to the right generation.
- `DeletedInv` adds that what a Harbor holds has a placement that knows its id, or is
  reported, or is owed its deletion (`SettledOrKnown`), and that a deletion has
  in hand or has settled all it knows.
- `HeldInv` does without `Apart`. It says of a row no deletion has begun on (`Whole`) that
  every placement with an id is held (`PlacedIsHeld`); that each of the activations of the
  row, however many overlap, accounts for every Harbor: it holds the project, is owed it,
  or is one that activation has still to come to (`ActivationIsHeld`); and that a creation
  whose replay is done is held (`ReplayIsHeld`). `KeysArePast` is why activations and
  replays of earlier rows do no harm: nobody is ahead of the row there is, and one that
  has gone leaves no placement.
- `FailedInv` adds to `ApartInv`, of such a row, that a placement marked as failed is owed
  its creation, or the activation that marked it has still to queue it
  (`ActivationMarks`), and that a replay leaves no mark (`ReplayIsDone`).

`ReplicationMesh_proofs`: `MeshInv` proves the three properties together, since each
excuses what another accounts for. A run that holds an edge has just made what it
holds the ids of (`EdgeIsMade`), and nothing of that edge is left to be cleaned up
(`EdgeIsHeld`); a cleanup row in hand is there until what it names is not
(`RowIsHeld`); a fingerprint is never of a login to come (`FpIsPast`). `Wiring` and
`Remembered` are stronger than the properties they prove: a run in hand excuses an edge
only between a creation and its record, not for as long as it holds the edge.
An id given to another object changes no object, link or row of the mesh, so `Reuse` keeps
the invariant, and a run that is barred leaves everything as it was.

`MCComponents_proofs`

- `CatchUp`: `CopyInv` says that the worker posts only when nothing it started is under
  way. `OwedInv` says that what is followed is what was last recorded, and that an
  execution just started is younger than every request.
- `Mirrors`: `MirrorInv` says that a handler alone at work still sees the row it read, and
  knows what the row names (`Alone`); that a policy on a host that is not `lost` is the one the row
  names, or one that such a handler installs or removes (`EachIsNamed`); and that what the row
  shows as applied is there, unless such a handler is at it (`RowIsTrue`). Of handlers
  that overlap it says only where they may have been: `overlap` and `lost` record that.
- `Requests`: `ApprovedInv` says that an approval about to be written was carried out.
  `ApartInv` adds that whoever is at work is alone and still sees what it read
  (`StillSo`), and that what was carried out is shown, or about to be (`DoneIsShown`).
- `Builds`: `BuildInv` says how far a deletion has come (`TakenDown`) and what is marked on
  what is to go (`BuildMarked`); that only the holder of the Lease publishes
  (`LeaseHeld`); that the schedule is suspended before a build is saved or shown as paused
  (`StaysPaused`);
  that what is installed, seen or run is no later than the revision last made, and the one
  recorded no later than the one installed (`RevisionsInOrder`); that every revision from which a
  Job may still start has its Secret or was overtaken (`SecretsKept`); and that a success
  read by a collector is there to be recorded (`SuccessKnown`). The proof of `SuccessKnown`
  wants the cases by which a run is recorded to exclude each other, as the order of the
  code's tests makes them.
- `NextRun`: `ClockInv` says that the schedule does not fire before the day the loop has
  come to. It rests on lemmas about minutes, hours and days with the sizes as
  parameters.

`MCMembers_proofs`

- `Robots`: `RobotInv` says of every Harbor (`Fits`) what its placement knows of the robot
  there, what a rotation or a revocation has done to it, and what is owed it, at each step
  of a handler and of the pass.
- `SystemRobot`: `OwnInv` says that the lock is held by whoever is between its taking and its
  release (`LockIsHeld`); that handlers apart are alone (`OneAtATime`); that there are no
  faults or the steps are kept apart (`CalmOrApart`); and that the secret just minted and set
  opens the robot, as the stored one does but while the holder of the lock makes
  another (`MintedOpens`).

`MCProjects_proofs`

- `ArtifactRemoval`: `ArtInv` says that what is under removal, or owed one, is not to be
  kept (`Condemned`), and that what is to be kept is on some Harbor (`KeptIsServed`); that
  without a mesh every Harbor that still holds a removed image is about to be called or owed
  the removal (`EachIsDue`), and with the event-based one some Harbor that holds it is, which
  carries the removal to the others (`OneIsDue`).
- `Identities`: `IdInv` says that one handler is at work and the pass rests meanwhile
  (`Alone`); that nobody goes by the account of somebody else (`Distinct`); that the queue holds
  one row a subject (`Rows`); that nothing is owed of the account a handler is giving to
  somebody (`Clear`), nor the removal of one a member goes by (`Unowed`); and how far a
  change has come, Harbor by Harbor: a grant is of a member, or its removal is owed or in
  hand (`Granted`, `Called`), a member is let in or their grant is owed or in hand (`LetIn`),
  and the replay is of what the row says now (`InPass`).
- `ClusterComposition`: `CcInv` is the types, in every interleaving, and, one change at a
  time: that a name is one project's in a cluster (`OneName`); that what is owed to a Harbor or
  placed there is of a project of its cluster (`OfTheCluster`), by an id the Harbor has given
  (`Numbered`); that what is placed is not owed its deletion, and a creation owed
  behind a deletion comes later (`DeletedBefore`); and that every project a member should
  have is held or owed (`KeptOrOwed`), and all it has from the Gateway known (`Accounted`),
  or a join, a departure, a move or an adoption is between the two.

### Only model-checked

- Liveness: `SyncSettles`, `InFlightEnds`, `FanOutSettles`, `MembersSettle`, `WorkIsDone`.
  The prover does not reason about ENABLED, on which fairness rests.
- `MemberHolds` in `rush`, where moves, joins and replays interleave: it holds with three
  requests and two clusters, and with four and three it does not (above), so no theorem of
  every bound is to be had.
- The four runs that expect a violation show what no theorem could.

## Not modelled

- The web interface, the generated Prisma client, the OpenAPI and MCP descriptions: they
  make up most of the lines of the repository and keep no state of the system.
- The HTTP clients of Harbor and Kubernetes (`harbor.ts`, `harbor-capabilities.ts`,
  `k8s/client.ts`), but for the calls whose effect or refusal a protocol depends on,
  which the modules take from how they are used: input and output.
- Authentication, tokens, rules of transfers, validation: decisions within one request.
- Notifications, activity, history retention, branding: rows nothing else decides by.
- The lookups of a cluster's directory and the import of its accounts; a handler that
  dies between the mapping of a person and the fan-outs that follow it.
- Health and capability probes, images browsed and searched: one Harbor, one request.
- The time-outs of the two locks (30 minutes and 120 s), the back-off of a registry,
  head-of-line blocking among kinds of rows: see the plan.

The share of the repository's lines these modules stand for is small, because most of
them are presentation, generated code and HTTP plumbing. The protocols in which several
Harbors, handlers or systems must come to agree have a module each.

## Plan

Done: `Transfers` with its promise, `PendingOps`, `MembershipSync`,
`Identities`, `SettingSync`, `ProjectLifecycle`, `ClusterComposition`, `ArtifactRemoval`,
`ReplicationMesh`, `CatchUp`, `Robots`, `SystemRobot`, `Builds`, `Requests`,
`Mirrors`, `NextRun`; the theorems about all of them.

To prove, if a condition weaker than `Apart` is found: `MemberHolds` of
`ClusterComposition` with joins, departures and moves that overlap.

To model, where it would say something new: a drain of one registry with rows of every
kind, its back-off (`replication-retry.ts`) and the coupling by `REPLICATION_SYNC`; the
time-outs of the locks; retry times and the globs of transfer rules against a reference.
