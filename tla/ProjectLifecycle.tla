--------------------------- MODULE ProjectLifecycle ---------------------------
(***************************************************************************)
(* A project from request to deletion (app/api/projects, lib/projects/     *)
(* {activate,delete}.ts, lib/clusters/projects.ts) and the Harbors that    *)
(* carry it.                                                               *)
(*                                                                         *)
(* An approval creates the project on every Harbor and makes it ACTIVE if  *)
(* one of them took it; a deletion asks every Harbor whether the project   *)
(* is empty, deletes it there, then forgets it.  What a Harbor missed is   *)
(* queued and replayed.  A name is unique in its cluster, so one row at a  *)
(* time stands for it, but it may be requested again once deleted: a row   *)
(* is known by its generation, which stands for Project.id.  Grants and    *)
(* settings, which follow the project, are in modules of their own.        *)
(***************************************************************************)
EXTENDS PendingOps, FiniteSets

CONSTANTS
  Harbor,       \* the managed members of the cluster
  Admin,        \* concurrent handlers
  None,         \* no Harbor, no row
  Apart,        \* activations, deletions and replays do not overlap
  Patient,      \* nobody asks for a name whose deletion is still owed
  AnswersLost,  \* an answer may be lost, on its way or with the handler waiting
  MaxProjects,  \* bound: rows created under the name
  MaxRequests,  \* bound: approvals, rejections and deletions served
  MaxCrashes    \* bound: handlers that die half way

VARIABLES
  project,    \* the row under the name
  placement,  \* its ProjectPlacement on each Harbor
  harbor,     \* the project of that name each Harbor holds
  queue,      \* the PendingOperation rows
  nextId,     \* createdAt of the next row
  hand,       \* the handlers
  pass,       \* the reconciliation pass
  torn,       \* a deletion died after it had begun to delete
  served,     \* requests served
  crashes     \* handlers that died

vars == <<project, placement, harbor, queue, nextId, hand, pass, torn, served, crashes>>

Status == {"PENDING", "ACTIVE", "REJECTED", "GONE"}

Kind == {"PROJECT_CREATE", "PROJECT_DELETE"}

\* The key of a creation is the row's generation, that of a deletion the id the
\* Harbor gave its project.
Op == [id : Nat, registry : Harbor, kind : Kind, key : Nat]

\* id 0: harborProjectId is null.
Placement == [id : Nat, status : {"NONE", "ACTIVE", "FAILED"}]

\* id: of the project there, or of the last there was; ours: the Gateway created
\* or placed it; told: a deletion reported that it was not empty.
HarborProject == [id : Nat, there : BOOLEAN, filled : BOOLEAN, ours : BOOLEAN, told : BOOLEAN]

Deleting == {"inspect", "remove", "unrow"}

\* todo, failed: Harbors still to be called, and those that failed, each with the
\* id read from its placement (0 when activating); at: the one being queued for.
Hand == [pc : {"idle", "sync", "enqueue", "reject"} \union Deleting, gen : Nat,
         todo : SUBSET (Harbor \X Nat), failed : SUBSET (Harbor \X Nat),
         reached : BOOLEAN, at : Harbor \union {None}]

Pass == [pc : {"idle", "next", "create", "remove", "delete"},
         registry : Harbor \union {None}, ops : SUBSET Op, at : Op \union {None}]

TypeOK ==
  /\ project \in [gen : 0..MaxProjects, status : Status]
  /\ placement \in [Harbor -> Placement]
  /\ harbor \in [Harbor -> HarborProject]
  /\ queue \subseteq Op
  /\ nextId \in Nat
  /\ hand \in [Admin -> Hand]
  /\ pass \in Pass
  /\ torn \in BOOLEAN
  /\ served \in 0..MaxRequests
  /\ crashes \in 0..MaxCrashes

NoPlacement == [id |-> 0, status |-> "NONE"]
NoProject == [id |-> 0, there |-> FALSE, filled |-> FALSE, ours |-> FALSE, told |-> FALSE]
IdleHand == [pc |-> "idle", gen |-> 0, todo |-> {}, failed |-> {}, reached |-> FALSE, at |-> None]
IdlePass == [pc |-> "idle", registry |-> None, ops |-> {}, at |-> None]

\* A Harbor may hold a project of that name already, made by its own team.
Init ==
  /\ project = [gen |-> 0, status |-> "GONE"]
  /\ placement = [h \in Harbor |-> NoPlacement]
  /\ harbor \in [Harbor -> {NoProject, [NoProject EXCEPT !.id = 1, !.there = TRUE]}]
  /\ queue = {}
  /\ nextId = 0
  /\ hand = [a \in Admin |-> IdleHand]
  /\ pass = IdlePass
  /\ torn = FALSE
  /\ served = 0
  /\ crashes = 0

-----------------------------------------------------------------------------
(* Rows and Harbors.                                                       *)

Alive(gen) == project.gen = gen /\ project.status # "GONE"

Owes(h, kind, key) == Subject(queue, h, {kind}, key) # {}

Activating == \E a \in Admin : hand[a].pc \in {"sync", "enqueue"}
Removing == \E a \in Admin : hand[a].pc \in Deleting
Replaying == pass.at # None

\* applyProjectToMember on the Harbor's side: a project of that name is adopted,
\* or one is created.
Created(h) ==
  IF harbor[h].there
  THEN [harbor[h] EXCEPT !.ours = TRUE, !.told = FALSE]
  ELSE [NoProject EXCEPT !.id = harbor[h].id + 1, !.there = TRUE, !.ours = TRUE]

\* deleteHarborProject: an id that is not there any more is success too.
Emptied(h, id) == harbor[h].there /\ harbor[h].id = id => ~harbor[h].filled

Deleted(h, id) ==
  IF harbor[h].there /\ harbor[h].id = id
  THEN [NoProject EXCEPT !.id = id]
  ELSE harbor[h]

Placed(h, id) == [placement EXCEPT ![h] = [id |-> id, status |-> "ACTIVE"]]

Answer(a) == hand' = [hand EXCEPT ![a] = IdleHand]

\* People push images to what a Harbor holds, and clean up.
Push(h) ==
  /\ harbor[h].there
  /\ harbor' = [harbor EXCEPT ![h].filled = ~@]
  /\ UNCHANGED <<project, placement, queue, nextId, hand, pass, torn, served, crashes>>

-----------------------------------------------------------------------------
(* Activation.                                                             *)

\* activateProject, from the row read to the first call.
Activate(a, gen) ==
  hand' = [hand EXCEPT ![a] = [IdleHand EXCEPT !.pc = "sync", !.gen = gen,
                                 !.todo = Harbor \X {0}]]

Alone == Apart => ~Activating /\ ~Removing /\ ~Replaying

\* POST /projects: a user's request waits for approval...
Request ==
  /\ project.status = "GONE" /\ project.gen < MaxProjects
  /\ Patient => \A op \in queue : op.kind # "PROJECT_DELETE"
  /\ project' = [gen |-> project.gen + 1, status |-> "PENDING"]
  /\ UNCHANGED <<placement, harbor, queue, nextId, pass, torn, served, crashes>>

RequestByUser == Request /\ UNCHANGED hand

\* ...an administrator's is activated at once.
RequestByAdmin(a) ==
  /\ hand[a].pc = "idle" /\ Alone
  /\ Request
  /\ Activate(a, project.gen + 1)

\* POST /projects/[id]/approve
Approve(a) ==
  /\ hand[a].pc = "idle" /\ served < MaxRequests /\ Alone
  /\ project.status = "PENDING"
  /\ served' = served + 1
  /\ Activate(a, project.gen)
  /\ UNCHANGED <<project, placement, harbor, queue, nextId, pass, torn, crashes>>

\* applyProjectToMember: the placement of a row that has gone cannot be written.
SyncReached(a, h) ==
  /\ hand[a].pc = "sync" /\ <<h, 0>> \in hand[a].todo
  /\ harbor' = [harbor EXCEPT ![h] = Created(h)]
  /\ IF Alive(hand[a].gen)
     THEN /\ placement' = Placed(h, harbor'[h].id)
          /\ hand' = [hand EXCEPT ![a].todo = @ \ {<<h, 0>>}, ![a].reached = TRUE]
     ELSE /\ UNCHANGED placement
          /\ hand' = [hand EXCEPT ![a].todo = @ \ {<<h, 0>>}, ![a].failed = @ \union {<<h, 0>>}]
  /\ UNCHANGED <<project, queue, nextId, pass, torn, served, crashes>>

SyncFailed(a, h) ==
  /\ hand[a].pc = "sync" /\ <<h, 0>> \in hand[a].todo
  /\ \/ UNCHANGED harbor
     \/ /\ AnswersLost /\ ~harbor[h].there
        /\ harbor' = [harbor EXCEPT ![h] = Created(h)]
  /\ hand' = [hand EXCEPT ![a].todo = @ \ {<<h, 0>>}, ![a].failed = @ \union {<<h, 0>>}]
  /\ UNCHANGED <<project, placement, queue, nextId, pass, torn, served, crashes>>

\* A seeded bug: the row is written anew, without the Harbor's id.
MarkFailedBug(a, h) ==
  /\ hand[a].pc = "sync" /\ hand[a].todo = {} /\ <<h, 0>> \in hand[a].failed
  /\ placement' = [placement EXCEPT ![h] = [status |-> "FAILED"]]
  /\ hand' = [hand EXCEPT ![a].pc = "enqueue", ![a].at = h, ![a].failed = @ \ {<<h, 0>>}]
  /\ UNCHANGED <<project, harbor, queue, nextId, pass, torn, served, crashes>>

\* A placement that failed is marked, which throws once the row has gone...
MarkFailed(a, h) ==
  /\ hand[a].pc = "sync" /\ hand[a].todo = {} /\ <<h, 0>> \in hand[a].failed
  /\ IF Alive(hand[a].gen)
     THEN /\ placement' = [placement EXCEPT ![h].status = "FAILED"]
          /\ hand' = [hand EXCEPT ![a].pc = "enqueue", ![a].at = h,
                        ![a].failed = @ \ {<<h, 0>>}]
     ELSE Answer(a) /\ UNCHANGED placement
  /\ UNCHANGED <<project, harbor, queue, nextId, pass, torn, served, crashes>>

\* ...and its creation queued.
Enqueue(a) ==
  /\ hand[a].pc = "enqueue"
  /\ queue' = EnqueueOnce(queue, nextId, hand[a].at, "PROJECT_CREATE", hand[a].gen)
  /\ nextId' = IF queue' = queue THEN nextId ELSE nextId + 1
  /\ hand' = [hand EXCEPT ![a].pc = "sync", ![a].at = None]
  /\ UNCHANGED <<project, placement, harbor, pass, torn, served, crashes>>

Called(a) == hand[a].todo = {} /\ hand[a].failed = {}

\* A seeded bug: the project is activated whether a Harbor took it or not.
ActivatedBug(a) ==
  /\ hand[a].pc = "sync" /\ Called(a)
  /\ project' = IF Alive(hand[a].gen) THEN [project EXCEPT !.status = "ACTIVE"] ELSE project
  /\ Answer(a)
  /\ UNCHANGED <<placement, harbor, queue, nextId, pass, torn, served, crashes>>

\* One Harbor is enough; with none the row is left as it is.
Activated(a) ==
  /\ hand[a].pc = "sync" /\ Called(a)
  /\ project' = IF hand[a].reached /\ Alive(hand[a].gen)
                THEN [project EXCEPT !.status = "ACTIVE"]
                ELSE project
  /\ Answer(a)
  /\ UNCHANGED <<placement, harbor, queue, nextId, pass, torn, served, crashes>>

\* POST /projects/[id]/reject reads the status, then writes it.
Reject(a) ==
  /\ hand[a].pc = "idle" /\ served < MaxRequests
  /\ project.status = "PENDING"
  /\ served' = served + 1
  /\ hand' = [hand EXCEPT ![a] = [IdleHand EXCEPT !.pc = "reject", !.gen = project.gen]]
  /\ UNCHANGED <<project, placement, harbor, queue, nextId, pass, torn, crashes>>

RejectWrite(a) ==
  /\ hand[a].pc = "reject"
  /\ project' = IF Alive(hand[a].gen) THEN [project EXCEPT !.status = "REJECTED"] ELSE project
  /\ Answer(a)
  /\ UNCHANGED <<placement, harbor, queue, nextId, pass, torn, served, crashes>>

-----------------------------------------------------------------------------
(* Deletion, whoever asks for it: deleteProjectEverywhere, one at a time.  *)

\* The placements that know their Harbor's id.
Known == {<<h, placement[h].id>> : h \in {x \in Harbor : placement[x].id # 0}}

Delete(a) ==
  /\ hand[a].pc = "idle" /\ served < MaxRequests /\ Alone
  /\ project.status # "GONE" /\ ~Removing
  /\ served' = served + 1
  /\ hand' = [hand EXCEPT ![a] = [IdleHand EXCEPT !.pc = "inspect", !.gen = project.gen,
                                    !.todo = Known]]
  /\ UNCHANGED <<project, placement, harbor, queue, nextId, pass, torn, crashes>>

\* findNonEmptyMembers: a Harbor that does not answer is no obstacle...
Inspect(a, h, id) ==
  /\ hand[a].pc = "inspect" /\ <<h, id>> \in hand[a].todo
  /\ hand' = [hand EXCEPT ![a].todo = @ \ {<<h, id>>}]
  /\ UNCHANGED <<project, placement, harbor, queue, nextId, pass, torn, served, crashes>>

\* ...one that answers and holds images is.
InspectRefused(a, h, id) ==
  /\ hand[a].pc = "inspect" /\ <<h, id>> \in hand[a].todo
  /\ ~Emptied(h, id)
  /\ Answer(a)
  /\ UNCHANGED <<project, placement, harbor, queue, nextId, pass, torn, served, crashes>>

\* deleteProjectAcrossCluster reads the placements again.
Inspected(a) ==
  /\ hand[a].pc = "inspect" /\ hand[a].todo = {}
  /\ hand' = [hand EXCEPT ![a].pc = "remove", ![a].todo = Known]
  /\ UNCHANGED <<project, placement, harbor, queue, nextId, pass, torn, served, crashes>>

RemoveReached(a, h, id) ==
  /\ hand[a].pc = "remove" /\ <<h, id>> \in hand[a].todo
  /\ Emptied(h, id)
  /\ harbor' = [harbor EXCEPT ![h] = Deleted(h, id)]
  /\ hand' = [hand EXCEPT ![a].todo = @ \ {<<h, id>>}]
  /\ UNCHANGED <<project, placement, queue, nextId, pass, torn, served, crashes>>

\* HarborProjectNotEmptyError is reported, never queued.
RemoveRefused(a, h, id) ==
  /\ hand[a].pc = "remove" /\ <<h, id>> \in hand[a].todo
  /\ ~Emptied(h, id)
  /\ harbor' = [harbor EXCEPT ![h].told = TRUE]
  /\ hand' = [hand EXCEPT ![a].todo = @ \ {<<h, id>>}]
  /\ UNCHANGED <<project, placement, queue, nextId, pass, torn, served, crashes>>

RemoveFailed(a, h, id) ==
  /\ hand[a].pc = "remove" /\ <<h, id>> \in hand[a].todo
  /\ \/ UNCHANGED harbor
     \/ /\ AnswersLost /\ Emptied(h, id)
        /\ harbor' = [harbor EXCEPT ![h] = Deleted(h, id)]
  /\ hand' = [hand EXCEPT ![a].todo = @ \ {<<h, id>>}, ![a].failed = @ \union {<<h, id>>}]
  /\ UNCHANGED <<project, placement, queue, nextId, pass, torn, served, crashes>>

\* enqueue: a deletion supersedes the creation queued for its row, and names
\* nothing but the Harbor's id.
EnqueueDelete(a, h, id) ==
  /\ hand[a].pc = "remove" /\ hand[a].todo = {} /\ <<h, id>> \in hand[a].failed
  /\ queue' = (queue \ Subject(queue, h, {"PROJECT_CREATE"}, hand[a].gen))
                \union {Row(nextId, h, "PROJECT_DELETE", id)}
  /\ nextId' = nextId + 1
  /\ hand' = [hand EXCEPT ![a].failed = @ \ {<<h, id>>}]
  /\ UNCHANGED <<project, placement, harbor, pass, torn, served, crashes>>

\* A seeded bug: the deletions just queued are forgotten too.
ForgetBug(a) ==
  /\ hand[a].pc = "remove" /\ Called(a)
  /\ queue' = {}
  /\ hand' = [hand EXCEPT ![a].pc = "unrow"]
  /\ UNCHANGED <<project, placement, harbor, nextId, pass, torn, served, crashes>>

\* forgetProject
Forget(a) ==
  /\ hand[a].pc = "remove" /\ Called(a)
  /\ queue' = {op \in queue : ~(op.kind = "PROJECT_CREATE" /\ op.key = hand[a].gen)}
  /\ hand' = [hand EXCEPT ![a].pc = "unrow"]
  /\ UNCHANGED <<project, placement, harbor, nextId, pass, torn, served, crashes>>

\* The row goes, and its placements with it.
Unrow(a) ==
  /\ hand[a].pc = "unrow"
  /\ project' = [project EXCEPT !.status = "GONE"]
  /\ placement' = [h \in Harbor |-> NoPlacement]
  /\ torn' = FALSE
  /\ Answer(a)
  /\ UNCHANGED <<harbor, queue, nextId, pass, served, crashes>>

Crash(a) ==
  /\ hand[a].pc # "idle" /\ crashes < MaxCrashes
  /\ crashes' = crashes + 1
  /\ torn' = (torn \/ hand[a].pc \in {"remove", "unrow"})
  /\ Answer(a)
  /\ UNCHANGED <<project, placement, harbor, queue, nextId, pass, served>>

-----------------------------------------------------------------------------
(* The reconciliation pass.                                                *)

PassStart(h) ==
  /\ pass.pc = "idle" /\ Owed(queue, h) # {}
  /\ pass' = [IdlePass EXCEPT !.pc = "next", !.registry = h, !.ops = Owed(queue, h)]
  /\ UNCHANGED <<project, placement, harbor, queue, nextId, hand, torn, served, crashes>>

\* The creation of a row that has gone is stale.
PassTake(op) ==
  /\ pass.pc = "next" /\ IsOldest(op, pass.ops)
  /\ Apart => ~Activating /\ ~Removing
  /\ pass' = [pass EXCEPT !.at = op,
                !.pc = IF op.kind = "PROJECT_DELETE" THEN "remove"
                       ELSE IF Alive(op.key) THEN "create" ELSE "delete"]
  /\ UNCHANGED <<project, placement, harbor, queue, nextId, hand, torn, served, crashes>>

PassCreate ==
  LET h == pass.registry IN
  /\ pass.pc = "create"
  /\ harbor' = [harbor EXCEPT ![h] = Created(h)]
  /\ IF Alive(pass.at.key)
     THEN placement' = Placed(h, harbor'[h].id) /\ pass' = [pass EXCEPT !.pc = "delete"]
     ELSE UNCHANGED placement /\ pass' = IdlePass
  /\ UNCHANGED <<project, queue, nextId, hand, torn, served, crashes>>

\* The row is kept for the next pass, and the placement marked.
PassCreateFails ==
  LET h == pass.registry IN
  /\ pass.pc = "create"
  /\ \/ UNCHANGED harbor
     \/ /\ AnswersLost /\ ~harbor[h].there
        /\ harbor' = [harbor EXCEPT ![h] = Created(h)]
  /\ placement' = IF Alive(pass.at.key)
                  THEN [placement EXCEPT ![h].status = "FAILED"]
                  ELSE placement
  /\ pass' = IdlePass
  /\ UNCHANGED <<project, queue, nextId, hand, torn, served, crashes>>

PassRemove ==
  LET h == pass.registry IN
  /\ pass.pc = "remove" /\ Emptied(h, pass.at.key)
  /\ harbor' = [harbor EXCEPT ![h] = Deleted(h, pass.at.key)]
  /\ pass' = [pass EXCEPT !.pc = "delete"]
  /\ UNCHANGED <<project, placement, queue, nextId, hand, torn, served, crashes>>

\* A row forgotten meanwhile cannot be deleted, which ends the pass.
PassDelete ==
  /\ pass.pc = "delete"
  /\ queue' = queue \ {pass.at}
  /\ pass' = IF pass.at \in queue
             THEN [IdlePass EXCEPT !.pc = "next", !.registry = pass.registry,
                     !.ops = pass.ops \ {pass.at}]
             ELSE IdlePass
  /\ UNCHANGED <<project, placement, harbor, nextId, hand, torn, served, crashes>>

\* The snapshot is drained, a deletion fails (its answer may be lost: PassRemove
\* then PassEnds) or is refused, or the worker dies.
PassEnds ==
  /\ pass.pc # "idle"
  /\ pass' = IdlePass
  /\ UNCHANGED <<project, placement, harbor, queue, nextId, hand, torn, served, crashes>>

Activation(a) ==
  \/ RequestByAdmin(a) \/ Approve(a) \/ Enqueue(a) \/ Activated(a)
  \/ Reject(a) \/ RejectWrite(a)
  \/ \E h \in Harbor : SyncReached(a, h) \/ SyncFailed(a, h) \/ MarkFailed(a, h)

Removal(a) ==
  \/ Delete(a) \/ Inspected(a) \/ Forget(a) \/ Unrow(a)
  \/ \E known \in hand[a].todo \union hand[a].failed :
       LET h == known[1] IN LET id == known[2] IN
       \/ Inspect(a, h, id) \/ InspectRefused(a, h, id)
       \/ RemoveReached(a, h, id) \/ RemoveRefused(a, h, id) \/ RemoveFailed(a, h, id)
       \/ EnqueueDelete(a, h, id)

Replay ==
  \/ \E op \in pass.ops : PassTake(op)
  \/ PassCreate \/ PassCreateFails \/ PassRemove \/ PassDelete \/ PassEnds

Next ==
  \/ RequestByUser
  \/ \E a \in Admin : Activation(a) \/ Removal(a) \/ Crash(a)
  \/ \E h \in Harbor : PassStart(h) \/ Push(h)
  \/ Replay

Spec == Init /\ [][Next]_vars

-----------------------------------------------------------------------------
(* Properties.                                                             *)

\* An active project is on every Harbor of its cluster, or the Harbor is owed its
\* creation; and some Harbor holds it (schema.prisma: ACTIVE means at least one
\* member succeeded).  A deletion that has begun, or died half way, is excused.
ActiveIsHeld ==
  project.status = "ACTIVE" /\ ~Removing /\ ~torn =>
    LET holds(h) == harbor[h].there /\ harbor[h].id = placement[h].id
    IN  /\ \A h \in Harbor : holds(h) \/ Owes(h, "PROJECT_CREATE", project.gen)
        /\ \E h \in Harbor : holds(h)

\* A placement shown as failed is owed a replay (schema.prisma: FAILED rows are
\* what the reconciler retries).
FailedIsOwed ==
  project.status = "ACTIVE" /\ ~Activating /\ ~Removing /\ ~torn =>
    \A h \in Harbor :
      placement[h].status = "FAILED" => Owes(h, "PROJECT_CREATE", project.gen)

\* A deleted project is on no Harbor but those that are owed its deletion and
\* those reported as not empty, and no Harbor is owed its creation.
DeletedIsOwed ==
  project.status = "GONE" =>
    \A h \in Harbor :
      /\ harbor[h].there /\ harbor[h].ours =>
           harbor[h].told \/ Owes(h, "PROJECT_DELETE", harbor[h].id)
      /\ \A op \in Owed(queue, h) : op.kind = "PROJECT_DELETE"

=============================================================================
