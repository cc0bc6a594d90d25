-------------------------- MODULE ClusterComposition --------------------------
(***************************************************************************)
(* Harbors that join and leave clusters (lib/clusters/service.ts), projects*)
(* that move from one cluster to another (move-project.ts) and projects    *)
(* that are found on a Harbor and adopted (adopt.ts).                      *)
(*                                                                         *)
(* Everything here is about one project name.  Clusters may each have a    *)
(* row under it; a Harbor holds at most one project of that name, and gives*)
(* a new one a new id.  Joins, departures and replays exclude each other   *)
(* (the replication lock), moves exclude moves (the build lock), adoptions *)
(* take no lock.  Whether a project holds images is left open at each call *)
(* that asks.  The retention policy and the robots queued behind each      *)
(* creation are left to the modules about them.                            *)
(***************************************************************************)
EXTENDS PendingOps, FiniteSets

CONSTANTS
  Harbor,       \* the managed registries
  Cluster,      \* the clusters
  Home,         \* the cluster of the first project
  None,         \* no cluster, no Harbor, no row
  Apart,        \* a move, an adoption, and what holds the lock do not overlap
  Patient,      \* nothing is adopted from a Harbor that is owed a deletion
  AnswersLost,  \* a Harbor may create or delete the project and its answer be lost
  MaxProjects,  \* bound: rows
  MaxRequests,  \* bound: joins, departures and moves served
  MaxCrashes    \* bound: handlers that die half way

VARIABLES
  member,     \* Registry.clusterId
  project,    \* per row, the cluster it is in, None when there is no such row
  placement,  \* per row, the id of its ProjectPlacement on each Harbor, or 0
  harbor,     \* the project of that name on each Harbor
  queue,      \* the PendingOperation rows
  nextId,     \* createdAt of the next row
  hand,       \* the handler of each role
  pass,       \* the reconciliation pass
  claimed,    \* rows that were adopted
  torn,       \* rows whose move died half way, Harbors whose join or departure did
  served,     \* requests served
  crashes     \* handlers that died

vars == <<member, project, placement, harbor, queue, nextId, hand, pass, claimed, torn,
          served, crashes>>

Gen == 1..MaxProjects
Role == {"compose", "move", "adopt"}
Kind == {"PROJECT_CREATE", "PROJECT_DELETE"}

\* The key of a creation is a row, that of a deletion the Harbor's id.
Op == [id : Nat, registry : Harbor, kind : Kind, key : Nat]

\* ours: the Gateway put it there or recorded it, and the Harbor has not left
\* since; told: a deletion reported that it was not empty.
HarborProject == [id : Nat, there : BOOLEAN, ours : BOOLEAN, told : BOOLEAN]

\* gen, from, to: the row that moves, or the cluster that is joined or listed; at:
\* the Harbor that joins or leaves; todo, failed: Harbors still to be called, with
\* the id read from the placement (or the rows still to be queued); seen: sightings.
Hand == [pc : {"idle", "member", "backlog", "owe", "leave", "unplace", "part",
               "inspect", "remove", "clear", "row", "targets", "list", "create"},
         gen : {0} \union Gen, from : Cluster \union {None}, to : Cluster \union {None},
         at : Harbor \union {None}, todo : SUBSET ((Harbor \union Gen) \X Nat),
         failed : SUBSET (Harbor \X Nat), seen : SUBSET (Harbor \X Nat)]

Pass == [pc : {"idle", "next", "create", "remove", "delete"},
         registry : Harbor \union {None}, ops : SUBSET Op, at : Op \union {None}]

TypeOK ==
  /\ member \in [Harbor -> Cluster \union {None}]
  /\ project \in [Gen -> Cluster \union {None}]
  /\ placement \in [Gen -> [Harbor -> Nat]]
  /\ harbor \in [Harbor -> HarborProject]
  /\ queue \subseteq Op
  /\ nextId \in Nat
  /\ hand \in [Role -> Hand]
  /\ pass \in Pass
  /\ claimed \subseteq Gen
  /\ torn \subseteq Gen \union Harbor
  /\ served \in 0..MaxRequests
  /\ crashes \in 0..MaxCrashes
  \* schema.prisma: a name is unique in its cluster.
  /\ \A c \in Cluster : Cardinality({g \in Gen : project[g] = c}) <= 1

NoProject == [id |-> 0, there |-> FALSE, ours |-> FALSE, told |-> FALSE]
IdleHand == [pc |-> "idle", gen |-> 0, from |-> None, to |-> None, at |-> None,
             todo |-> {}, failed |-> {}, seen |-> {}]
IdlePass == [pc |-> "idle", registry |-> None, ops |-> {}, at |-> None]

Members(c) == {h \in Harbor : member[h] = c}

RowsOf(c) == {g \in Gen : project[g] = c}

\* A project has been activated in one cluster, while some of its Harbors were down;
\* a Harbor outside of it may hold a project of that name, made by its own team.
Init ==
  /\ member \in [Harbor -> Cluster \union {None}]
  /\ project = [g \in Gen |-> IF g = 1 THEN Home ELSE None]
  /\ harbor \in [Harbor -> {NoProject, [NoProject EXCEPT !.id = 1, !.there = TRUE],
                            [NoProject EXCEPT !.id = 1, !.there = TRUE, !.ours = TRUE]}]
  /\ \A h \in Harbor : harbor[h].there => (harbor[h].ours <=> member[h] = Home)
  /\ \E h \in Members(Home) : harbor[h].there
  /\ placement = [g \in Gen |-> [h \in Harbor |->
                    IF g = 1 /\ harbor[h].ours THEN harbor[h].id ELSE 0]]
  /\ queue = {Row(0, h, "PROJECT_CREATE", 1) : h \in {x \in Members(Home) : ~harbor[x].there}}
  /\ nextId = 1
  /\ hand = [r \in Role |-> IdleHand]
  /\ pass = IdlePass
  /\ claimed = {} /\ torn = {}
  /\ served = 0
  /\ crashes = 0

-----------------------------------------------------------------------------
(* Locks and helpers.                                                      *)

Busy(r) == hand[r].pc # "idle"

\* The replication lock: joins, departures and passes.
Locked == Busy("compose") \/ pass.pc # "idle"

Starts(r) ==
  /\ ~Busy(r)
  /\ r = "compose" => ~Locked
  /\ Apart => pass.pc = "idle" /\ \A other \in Role : ~Busy(other)

Ask(r) == Starts(r) /\ served < MaxRequests /\ served' = served + 1

Step(r, at) == hand[r].pc = at

Answer(r) == hand' = [hand EXCEPT ![r] = IdleHand]

Owes(h, kind, key) == Subject(queue, h, {kind}, key) # {}

Deleted(h, id) ==
  IF harbor[h].there /\ harbor[h].id = id THEN [NoProject EXCEPT !.id = id] ELSE harbor[h]

\* A seeded bug: any row for the Harbor stands for this one.
OweBug(h, g) ==
  /\ queue' = IF Owed(queue, h) # {} THEN queue
              ELSE queue \union {Row(nextId, h, "PROJECT_CREATE", g)}
  /\ nextId' = IF queue' = queue THEN nextId ELSE nextId + 1

\* enqueue of a creation: identical entries collapse.
Owe(h, g) ==
  /\ queue' = EnqueueOnce(queue, nextId, h, "PROJECT_CREATE", g)
  /\ nextId' = IF queue' = queue THEN nextId ELSE nextId + 1

-----------------------------------------------------------------------------
(* runAddClusterMember, from the listing of the candidate's projects.  What*)
(* it does at the end, a pass over the new member's queue and an adoption, *)
(* are steps of the pass and of Adopt, which may be taken at any time.     *)

\* A project both the Harbor and the cluster know is a collision, unless the
\* cluster has no member yet.
Join(h, c) ==
  /\ Ask("compose") /\ member[h] = None
  /\ ~(harbor[h].there /\ RowsOf(c) # {} /\ Members(c) # {})
  /\ hand' = [hand EXCEPT !["compose"] = [IdleHand EXCEPT !.pc = "member", !.at = h, !.to = c]]
  /\ UNCHANGED <<member, project, placement, harbor, queue, nextId, pass, claimed, torn, crashes>>

JoinWrite ==
  /\ Step("compose", "member")
  /\ member' = [member EXCEPT ![hand["compose"].at] = hand["compose"].to]
  /\ hand' = [hand EXCEPT !["compose"].pc = "backlog"]
  /\ UNCHANGED <<project, placement, harbor, queue, nextId, pass, claimed, torn, served, crashes>>

\* The backlog: every project the cluster has by now...
JoinBacklog ==
  /\ Step("compose", "backlog")
  /\ hand' = [hand EXCEPT !["compose"].pc = "owe",
                !["compose"].todo = RowsOf(hand["compose"].to) \X {0}]
  /\ UNCHANGED <<member, project, placement, harbor, queue, nextId, pass, claimed, torn, served,
                 crashes>>

\* ...is owed to the new member.
JoinOwe(g) ==
  /\ Step("compose", "owe") /\ <<g, 0>> \in hand["compose"].todo
  /\ Owe(hand["compose"].at, g)
  /\ hand' = [hand EXCEPT !["compose"].todo = @ \ {<<g, 0>>}]
  /\ UNCHANGED <<member, project, placement, harbor, pass, claimed, torn, served, crashes>>

JoinDone ==
  /\ Step("compose", "owe") /\ hand["compose"].todo = {}
  /\ Answer("compose")
  /\ UNCHANGED <<member, project, placement, harbor, queue, nextId, pass, claimed, torn, served,
                 crashes>>

-----------------------------------------------------------------------------
(* runRemoveClusterMember: the Harbor keeps what it holds, the Gateway     *)
(* forgets what it owed it and what it had placed there.                   *)

Leave(h) ==
  /\ Ask("compose") /\ member[h] # None
  /\ hand' = [hand EXCEPT !["compose"] = [IdleHand EXCEPT !.pc = "leave", !.at = h]]
  /\ UNCHANGED <<member, project, placement, harbor, queue, nextId, pass, claimed, torn, crashes>>

LeaveQueue ==
  /\ Step("compose", "leave")
  /\ queue' = queue \ Owed(queue, hand["compose"].at)
  /\ hand' = [hand EXCEPT !["compose"].pc = "unplace"]
  /\ UNCHANGED <<member, project, placement, harbor, nextId, pass, claimed, torn, served, crashes>>

\* A seeded bug: the placements stay.
LeavePlacementsBug ==
  /\ Step("compose", "unplace")
  /\ hand' = [hand EXCEPT !["compose"].pc = "part"]
  /\ UNCHANGED <<member, project, placement, harbor, queue, nextId, pass, claimed, torn, served,
                 crashes>>

LeavePlacements ==
  /\ Step("compose", "unplace")
  /\ placement' = [g \in Gen |-> [placement[g] EXCEPT ![hand["compose"].at] = 0]]
  /\ hand' = [hand EXCEPT !["compose"].pc = "part"]
  /\ UNCHANGED <<member, project, harbor, queue, nextId, pass, claimed, torn, served, crashes>>

LeaveWrite ==
  LET h == hand["compose"].at IN
  /\ Step("compose", "part")
  /\ member' = [member EXCEPT ![h] = None]
  /\ harbor' = [harbor EXCEPT ![h].ours = FALSE]
  /\ torn' = torn \ {h}
  /\ Answer("compose")
  /\ UNCHANGED <<project, placement, queue, nextId, pass, claimed, served, crashes>>

-----------------------------------------------------------------------------
(* moveProjectToCluster.                                                   *)

Known(g) == {<<h, placement[g][h]>> : h \in {x \in Harbor : placement[g][x] # 0}}

\* Refused if the target has a project of that name...
Move(g, c) ==
  /\ Ask("move") /\ project[g] \notin {None, c} /\ RowsOf(c) = {}
  /\ hand' = [hand EXCEPT !["move"] = [IdleHand EXCEPT !.pc = "inspect", !.gen = g,
                                         !.from = project[g], !.to = c]]
  /\ UNCHANGED <<member, project, placement, harbor, queue, nextId, pass, claimed, torn, crashes>>

\* ...or if some Harbor says that it holds images.
MoveInspected ==
  /\ Step("move", "inspect")
  /\ \/ /\ hand' = [hand EXCEPT !["move"].pc = "remove", !["move"].todo = Known(hand["move"].gen)]
     \/ Known(hand["move"].gen) # {} /\ Answer("move")
  /\ UNCHANGED <<member, project, placement, harbor, queue, nextId, pass, claimed, torn, served,
                 crashes>>

\* deleteProjectAcrossCluster
MoveRemoved(h, id) ==
  /\ Step("move", "remove") /\ <<h, id>> \in hand["move"].todo
  /\ harbor' = [harbor EXCEPT ![h] = Deleted(h, id)]
  /\ hand' = [hand EXCEPT !["move"].todo = @ \ {<<h, id>>}]
  /\ UNCHANGED <<member, project, placement, queue, nextId, pass, claimed, torn, served, crashes>>

\* An image was pushed since: reported, never queued.
MoveRefused(h, id) ==
  /\ Step("move", "remove") /\ <<h, id>> \in hand["move"].todo
  /\ harbor[h].there /\ harbor[h].id = id
  /\ harbor' = [harbor EXCEPT ![h].told = TRUE]
  /\ hand' = [hand EXCEPT !["move"].todo = @ \ {<<h, id>>}]
  /\ UNCHANGED <<member, project, placement, queue, nextId, pass, claimed, torn, served, crashes>>

MoveFailed(h, id) ==
  /\ Step("move", "remove") /\ <<h, id>> \in hand["move"].todo
  /\ harbor' \in {harbor} \union IF AnswersLost
                                THEN {[harbor EXCEPT ![h] = Deleted(h, id)]} ELSE {}
  /\ hand' = [hand EXCEPT !["move"].todo = @ \ {<<h, id>>}, !["move"].failed = @ \union {<<h, id>>}]
  /\ UNCHANGED <<member, project, placement, queue, nextId, pass, claimed, torn, served,
                 crashes>>

MoveOweRemoval(h, id) ==
  LET g == hand["move"].gen IN
  /\ Step("move", "remove") /\ hand["move"].todo = {} /\ <<h, id>> \in hand["move"].failed
  /\ queue' = (queue \ Subject(queue, h, {"PROJECT_CREATE"}, g))
                \union {Row(nextId, h, "PROJECT_DELETE", id)}
  /\ nextId' = nextId + 1
  /\ hand' = [hand EXCEPT !["move"].failed = @ \ {<<h, id>>}]
  /\ UNCHANGED <<member, project, placement, harbor, pass, claimed, torn, served, crashes>>

\* A seeded bug: all that is owed to the old members is forgotten.
MoveForgetBug ==
  /\ Step("move", "remove") /\ hand["move"].todo = {} /\ hand["move"].failed = {}
  /\ queue' = {op \in queue : member[op.registry] # hand["move"].from}
  /\ hand' = [hand EXCEPT !["move"].pc = "clear"]
  /\ UNCHANGED <<member, project, placement, harbor, nextId, pass, claimed, torn, served, crashes>>

\* forgetProject
MoveForget ==
  /\ Step("move", "remove") /\ hand["move"].todo = {} /\ hand["move"].failed = {}
  /\ queue' = {op \in queue : ~(op.kind = "PROJECT_CREATE" /\ op.key = hand["move"].gen)}
  /\ hand' = [hand EXCEPT !["move"].pc = "clear"]
  /\ UNCHANGED <<member, project, placement, harbor, nextId, pass, claimed, torn, served, crashes>>

MoveUnplace ==
  LET old == Members(hand["move"].from) IN
  /\ Step("move", "clear")
  /\ placement' = [placement EXCEPT ![hand["move"].gen] =
                     [h \in Harbor |-> IF h \in old THEN 0 ELSE @[h]]]
  /\ hand' = [hand EXCEPT !["move"].pc = "row"]
  /\ UNCHANGED <<member, project, harbor, queue, nextId, pass, claimed, torn, served, crashes>>

\* The name may have been taken in the target since: the update throws.
MoveRow ==
  LET g == hand["move"].gen
      c == hand["move"].to
  IN
  /\ Step("move", "row")
  /\ IF RowsOf(c) = {}
     THEN /\ project' = [project EXCEPT ![g] = c]
          /\ hand' = [hand EXCEPT !["move"].pc = "targets"]
          /\ UNCHANGED torn
     ELSE /\ Answer("move")
          /\ torn' = torn \union {g}
          /\ UNCHANGED project
  /\ UNCHANGED <<member, placement, harbor, queue, nextId, pass, claimed, served, crashes>>

MoveTargets ==
  /\ Step("move", "targets")
  /\ hand' = [hand EXCEPT !["move"].pc = "owe", !["move"].todo = Members(hand["move"].to) \X {0}]
  /\ UNCHANGED <<member, project, placement, harbor, queue, nextId, pass, claimed, torn, served,
                 crashes>>

MoveOwe(h) ==
  /\ Step("move", "owe") /\ <<h, 0>> \in hand["move"].todo
  /\ Owe(h, hand["move"].gen)
  /\ hand' = [hand EXCEPT !["move"].todo = @ \ {<<h, 0>>}]
  /\ UNCHANGED <<member, project, placement, harbor, pass, claimed, torn, served, crashes>>

\* A move that is complete makes up for one that died before.
MoveDone ==
  /\ Step("move", "owe") /\ hand["move"].todo = {}
  /\ torn' = torn \ {hand["move"].gen}
  /\ claimed' = claimed \ {hand["move"].gen}
  /\ Answer("move")
  /\ UNCHANGED <<member, project, placement, harbor, queue, nextId, pass, served, crashes>>

-----------------------------------------------------------------------------
(* adoptHarborProjects.                                                    *)

Adopt(c) ==
  /\ Starts("adopt") /\ Members(c) # {} /\ RowsOf(None) # {}
  /\ hand' = [hand EXCEPT !["adopt"] = [IdleHand EXCEPT !.pc = "list", !.to = c,
                                          !.todo = Members(c) \X {0}]]
  /\ UNCHANGED <<member, project, placement, harbor, queue, nextId, pass, claimed, torn, served,
                 crashes>>

\* A member that does not answer is left out.
AdoptList(h) ==
  /\ Step("adopt", "list") /\ <<h, 0>> \in hand["adopt"].todo
  /\ Patient => \A op \in Owed(queue, h) : op.kind # "PROJECT_DELETE"
  /\ hand' = [hand EXCEPT !["adopt"].todo = @ \ {<<h, 0>>},
                !["adopt"].seen = @ \union IF harbor[h].there THEN {<<h, harbor[h].id>>} ELSE {}]
  /\ UNCHANGED <<member, project, placement, harbor, queue, nextId, pass, claimed, torn, served,
                 crashes>>

AdoptUnreachable(h) ==
  /\ Step("adopt", "list") /\ <<h, 0>> \in hand["adopt"].todo
  /\ hand' = [hand EXCEPT !["adopt"].todo = @ \ {<<h, 0>>}]
  /\ UNCHANGED <<member, project, placement, harbor, queue, nextId, pass, claimed, torn, served,
                 crashes>>

\* Names the cluster knows are left alone.
AdoptKnown ==
  /\ Step("adopt", "list") /\ hand["adopt"].todo = {}
  /\ IF hand["adopt"].seen = {} \/ RowsOf(hand["adopt"].to) # {}
     THEN Answer("adopt")
     ELSE hand' = [hand EXCEPT !["adopt"].pc = "create"]
  /\ UNCHANGED <<member, project, placement, harbor, queue, nextId, pass, claimed, torn, served,
                 crashes>>

\* The row is created active, with a placement for each sighting; the loser of a
\* race for the name leaves it there.
AdoptCreate ==
  LET c == hand["adopt"].to
      new == {g \in RowsOf(None) : \A e \in RowsOf(None) : g <= e}
      at(h) == {s \in hand["adopt"].seen : s[1] = h}
  IN
  /\ Step("adopt", "create")
  /\ IF RowsOf(c) # {}
     THEN UNCHANGED <<project, placement, harbor, claimed>>
     ELSE \E g \in new :
            /\ project' = [project EXCEPT ![g] = c]
            /\ placement' = [placement EXCEPT ![g] = [h \in Harbor |->
                 IF at(h) = {} THEN 0 ELSE (CHOOSE s \in at(h) : TRUE)[2]]]
            /\ harbor' = [h \in Harbor |->
                 IF at(h) # {} /\ harbor[h].there
                 THEN [harbor[h] EXCEPT !.ours = TRUE, !.told = FALSE] ELSE harbor[h]]
            /\ claimed' = claimed \union {g}
  /\ Answer("adopt")
  /\ UNCHANGED <<member, queue, nextId, pass, torn, served, crashes>>

Crash(r) ==
  /\ Busy(r) /\ crashes < MaxCrashes
  /\ crashes' = crashes + 1
  /\ torn' = torn \union
       CASE r = "move" /\ hand[r].pc # "inspect" -> {hand[r].gen}
         [] r = "compose" /\ hand[r].pc \in {"backlog", "owe", "unplace", "part"} -> {hand[r].at}
         [] OTHER -> {}
  /\ Answer(r)
  /\ UNCHANGED <<member, project, placement, harbor, queue, nextId, pass, claimed, served>>

-----------------------------------------------------------------------------
(* The reconciliation pass: it asks nothing about the cluster of the Harbor*)
(* nor that of the project.                                                *)

PassStart(h) ==
  /\ ~Locked /\ Owed(queue, h) # {}
  /\ Apart => \A r \in Role : ~Busy(r)
  /\ pass' = [IdlePass EXCEPT !.pc = "next", !.registry = h, !.ops = Owed(queue, h)]
  /\ UNCHANGED <<member, project, placement, harbor, queue, nextId, hand, claimed, torn, served,
                 crashes>>

PassTake(op) ==
  /\ pass.pc = "next" /\ IsOldest(op, pass.ops)
  /\ pass' = [pass EXCEPT !.at = op,
                !.pc = IF op.kind = "PROJECT_DELETE" THEN "remove" ELSE "create"]
  /\ UNCHANGED <<member, project, placement, harbor, queue, nextId, hand, claimed, torn, served,
                 crashes>>

\* applyProjectToMember: a project of that name is adopted, or one is created.
Created(h) ==
  IF harbor[h].there
  THEN [harbor[h] EXCEPT !.ours = TRUE, !.told = FALSE]
  ELSE [NoProject EXCEPT !.id = harbor[h].id + 1, !.there = TRUE, !.ours = TRUE]

PassCreate ==
  LET h == pass.registry IN
  /\ pass.pc = "create"
  /\ harbor' = [harbor EXCEPT ![h] = Created(h)]
  /\ \/ /\ placement' = [placement EXCEPT ![pass.at.key][h] = harbor'[h].id]
        /\ pass' = [pass EXCEPT !.pc = "delete"]
     \/ /\ AnswersLost
        /\ pass' = IdlePass
        /\ UNCHANGED placement
  /\ UNCHANGED <<member, project, queue, nextId, hand, claimed, torn, served, crashes>>

PassRemove ==
  LET h == pass.registry IN
  /\ pass.pc = "remove"
  /\ harbor' = [harbor EXCEPT ![h] = Deleted(h, pass.at.key)]
  /\ pass' = [pass EXCEPT !.pc = "delete"]
  /\ UNCHANGED <<member, project, placement, queue, nextId, hand, claimed, torn, served, crashes>>

PassDelete ==
  /\ pass.pc = "delete"
  /\ queue' = queue \ {pass.at}
  /\ pass' = [IdlePass EXCEPT !.pc = "next", !.registry = pass.registry,
                !.ops = pass.ops \ {pass.at}]
  /\ UNCHANGED <<member, project, placement, harbor, nextId, hand, claimed, torn, served, crashes>>

\* The snapshot is drained, a call fails, or the worker dies: what was not replayed
\* is still owed.
PassEnds ==
  /\ pass.pc # "idle"
  /\ pass' = IdlePass
  /\ UNCHANGED <<member, project, placement, harbor, queue, nextId, hand, claimed, torn, served,
                 crashes>>

Compose ==
  \/ \E h \in Harbor : Leave(h) \/ \E c \in Cluster : Join(h, c)
  \/ JoinWrite \/ JoinBacklog \/ (\E g \in Gen : JoinOwe(g)) \/ JoinDone
  \/ LeaveQueue \/ LeavePlacements \/ LeaveWrite

Moving ==
  \/ \E g \in Gen, c \in Cluster : Move(g, c)
  \/ MoveInspected \/ MoveForget \/ MoveUnplace \/ MoveRow \/ MoveTargets \/ MoveDone
  \/ \E left \in hand["move"].todo \union hand["move"].failed :
       \/ MoveRemoved(left[1], left[2]) \/ MoveRefused(left[1], left[2])
       \/ MoveFailed(left[1], left[2]) \/ MoveOweRemoval(left[1], left[2]) \/ MoveOwe(left[1])

Adopting ==
  \/ \E c \in Cluster : Adopt(c)
  \/ \E h \in Harbor : AdoptList(h) \/ AdoptUnreachable(h)
  \/ AdoptKnown \/ AdoptCreate

Replay ==
  \/ \E h \in Harbor : PassStart(h)
  \/ \E op \in pass.ops : PassTake(op)
  \/ PassCreate \/ PassRemove \/ PassDelete \/ PassEnds

Next ==
  \/ Compose \/ Moving \/ Adopting \/ Replay
  \/ \E r \in Role : Crash(r)

Spec == Init /\ [][Next]_vars

-----------------------------------------------------------------------------
(* Properties.                                                             *)

\* Nobody is half way through changing where row g is, or whose Harbor h is.
Settled(g, h) ==
  /\ ~(Busy("move") /\ hand["move"].gen = g)
  /\ ~(Busy("compose") /\ hand["compose"].at = h)
  /\ torn \intersect {g, h} = {}

Holds(g, h) == harbor[h].there /\ placement[g][h] = harbor[h].id

\* Every member of a project's cluster holds it, recorded under its id, or is owed its
\* creation, whichever way and in whichever order the two came together
\* (service.ts: joining means catching up on everything already in the cluster).  An
\* adopted project is where it was found: the mesh carries it further.
MemberHolds ==
  \A g \in Gen \ claimed, h \in Harbor :
    project[g] # None /\ member[h] = project[g] /\ Settled(g, h) =>
      Holds(g, h) \/ Owes(h, "PROJECT_CREATE", g)

\* What is recorded as placed is on that Harbor, which is of the project's cluster.
PlacementIsTrue ==
  \A g \in Gen, h \in Harbor :
    placement[g][h] # 0 /\ Settled(g, h) =>
      /\ member[h] = project[g]
      /\ Holds(g, h) \/ Owes(h, "PROJECT_CREATE", g)

\* A project the Gateway put on a member is known, its deletion is owed, or it was
\* reported as not empty (move-project.ts: a creation still owed to an old member
\* would recreate it there after the move).
NothingStray ==
  \A h \in Harbor :
    harbor[h].ours /\ member[h] # None =>
      \/ \E g \in Gen : placement[g][h] = harbor[h].id
      \/ Owes(h, "PROJECT_DELETE", harbor[h].id)
      \/ harbor[h].told
      \/ h \in torn
      \/ Busy("compose") /\ hand["compose"].at = h

=============================================================================
