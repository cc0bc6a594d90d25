--------------------------- MODULE MembershipSync ---------------------------
(***************************************************************************)
(* The grants of one project: the ProjectMember rows of the Gateway, the   *)
(* membership each Harbor of the cluster holds, and the queue of what the  *)
(* Harbors that did not answer are owed.                                   *)
(*                                                                         *)
(* Two kinds of actors move them: the handlers of the members API          *)
(* (lib/clusters/project-members.ts), which no lock orders, and the        *)
(* reconciliation pass (lib/clusters/reconcile.ts), which runs one at a    *)
(* time under the replication lock and replays a registry's rows oldest    *)
(* first, stopping at the first that fails.                                *)
(*                                                                         *)
(* A Harbor is external.  A call to it is refused, or succeeds, or         *)
(* succeeds while its answer is lost.  Grants to directory groups          *)
(* (lib/clusters/project-groups.ts) follow the same rules with the group   *)
(* for subject.                                                            *)
(***************************************************************************)
EXTENDS PendingOps, FiniteSets

CONSTANTS
  Harbor,        \* the members of the cluster
  User,          \* the people the requests are about
  Role,          \* ProjectMemberRole
  Manager,       \* concurrent handlers of the members API
  None,          \* no role, no user
  Unknown,       \* pairs <<h, u>>: Harbor h has no account for u
  Apart,         \* steps about one user are not interleaved with others about it
  Patient,       \* nobody grants to u while a removal of u is queued
  Misread,       \* a lookup that a Harbor answers with an error finds nobody
  AnswersLost,   \* a Harbor may apply a grant or a revocation and its answer be lost
  MaxRequests,   \* bound: requests served, one that dies counting twice
  MaxCrashes     \* bound: handlers that die half way

ASSUME MembershipAssumption ==
  /\ IsFiniteSet(Harbor) /\ IsFiniteSet(User) /\ Harbor # {}
  /\ None \notin Role /\ None \notin User /\ None \notin Harbor
  /\ Unknown \subseteq Harbor \X User
  /\ Apart \in BOOLEAN /\ Patient \in BOOLEAN /\ AnswersLost \in BOOLEAN
  /\ Misread \in BOOLEAN
  /\ MaxRequests \in Nat /\ MaxCrashes \in Nat

VARIABLES
  row,       \* ProjectMember.role, or None when there is no row
  born,      \* how many rows the user has had: the identity of the current one
  grant,     \* the role each Harbor holds for each user
  placed,    \* whether the project exists on the Harbor
  queue,     \* the PendingOperation rows
  nextId,    \* createdAt of the next row
  hand,      \* the handlers
  pass,      \* the reconciliation pass
  requests, crashes

vars == <<row, born, grant, placed, queue, nextId, hand, pass, requests, crashes>>

Kind == {"PROJECT_CREATE", "MEMBER_ADD", "MEMBER_REMOVE"}
Grants == {"MEMBER_ADD", "MEMBER_REMOVE"}
Op == [id : Nat, registry : Harbor, kind : Kind, key : User \union {None}]

ASSUME NoneAssumption == None \notin Op

\* want: the role loaded to be pushed; todo: Harbors still to be called;
\* failed: Harbors to queue a row for; reached: some Harbor accepted; at, seen:
\* the Harbor a row is being queued for and the rows found for its subject.
Hand == [pc : {"idle", "upsert", "load", "fanout", "enqueue", "forget", "unrow"},
         kind : Grants, user : User \union {None}, role : Role \union {None},
         had : BOOLEAN, mine : Nat, want : Role \union {None},
         todo : SUBSET Harbor, failed : SUBSET Harbor, reached : BOOLEAN,
         at : Harbor \union {None}, seen : SUBSET Op]

\* ops: rows of the snapshot still to be replayed; at: the one in hand; want:
\* the role read for it; todo: members a placed project still has to be given.
Pass == [pc : {"idle", "next", "call", "members", "delete"},
         registry : Harbor \union {None}, ops : SUBSET Op, at : Op \union {None},
         want : Role \union {None}, todo : [User -> Role \union {None}]]

TypeOK ==
  /\ row \in [User -> Role \union {None}]
  /\ born \in [User -> Nat]
  /\ grant \in [Harbor -> [User -> Role \union {None}]]
  /\ placed \in [Harbor -> BOOLEAN]
  /\ queue \subseteq Op
  /\ nextId \in Nat
  /\ hand \in [Manager -> Hand]
  /\ pass \in Pass
  /\ requests \in 0..MaxRequests
  /\ crashes \in 0..MaxCrashes

NoRoles == [u \in User |-> None]

IdleHand == [pc |-> "idle", kind |-> "MEMBER_ADD", user |-> None, role |-> None,
             had |-> FALSE, mine |-> 0, want |-> None,
             todo |-> {}, failed |-> {}, reached |-> FALSE,
             at |-> None, seen |-> {}]

IdlePass == [pc |-> "idle", registry |-> None, ops |-> {}, at |-> None,
             want |-> None, todo |-> NoRoles]

\* The project was approved while some Harbors were down: each of those is owed
\* its creation.
Init ==
  /\ row = NoRoles
  /\ born = [u \in User |-> 0]
  /\ grant = [h \in Harbor |-> NoRoles]
  /\ placed \in [Harbor -> BOOLEAN]
  /\ queue = {Row(0, h, "PROJECT_CREATE", None) : h \in {x \in Harbor : ~placed[x]}}
  /\ nextId = 1
  /\ hand = [m \in Manager |-> IdleHand]
  /\ pass = IdlePass
  /\ requests = 0
  /\ crashes = 0

-----------------------------------------------------------------------------
(* Handlers.                                                               *)

Touches(op, u) == op.kind = "PROJECT_CREATE" \/ op.key = u
Replaying(u) == pass.at # None /\ Touches(pass.at, u)
Serving(u) == \E m \in Manager : hand[m].user = u
Busy(u) == Serving(u) \/ Replaying(u)

RemovalQueued(u) == \E op \in queue : op.kind = "MEMBER_REMOVE" /\ op.key = u

Answer(m) == hand' = [hand EXCEPT ![m] = IdleHand]

\* Only a row this handler created is rolled back.
RollBackCreation(m) ==
  hand' = [hand EXCEPT ![m] = IF @.had THEN IdleHand
                              ELSE [@ EXCEPT !.pc = "forget", !.at = None, !.seen = {}]]

\* POST /members: saveMemberAcrossCluster reads the previous row...
Save(m, u, r) ==
  /\ hand[m].pc = "idle" /\ requests + crashes < MaxRequests /\ (Apart => ~Busy(u))
  /\ Patient => ~RemovalQueued(u)
  /\ requests' = requests + 1
  /\ hand' = [hand EXCEPT ![m] = [IdleHand EXCEPT !.pc = "upsert", !.user = u,
                                    !.role = r, !.had = row[u] # None]]
  /\ UNCHANGED <<row, born, grant, placed, queue, nextId, pass, crashes>>

\* ...and writes the new one.
SaveUpsert(m) ==
  LET u == hand[m].user IN
  /\ hand[m].pc = "upsert"
  /\ row' = [row EXCEPT ![u] = hand[m].role]
  /\ born' = [born EXCEPT ![u] = IF row[u] = None THEN @ + 1 ELSE @]
  /\ hand' = [hand EXCEPT ![m].pc = "load", ![m].mine = born'[u]]
  /\ UNCHANGED <<grant, placed, queue, nextId, pass, requests, crashes>>

\* loadMemberDesiredState: the row is read again; if it has gone the sync
\* throws and the creation is rolled back.
SaveLoad(m) ==
  LET u == hand[m].user IN
  /\ hand[m].pc = "load"
  /\ IF row[u] = None
     THEN RollBackCreation(m)
     ELSE hand' = [hand EXCEPT ![m].pc = "fanout", ![m].want = row[u], ![m].todo = Harbor]
  /\ UNCHANGED <<row, born, grant, placed, queue, nextId, pass, requests, crashes>>

\* DELETE /members/[userId]: the Harbors first.
Remove(m, u) ==
  /\ hand[m].pc = "idle" /\ requests + crashes < MaxRequests /\ (Apart => ~Busy(u))
  /\ requests' = requests + 1
  /\ hand' = [hand EXCEPT ![m] = [IdleHand EXCEPT !.pc = "fanout", !.user = u,
                                    !.kind = "MEMBER_REMOVE", !.todo = Harbor]]
  /\ UNCHANGED <<row, born, grant, placed, queue, nextId, pass, crashes>>

\* applyMemberToMember / removeMemberFromMember succeed: a removal has nothing
\* to do where there is no project; a grant needs the project and the account.
CallWorks(h, u, kind) ==
  kind = "MEMBER_ADD" => placed[h] /\ <<h, u>> \notin Unknown

\* findHarborProjectMember: a lookup the Harbor answers with an error is taken for one
\* that finds nobody, and there is nothing to remove.
Overlooked(kind) == Misread /\ kind = "MEMBER_REMOVE"

\* want is None for a removal, so both write it.
FanOutReached(m, h) ==
  /\ hand[m].pc = "fanout" /\ h \in hand[m].todo
  /\ CallWorks(h, hand[m].user, hand[m].kind)
  /\ \/ grant' = [grant EXCEPT ![h][hand[m].user] = hand[m].want]
     \/ Overlooked(hand[m].kind) /\ UNCHANGED grant
  /\ hand' = [hand EXCEPT ![m].todo = @ \ {h}, ![m].reached = TRUE]
  /\ UNCHANGED <<row, born, placed, queue, nextId, pass, requests, crashes>>

\* A seeded bug: a Harbor that did not answer is reported like one that does not
\* know the account, and nothing is queued for it.
FanOutFailedBug(m, h) ==
  /\ hand[m].pc = "fanout" /\ h \in hand[m].todo
  /\ hand' = [hand EXCEPT ![m].todo = @ \ {h}]
  /\ UNCHANGED <<row, born, grant, placed, queue, nextId, pass, requests, crashes>>

\* No answer: the Harbor is owed a row.
FanOutFailed(m, h) ==
  /\ hand[m].pc = "fanout" /\ h \in hand[m].todo
  /\ \/ UNCHANGED grant
     \/ /\ AnswersLost /\ CallWorks(h, hand[m].user, hand[m].kind)
        /\ grant' = [grant EXCEPT ![h][hand[m].user] = hand[m].want]
  /\ hand' = [hand EXCEPT ![m].todo = @ \ {h}, ![m].failed = @ \union {h}]
  /\ UNCHANGED <<row, born, placed, queue, nextId, pass, requests, crashes>>

\* HarborUnknownUserError is reported, never queued.
FanOutUnknown(m, h) ==
  /\ hand[m].pc = "fanout" /\ h \in hand[m].todo
  /\ hand[m].kind = "MEMBER_ADD" /\ placed[h] /\ <<h, hand[m].user>> \in Unknown
  /\ hand' = [hand EXCEPT ![m].todo = @ \ {h}]
  /\ UNCHANGED <<row, born, grant, placed, queue, nextId, pass, requests, crashes>>

\* Two seeded bugs: rows of the same kind only are looked for, or rows of any
\* registry.
EnqueueReadKindBug(m, h) ==
  /\ hand[m].pc = "fanout" /\ hand[m].todo = {} /\ h \in hand[m].failed
  /\ hand' = [hand EXCEPT ![m].pc = "enqueue", ![m].at = h, ![m].failed = @ \ {h},
                 ![m].seen = Subject(queue, h, {hand[m].kind}, hand[m].user)]
  /\ UNCHANGED <<row, born, grant, placed, queue, nextId, pass, requests, crashes>>

\* enqueue, for each Harbor that failed: it looks for rows of the subject...
EnqueueRead(m, h) ==
  /\ hand[m].pc = "fanout" /\ hand[m].todo = {} /\ h \in hand[m].failed
  /\ hand' = [hand EXCEPT ![m].pc = "enqueue", ![m].at = h, ![m].failed = @ \ {h},
                 ![m].seen = Subject(queue, h, Grants, hand[m].user)]
  /\ UNCHANGED <<row, born, grant, placed, queue, nextId, pass, requests, crashes>>

\* A seeded bug: the registry is read after it was reset.
EnqueueWriteBug(m) ==
  /\ hand[m].pc = "enqueue"
  /\ hand' = [hand EXCEPT ![m].pc = "fanout", ![m].at = None, ![m].seen = {}]
  /\ queue' = (queue \ hand[m].seen)
                 \union {Row(nextId, hand'[m].at, hand[m].kind, hand[m].user)}
  /\ nextId' = nextId + 1
  /\ UNCHANGED <<row, born, grant, placed, pass, requests, crashes>>

\* ...and writes.  An addition found is updated in place, and if it has gone
\* meanwhile the update throws.
EnqueueWrite(m) ==
  LET kept == {op \in hand[m].seen : op.kind = hand[m].kind /\ op.kind = "MEMBER_ADD"} IN
  /\ hand[m].pc = "enqueue"
  /\ IF kept \subseteq queue
     THEN hand' = [hand EXCEPT ![m].pc = "fanout", ![m].at = None, ![m].seen = {}]
     ELSE RollBackCreation(m)
  /\ IF kept # {}
     THEN UNCHANGED <<queue, nextId>>
     ELSE /\ queue' = (queue \ hand[m].seen)
                         \union {Row(nextId, hand[m].at, hand[m].kind, hand[m].user)}
          /\ nextId' = nextId + 1
  /\ UNCHANGED <<row, born, grant, placed, pass, requests, crashes>>

FannedOut(m) == hand[m].pc = "fanout" /\ hand[m].todo = {} /\ hand[m].failed = {}

\* A creation no Harbor accepted is rolled back; anything else is answered.
SaveDone(m) ==
  /\ FannedOut(m) /\ hand[m].kind = "MEMBER_ADD"
  /\ IF hand[m].reached THEN Answer(m) ELSE RollBackCreation(m)
  /\ UNCHANGED <<row, born, grant, placed, queue, nextId, pass, requests, crashes>>

\* A seeded bug: the rows of everybody are forgotten.
ForgetBug(m) ==
  /\ hand[m].pc = "forget"
  /\ queue' = {op \in queue : op.kind \notin Grants}
  /\ hand' = [hand EXCEPT ![m].pc = "unrow"]
  /\ UNCHANGED <<row, born, grant, placed, nextId, pass, requests, crashes>>

\* forgetQueuedMemberOps
Forget(m) ==
  /\ hand[m].pc = "forget"
  /\ queue' = {op \in queue : ~(op.kind \in Grants /\ op.key = hand[m].user)}
  /\ hand' = [hand EXCEPT ![m].pc = "unrow"]
  /\ UNCHANGED <<row, born, grant, placed, nextId, pass, requests, crashes>>

\* The row it created is deleted by its id.
Unrow(m) ==
  LET u == hand[m].user IN
  /\ hand[m].pc = "unrow"
  /\ row' = [row EXCEPT ![u] = IF born[u] = hand[m].mine THEN None ELSE @]
  /\ Answer(m)
  /\ UNCHANGED <<born, grant, placed, queue, nextId, pass, requests, crashes>>

RemoveDone(m) ==
  /\ FannedOut(m) /\ hand[m].kind = "MEMBER_REMOVE"
  /\ row' = [row EXCEPT ![hand[m].user] = None]
  /\ Answer(m)
  /\ UNCHANGED <<born, grant, placed, queue, nextId, pass, requests, crashes>>

Crash(m) ==
  /\ hand[m].pc # "idle" /\ crashes < MaxCrashes
  /\ crashes' = crashes + 1
  /\ Answer(m)
  /\ UNCHANGED <<row, born, grant, placed, queue, nextId, pass, requests>>

-----------------------------------------------------------------------------
(* The reconciliation pass: runReconcileRegistry and replay.               *)

PassStart(h) ==
  /\ pass.pc = "idle" /\ Owed(queue, h) # {}
  /\ pass' = [IdlePass EXCEPT !.pc = "next", !.registry = h, !.ops = Owed(queue, h)]
  /\ UNCHANGED <<row, born, grant, placed, queue, nextId, hand, requests, crashes>>

\* The next row of the snapshot.  A MEMBER_ADD whose membership was revoked is
\* stale; one still wanted is replayed with the role read now.
PassTake(op) ==
  /\ pass.pc = "next" /\ IsOldest(op, pass.ops)
  /\ Apart => \A u \in User : Serving(u) => ~Touches(op, u)
  /\ pass' = [pass EXCEPT !.at = op,
                !.pc = IF op.kind = "MEMBER_ADD" /\ row[op.key] = None
                       THEN "delete" ELSE "call",
                !.want = IF op.kind = "MEMBER_ADD" THEN row[op.key] ELSE None]
  /\ UNCHANGED <<row, born, grant, placed, queue, nextId, hand, requests, crashes>>

\* The Harbor does what the row asks.  Placing the project reads the memberships
\* to push next.
PassCall ==
  LET op == pass.at IN LET h == pass.registry IN
  /\ pass.pc = "call"
  /\ CallWorks(h, op.key, op.kind)
  /\ IF op.kind = "PROJECT_CREATE"
     THEN /\ placed' = [placed EXCEPT ![h] = TRUE]
          /\ pass' = [pass EXCEPT !.pc = "members", !.todo = row]
          /\ UNCHANGED grant
     ELSE /\ \/ grant' = [grant EXCEPT ![h][op.key] = pass.want]
             \/ Overlooked(op.kind) /\ UNCHANGED grant
          /\ pass' = [pass EXCEPT !.pc = "delete"]
          /\ UNCHANGED placed
  /\ UNCHANGED <<row, born, queue, nextId, hand, requests, crashes>>

\* applyProjectMembersToMember: a refused grant is queued on its own.
PassMember(u) ==
  LET h == pass.registry IN
  /\ pass.pc = "members" /\ pass.todo[u] # None
  /\ pass' = [pass EXCEPT !.todo[u] = None]
  /\ \/ /\ <<h, u>> \notin Unknown
        /\ grant' = [grant EXCEPT ![h][u] = pass.todo[u]]
        /\ UNCHANGED <<queue, nextId>>
     \/ /\ <<h, u>> \in Unknown
        /\ UNCHANGED <<grant, queue, nextId>>
     \/ /\ queue' = EnqueueGrant(queue, nextId, h, "MEMBER_ADD",
                                 "MEMBER_ADD", "MEMBER_REMOVE", u)
        /\ nextId' = IF queue' = queue THEN nextId ELSE nextId + 1
        /\ \/ UNCHANGED grant
           \/ AnswersLost /\ grant' = [grant EXCEPT ![h][u] = pass.todo[u]]
  /\ UNCHANGED <<row, born, placed, hand, requests, crashes>>

PassMembersDone ==
  /\ pass.pc = "members" /\ pass.todo = NoRoles
  /\ pass' = [pass EXCEPT !.pc = "delete"]
  /\ UNCHANGED <<row, born, grant, placed, queue, nextId, hand, requests, crashes>>

\* The row is deleted after its replay.  If a handler has superseded it
\* meanwhile, both the delete and the failure's own update throw: the pass ends.
PassDelete ==
  /\ pass.pc = "delete"
  /\ queue' = queue \ {pass.at}
  /\ pass' = IF pass.at \in queue
             THEN [IdlePass EXCEPT !.pc = "next", !.registry = pass.registry,
                                   !.ops = pass.ops \ {pass.at}]
             ELSE IdlePass
  /\ UNCHANGED <<row, born, grant, placed, nextId, hand, requests, crashes>>

\* The snapshot is drained, a replay is refused (the row stays and the rest
\* waits behind it), the answer is lost, or the worker dies.
PassEnds ==
  /\ pass.pc # "idle"
  /\ pass' = IdlePass
  /\ UNCHANGED <<row, born, grant, placed, queue, nextId, hand, requests, crashes>>

Handler(m) ==
  \/ SaveUpsert(m) \/ SaveLoad(m) \/ SaveDone(m) \/ Forget(m) \/ Unrow(m) \/ RemoveDone(m)
  \/ EnqueueWrite(m)
  \/ \E h \in Harbor :
       FanOutReached(m, h) \/ FanOutFailed(m, h) \/ FanOutUnknown(m, h) \/ EnqueueRead(m, h)

Replay ==
  \/ \E op \in pass.ops : PassTake(op)
  \/ PassCall \/ PassMembersDone \/ PassDelete
  \/ \E u \in User : PassMember(u)

Next ==
  \/ \E m \in Manager :
       \/ \E u \in User : Remove(m, u) \/ \E r \in Role : Save(m, u, r)
       \/ Handler(m)
       \/ Crash(m)
  \/ \E h \in Harbor : PassStart(h)
  \/ Replay
  \/ PassEnds

Spec == Init /\ [][Next]_vars

-----------------------------------------------------------------------------
(* Safety.                                                                 *)

Queued(h, kind, u) == Subject(queue, h, {kind}, u) # {}

\* No step about u is under way, and none broke off because its handler died.
Settled(u) == ~Busy(u) /\ crashes = 0

\* A Harbor that does not hold the role the Gateway shows for a member is owed
\* it: a MEMBER_ADD is queued for it, or the project itself is, whose placement
\* pushes the grants (fanout.ts: members that did not answer are parked in
\* PendingOperation; project-members.ts, applyProjectMembersToMember).
GrantIsOwed ==
  \A h \in Harbor, u \in User :
    (row[u] # None /\ grant[h][u] # row[u] /\ <<h, u>> \notin Unknown /\ Settled(u)) =>
      Queued(h, "MEMBER_ADD", u) \/ Queued(h, "PROJECT_CREATE", None)

\* A Harbor that still grants access to somebody the Gateway no longer lists is
\* owed the revocation (the DELETE route: never "the grant in place with nothing
\* left in the Gateway pointing at it").
RevocationIsOwed ==
  \A h \in Harbor, u \in User :
    (row[u] = None /\ grant[h][u] # None /\ Settled(u)) => Queued(h, "MEMBER_REMOVE", u)

\* The queue does not grow with retries: a Harbor is owed at most one row about
\* one person (enqueue: identical entries collapse, a removal supersedes).
OneRowPerSubject ==
  \A h \in Harbor, u \in User : Cardinality(Subject(queue, h, Grants, u)) <= 1

\* Every Harbor holds the grants the Gateway shows.
Converged ==
  \A h \in Harbor, u \in User : <<h, u>> \notin Unknown => grant[h][u] = row[u]

=============================================================================
