----------------------------- MODULE SettingSync -----------------------------
(***************************************************************************)
(* One setting of one project that every Harbor of the cluster has to      *)
(* hold: its storage limit (lib/projects/quota.ts, lib/clusters/quota.ts), *)
(* its scan policy (lib/clusters/scan-policy.ts) or its retention policy   *)
(* (lib/clusters/retention.ts).  The last two are the same protocol with   *)
(* nothing refused and nothing rolled back; a retention policy is an object*)
(* of its own on each Harbor, known by an id its placement holds, and is   *)
(* not part of what creating the project pushes.                           *)
(*                                                                         *)
(* The Gateway records the desired value, pushes it to every Harbor and    *)
(* queues a row, which carries no value, for each that failed; the         *)
(* reconciliation pass replays a row with the value desired when it reads  *)
(* it.  A row found in the queue stands for the new failure too (enqueue   *)
(* refreshes its payload, which for a setting is empty).                   *)
(***************************************************************************)
EXTENDS PendingOps, FiniteSets

CONSTANTS
  Harbor,       \* the members of the cluster
  Value,        \* the values of the setting
  Initial,      \* the value the project was approved with; no retention policy
  Admin,        \* concurrent handlers that change it
  None,         \* no Harbor, no value, no row
  Refused,      \* pairs <<h, v>>: Harbor h rejects v on merit
  Apart,        \* no handler overlaps another, nor a replay
  AnswersLost,  \* a Harbor may apply a call and its answer be lost
  MaxChanges    \* bound: requests served

VARIABLES
  kind,      \* which setting the behaviour follows: the kind of its rows
  desired,   \* Project.storageQuotaMib (autoScan and autoSbom, RetentionPolicy)
  held,      \* the value each Harbor enforces
  project,   \* per Harbor: absent, there (not recorded as placed), placed, or bound:
             \* placed with a harborRetentionId
  queue,     \* the PendingOperation rows
  nextId,    \* createdAt of the next row
  hand,      \* the handlers
  pass,      \* the reconciliation pass
  changes    \* requests served

vars == <<kind, desired, held, project, queue, nextId, hand, pass, changes>>

Setting == {"QUOTA_UPDATE", "SCAN_POLICY_UPDATE", "RETENTION_UPSERT"}
Kind == {"PROJECT_CREATE"} \union Setting
Op == [id : Nat, registry : Harbor, kind : Kind, key : {None}]

\* previous: what a roll-back restores; at, found: the Harbor a row is being
\* queued for and the row of its kind that was found.
Hand == [pc : {"idle", "read", "fanout", "enqueue", "rollback"},
         value : Value \union {None}, previous : Value \union {None},
         todo : SUBSET Harbor, failed : SUBSET Harbor, reached : BOOLEAN,
         at : Harbor \union {None}, found : Op \union {None}]

\* want: the value read for the row in hand.
Pass == [pc : {"idle", "next", "call", "push", "delete"},
         registry : Harbor \union {None}, ops : SUBSET Op, at : Op \union {None},
         want : Value \union {None}]

TypeOK ==
  /\ kind \in Setting
  /\ desired \in Value
  /\ held \in [Harbor -> Value]
  /\ project \in [Harbor -> {"absent", "there", "placed", "bound"}]
  /\ queue \subseteq Op
  /\ nextId \in Nat
  /\ hand \in [Admin -> Hand]
  /\ pass \in Pass
  /\ changes \in 0..MaxChanges

IdleHand == [pc |-> "idle", value |-> None, previous |-> None, todo |-> {},
             failed |-> {}, reached |-> FALSE, at |-> None, found |-> None]

IdlePass == [pc |-> "idle", registry |-> None, ops |-> {}, at |-> None, want |-> None]

\* The project was approved while some Harbors were down; one that has a project
\* of that name already enforces any value.
Init ==
  /\ kind \in Setting
  /\ desired = Initial
  /\ project \in [Harbor -> {"absent", "there", "placed"}]
  /\ held \in [Harbor -> Value]
  /\ \A h \in Harbor : project[h] # "there" => held[h] = Initial
  /\ queue = {Row(0, h, "PROJECT_CREATE", None) : h \in {x \in Harbor : project[x] # "placed"}}
  /\ nextId = 1
  /\ hand = [a \in Admin |-> IdleHand]
  /\ pass = IdlePass
  /\ changes = 0

-----------------------------------------------------------------------------
(* Handlers: applyProjectQuota, PUT /api/projects/[id]/scan-policy.        *)

\* A limit that no Harbor took is put back; a policy is kept whatever happens.
RollsBack == kind = "QUOTA_UPDATE"

Retains == kind = "RETENTION_UPSERT"

Serving == \E a \in Admin : hand[a].pc # "idle"

Answer(a) == hand' = [hand EXCEPT ![a] = IdleHand]

\* A seeded bug: the value to restore is not read.
ChangeBug(a, v) ==
  /\ hand[a].pc = "idle" /\ changes < MaxChanges
  /\ Retains => v # Initial
  /\ Apart => ~Serving /\ pass.at = None
  /\ changes' = changes + 1
  /\ hand' = [hand EXCEPT ![a] = [IdleHand EXCEPT !.pc = "read", !.value = v]]
  /\ UNCHANGED <<kind, desired, held, project, queue, nextId, pass>>

\* The value to restore is read first...
Change(a, v) ==
  /\ hand[a].pc = "idle" /\ changes < MaxChanges
  /\ Retains => v # Initial
  /\ Apart => ~Serving /\ pass.at = None
  /\ changes' = changes + 1
  /\ hand' = [hand EXCEPT ![a] = [IdleHand EXCEPT !.pc = "read", !.value = v,
                                    !.previous = desired]]
  /\ UNCHANGED <<kind, desired, held, project, queue, nextId, pass>>

\* ...then the new one is written, before any Harbor hears of it.
Record(a) ==
  /\ hand[a].pc = "read"
  /\ desired' = hand[a].value
  /\ hand' = [hand EXCEPT ![a].pc = "fanout", ![a].todo = Harbor]
  /\ UNCHANGED <<kind, held, project, queue, nextId, pass, changes>>

Refuses(h, v) == kind = "QUOTA_UPDATE" /\ <<h, v>> \in Refused

\* applyQuotaToMember, applyScanPolicyToMember, applyRetentionToMember: all need the
\* placement.  A retention policy that has no id yet is created, which a Harbor takes
\* if its project has none.
Accepts(h, v) ==
  \/ project[h] = "bound"
  \/ project[h] = "placed" /\ ~Refuses(h, v) /\ (Retains => held[h] = Initial)

Recorded(h) == IF Retains THEN [project EXCEPT ![h] = "bound"] ELSE project

FanOutReached(a, h) ==
  /\ hand[a].pc = "fanout" /\ h \in hand[a].todo
  /\ Accepts(h, hand[a].value)
  /\ held' = [held EXCEPT ![h] = hand[a].value]
  /\ project' = Recorded(h)
  /\ hand' = [hand EXCEPT ![a].todo = @ \ {h}, ![a].reached = TRUE]
  /\ UNCHANGED <<kind, desired, queue, nextId, pass, changes>>

FanOutFailed(a, h) ==
  /\ hand[a].pc = "fanout" /\ h \in hand[a].todo
  /\ \/ UNCHANGED held
     \/ /\ AnswersLost /\ Accepts(h, hand[a].value)
        /\ held' = [held EXCEPT ![h] = hand[a].value]
  /\ hand' = [hand EXCEPT ![a].todo = @ \ {h}, ![a].failed = @ \union {h}]
  /\ UNCHANGED <<kind, desired, project, queue, nextId, pass, changes>>

\* HarborQuotaRejectedError is reported, never queued.
FanOutRefused(a, h) ==
  /\ hand[a].pc = "fanout" /\ h \in hand[a].todo
  /\ project[h] = "placed" /\ Refuses(h, hand[a].value)
  /\ hand' = [hand EXCEPT ![a].todo = @ \ {h}]
  /\ UNCHANGED <<kind, desired, held, project, queue, nextId, pass, changes>>

\* enqueue, for each Harbor that failed: it looks for a row of its kind...
EnqueueRead(a, h) ==
  /\ hand[a].pc = "fanout" /\ hand[a].todo = {} /\ h \in hand[a].failed
  /\ LET rows == Subject(queue, h, {kind}, None)
     IN  \E found \in IF rows = {} THEN {None} ELSE rows :
           hand' = [hand EXCEPT ![a].pc = "enqueue", ![a].at = h, ![a].found = found,
                      ![a].failed = @ \ {h}]
  /\ UNCHANGED <<kind, desired, held, project, queue, nextId, pass, changes>>

\* ...and creates one, or refreshes the one it found: if that is gone by now the
\* update throws, and the change is undone.
EnqueueWrite(a) ==
  LET found == hand[a].found IN
  /\ hand[a].pc = "enqueue"
  /\ hand' = [hand EXCEPT ![a].at = None, ![a].found = None,
                ![a].pc = IF found \in queue \union {None} THEN "fanout"
                          ELSE IF RollsBack THEN "rollback" ELSE "idle"]
  /\ IF found = None
     THEN /\ queue' = queue \union {Row(nextId, hand[a].at, kind, None)}
          /\ nextId' = nextId + 1
     ELSE UNCHANGED <<queue, nextId>>
  /\ UNCHANGED <<kind, desired, held, project, pass, changes>>

FannedOut(a) == hand[a].pc = "fanout" /\ hand[a].todo = {} /\ hand[a].failed = {}

ChangeDone(a) ==
  /\ FannedOut(a)
  /\ IF hand[a].reached \/ ~RollsBack
     THEN Answer(a)
     ELSE hand' = [hand EXCEPT ![a].pc = "rollback"]
  /\ UNCHANGED <<kind, desired, held, project, queue, nextId, pass, changes>>

\* What was queued stays queued: it will replay the value restored.
RollBack(a) ==
  /\ hand[a].pc = "rollback"
  /\ desired' = hand[a].previous
  /\ Answer(a)
  /\ UNCHANGED <<kind, held, project, queue, nextId, pass, changes>>

-----------------------------------------------------------------------------
(* The reconciliation pass.                                                *)

PassStart(h) ==
  /\ pass.pc = "idle" /\ Owed(queue, h) # {}
  /\ pass' = [IdlePass EXCEPT !.pc = "next", !.registry = h, !.ops = Owed(queue, h)]
  /\ UNCHANGED <<kind, desired, held, project, queue, nextId, hand, changes>>

\* The project is read, and with it the value to replay.
PassTake(op) ==
  /\ pass.pc = "next" /\ IsOldest(op, pass.ops)
  /\ Apart => ~Serving
  /\ pass' = [pass EXCEPT !.pc = IF op.kind = "PROJECT_CREATE" THEN "call" ELSE "push",
                !.at = op, !.want = desired]
  /\ UNCHANGED <<kind, desired, held, project, queue, nextId, hand, changes>>

\* applyProjectToMember: a project created now takes the value with it, one that
\* was there has it pushed on top; neither is so of a retention policy.
PassCall ==
  LET h == pass.registry IN
  /\ pass.pc = "call"
  /\ \/ /\ project[h] = "absent" /\ ~Refuses(h, pass.want)
        /\ held' = IF Retains THEN held ELSE [held EXCEPT ![h] = pass.want]
        /\ \/ /\ project' = [project EXCEPT ![h] = "placed"]
              /\ pass' = [pass EXCEPT !.pc = "delete"]
           \/ /\ AnswersLost
              /\ project' = [project EXCEPT ![h] = "there"]
              /\ pass' = IdlePass
     \/ /\ project[h] # "absent"
        /\ project' = IF project[h] = "there" THEN [project EXCEPT ![h] = "placed"] ELSE project
        /\ pass' = [pass EXCEPT !.pc = IF Retains THEN "delete" ELSE "push"]
        /\ UNCHANGED held
  /\ UNCHANGED <<kind, desired, queue, nextId, hand, changes>>

PassPush ==
  /\ pass.pc = "push" /\ Accepts(pass.registry, pass.want)
  /\ held' = [held EXCEPT ![pass.registry] = pass.want]
  /\ project' = Recorded(pass.registry)
  /\ pass' = [pass EXCEPT !.pc = "delete"]
  /\ UNCHANGED <<kind, desired, queue, nextId, hand, changes>>

\* A seeded bug: the failure to push is swallowed.
PassPushFailsBug ==
  /\ pass.pc = "push" /\ pass.at.kind = "PROJECT_CREATE"
  /\ pass' = [pass EXCEPT !.pc = "delete"]
  /\ UNCHANGED <<kind, desired, held, project, queue, nextId, hand, changes>>

\* While placing a project, a value that could not be pushed is queued on its own.
PassPushFails ==
  /\ pass.pc = "push" /\ pass.at.kind = "PROJECT_CREATE"
  /\ queue' = EnqueueOnce(queue, nextId, pass.registry, kind, None)
  /\ nextId' = IF queue' = queue THEN nextId ELSE nextId + 1
  /\ pass' = [pass EXCEPT !.pc = "delete"]
  /\ \/ UNCHANGED held
     \/ /\ AnswersLost /\ Accepts(pass.registry, pass.want)
        /\ held' = [held EXCEPT ![pass.registry] = pass.want]
  /\ UNCHANGED <<kind, desired, project, hand, changes>>

PassDelete ==
  /\ pass.pc = "delete"
  /\ queue' = queue \ {pass.at}
  /\ pass' = [IdlePass EXCEPT !.pc = "next", !.registry = pass.registry,
                !.ops = pass.ops \ {pass.at}]
  /\ UNCHANGED <<kind, desired, held, project, nextId, hand, changes>>

\* The snapshot is drained, a replay fails (its answer may be lost: PassPush then
\* PassEnds), or the worker dies.
PassEnds ==
  /\ pass.pc # "idle"
  /\ pass' = IdlePass
  /\ UNCHANGED <<kind, desired, held, project, queue, nextId, hand, changes>>

Handler(a) ==
  \/ Record(a) \/ EnqueueWrite(a) \/ ChangeDone(a) \/ RollBack(a)
  \/ \E h \in Harbor :
       FanOutReached(a, h) \/ FanOutFailed(a, h) \/ FanOutRefused(a, h) \/ EnqueueRead(a, h)

Replay ==
  \/ \E op \in pass.ops : PassTake(op)
  \/ PassCall \/ PassPush \/ PassPushFails \/ PassDelete

Next ==
  \/ \E a \in Admin : Handler(a) \/ \E v \in Value : Change(a, v)
  \/ \E h \in Harbor : PassStart(h)
  \/ Replay
  \/ PassEnds

Spec == Init /\ [][Next]_vars

-----------------------------------------------------------------------------
(* Properties.                                                             *)

\* While the Gateway shows no retention policy, a Harbor may have one of its own.
Unmanaged == Retains /\ desired = Initial

\* A Harbor that does not enforce the value the Gateway shows is owed a replay of
\* it, unless it rejected that value on merit (projects/quota.ts: a member which
\* is down replays the value being set now, not the one it replaced).
ValueIsOwed ==
  ~Serving /\ pass.at = None =>
    \A h \in Harbor :
      held[h] = desired \/ Refuses(h, desired) \/ Owed(queue, h) # {} \/ Unmanaged

\* A Harbor is owed at most one replay of the setting, however often it failed
\* (enqueue: identical entries collapse).
OneRowPerHarbor ==
  \A h \in Harbor : Cardinality(Subject(queue, h, {kind}, None)) <= 1

\* Every Harbor enforces the value the Gateway shows, unless it rejects it on merit.
Converged == \A h \in Harbor : held[h] = desired \/ Refuses(h, desired) \/ Unmanaged

=============================================================================
