-------------------------- MODULE ArtifactRemoval --------------------------
(***************************************************************************)
(* Removing images from a project (lib/projects/artifacts.ts): one image,  *)
(* or its whole repository, is deleted on every Harbor of the cluster, and *)
(* queued with its reference for each that failed (fanout.ts).  No list of *)
(* images is desired: people push them to any Harbor, and the mesh carries *)
(* them on, depending on Cluster.replicationMode (the policies of          *)
(* harbor.ts, replicationPolicyBody):                                      *)
(*   none:        nowhere;                                                 *)
(*   event_based: a push or a deletion on one Harbor becomes an execution  *)
(*                towards each of the others, which comes to its end;      *)
(*   scheduled:   what a Harbor holds is copied to the others at times;    *)
(*                deletions are not carried.                               *)
(* The images of one repository of one project, which is placed on every   *)
(* member; a handler answers and does not die.                             *)
(***************************************************************************)
EXTENDS PendingOps

CONSTANTS
  Harbor,       \* the members of the cluster
  Image,        \* the images of the repository, by digest
  Whole,        \* the reference of the repository itself
  Person,       \* concurrent handlers
  None,         \* no Harbor, no row
  Modes,        \* replication modes to start from
  Patient,      \* nobody pushes an image whose removal is not over
  Apart,        \* no scheduled copy overlaps a handler
  MaxRemovals,  \* bound: removals asked for
  MaxPushes     \* bound: images pushed

VARIABLES
  mode,      \* Cluster.replicationMode
  holds,     \* the images on each Harbor
  flight,    \* the executions of the mesh that are not over
  live,      \* history: images pushed and not removed since
  queue,     \* the PendingOperation rows
  nextId,    \* createdAt of the next row
  hand,      \* the handlers
  pass,      \* the reconciliation pass
  removals, pushes

vars == <<mode, holds, flight, live, queue, nextId, hand, pass, removals, pushes>>

Reference == Image \union {Whole}
Op == [id : Nat, registry : Harbor, kind : {"ARTIFACT_DELETE"}, key : Reference]
Execution == [from : Harbor, to : Harbor, image : Image, what : {"copy", "delete"}]

TypeOK ==
  /\ mode \in {"none", "event_based", "scheduled"}
  /\ holds \in [Harbor -> SUBSET Image]
  /\ flight \subseteq Execution
  /\ live \subseteq Image
  /\ queue \subseteq Op
  /\ nextId \in Nat
  /\ hand \in [Person -> [ref : Reference \union {None}, todo : SUBSET Harbor,
                          failed : SUBSET Harbor]]
  /\ pass \in [pc : {"idle", "next", "call", "delete"}, ops : SUBSET Op, at : Op \union {None}]
  /\ removals \in 0..MaxRemovals /\ pushes \in 0..MaxPushes

IdleHand == [ref |-> None, todo |-> {}, failed |-> {}]
IdlePass == [pc |-> "idle", ops |-> {}, at |-> None]

Init ==
  /\ mode \in Modes
  /\ holds \in [Harbor -> SUBSET Image]
  /\ live = UNION {holds[h] : h \in Harbor}
  /\ flight = {} /\ queue = {} /\ nextId = 1
  /\ hand = [p \in Person |-> IdleHand]
  /\ pass = IdlePass
  /\ removals = 0 /\ pushes = 0

-----------------------------------------------------------------------------
(* The Harbors.                                                            *)

Named(ref) == IF ref = Whole THEN Image ELSE {ref}

\* The executions that a change on Harbor h starts.
Carried(h, images, what) ==
  IF mode # "event_based" THEN {}
  ELSE {x \in Execution : x.from = h /\ x.to # h /\ x.image \in images /\ x.what = what}

\* deleteHarborArtifact, deleteHarborRepository: what is not there is as good as deleted.
Deleted(h, ref) ==
  /\ holds' = [holds EXCEPT ![h] = @ \ Named(ref)]
  /\ flight' = flight \union Carried(h, holds[h] \intersect Named(ref), "delete")

Removing(i) ==
  \/ \E p \in Person : hand[p].ref # None /\ i \in Named(hand[p].ref)
  \/ \E op \in queue : i \in Named(op.key)
  \/ \E x \in flight : x.what = "delete" /\ x.image = i

Push(h, i) ==
  /\ i \notin holds[h] /\ pushes < MaxPushes
  /\ Patient => ~Removing(i)
  /\ pushes' = pushes + 1
  /\ holds' = [holds EXCEPT ![h] = @ \union {i}]
  /\ live' = live \union {i}
  /\ flight' = flight \union Carried(h, {i}, "copy")
  /\ UNCHANGED <<mode, queue, nextId, hand, pass, removals>>

\* A change it makes is a change like any other, and is carried on.
Execute(x) ==
  LET copied == x.what = "copy" /\ x.image \in holds[x.from] \ holds[x.to]
      deleted == x.what = "delete" /\ x.image \in holds[x.to]
  IN
  /\ x \in flight
  /\ holds' = [holds EXCEPT ![x.to] =
                 IF copied THEN @ \union {x.image} ELSE IF deleted THEN @ \ {x.image} ELSE @]
  /\ flight' = (flight \ {x})
                 \union (IF copied \/ deleted THEN Carried(x.to, {x.image}, x.what) ELSE {})
  /\ UNCHANGED <<mode, live, queue, nextId, hand, pass, removals, pushes>>

Scheduled(from, to) ==
  /\ mode = "scheduled" /\ from # to
  /\ Apart => \A p \in Person : hand[p].ref = None
  /\ holds' = [holds EXCEPT ![to] = @ \union holds[from]]
  /\ UNCHANGED <<mode, flight, live, queue, nextId, hand, pass, removals, pushes>>

-----------------------------------------------------------------------------
(* deleteProjectArtifact.                                                  *)

Remove(p, ref) ==
  /\ hand[p].ref = None /\ removals < MaxRemovals
  /\ removals' = removals + 1
  /\ live' = live \ Named(ref)
  /\ hand' = [hand EXCEPT ![p] = [IdleHand EXCEPT !.ref = ref, !.todo = Harbor]]
  /\ UNCHANGED <<mode, holds, flight, queue, nextId, pass, pushes>>

FanOutReached(p, h) ==
  /\ h \in hand[p].todo
  /\ Deleted(h, hand[p].ref)
  /\ hand' = [hand EXCEPT ![p].todo = @ \ {h}]
  /\ UNCHANGED <<mode, live, queue, nextId, pass, removals, pushes>>

\* The call fails, or its answer is lost.
FanOutFailed(p, h) ==
  /\ h \in hand[p].todo
  /\ Deleted(h, hand[p].ref) \/ UNCHANGED <<holds, flight>>
  /\ hand' = [hand EXCEPT ![p].todo = @ \ {h}, ![p].failed = @ \union {h}]
  /\ UNCHANGED <<mode, live, queue, nextId, pass, removals, pushes>>

\* A seeded bug: any removal queued for the Harbor stands for this one.
EnqueueBug(p, h) ==
  /\ hand[p].todo = {} /\ h \in hand[p].failed
  /\ queue' = IF Owed(queue, h) # {} THEN queue
              ELSE queue \union {Row(nextId, h, "ARTIFACT_DELETE", hand[p].ref)}
  /\ nextId' = IF queue' = queue THEN nextId ELSE nextId + 1
  /\ hand' = [hand EXCEPT ![p].failed = @ \ {h}]
  /\ UNCHANGED <<mode, holds, flight, live, pass, removals, pushes>>

\* Rows are compared by their reference: two images removed are two rows.
Enqueue(p, h) ==
  /\ hand[p].todo = {} /\ h \in hand[p].failed
  /\ queue' = EnqueueOnce(queue, nextId, h, "ARTIFACT_DELETE", hand[p].ref)
  /\ nextId' = IF queue' = queue THEN nextId ELSE nextId + 1
  /\ hand' = [hand EXCEPT ![p].failed = @ \ {h}]
  /\ UNCHANGED <<mode, holds, flight, live, pass, removals, pushes>>

Answer(p) ==
  /\ hand[p].ref # None /\ hand[p].todo = {} /\ hand[p].failed = {}
  /\ hand' = [hand EXCEPT ![p] = IdleHand]
  /\ UNCHANGED <<mode, holds, flight, live, queue, nextId, pass, removals, pushes>>

-----------------------------------------------------------------------------
(* The reconciliation pass: all it needs is in the row.                    *)

PassStart(h) ==
  /\ pass.pc = "idle" /\ Owed(queue, h) # {}
  /\ pass' = [IdlePass EXCEPT !.pc = "next", !.ops = Owed(queue, h)]
  /\ UNCHANGED <<mode, holds, flight, live, queue, nextId, hand, removals, pushes>>

PassTake(op) ==
  /\ pass.pc = "next" /\ IsOldest(op, pass.ops)
  /\ pass' = [pass EXCEPT !.pc = "call", !.at = op]
  /\ UNCHANGED <<mode, holds, flight, live, queue, nextId, hand, removals, pushes>>

\* A seeded bug: the reference of the row is left out, and the repository goes.
PassCallBug ==
  /\ pass.pc = "call"
  /\ Deleted(pass.at.registry, Whole)
  /\ pass' = [pass EXCEPT !.pc = "delete"]
  /\ UNCHANGED <<mode, live, queue, nextId, hand, removals, pushes>>

PassCall ==
  /\ pass.pc = "call"
  /\ Deleted(pass.at.registry, pass.at.key)
  /\ pass' = [pass EXCEPT !.pc = "delete"]
  /\ UNCHANGED <<mode, live, queue, nextId, hand, removals, pushes>>

PassDelete ==
  /\ pass.pc = "delete"
  /\ queue' = queue \ {pass.at}
  /\ pass' = [IdlePass EXCEPT !.pc = "next", !.ops = pass.ops \ {pass.at}]
  /\ UNCHANGED <<mode, holds, flight, live, nextId, hand, removals, pushes>>

\* The snapshot is drained, a call fails (its answer may be lost), or the worker dies.
PassEnds ==
  /\ pass.pc # "idle"
  /\ pass' = IdlePass
  /\ UNCHANGED <<mode, holds, flight, live, queue, nextId, hand, removals, pushes>>

Handler(p) ==
  \/ \E ref \in Reference : Remove(p, ref)
  \/ \E h \in Harbor : FanOutReached(p, h) \/ FanOutFailed(p, h) \/ Enqueue(p, h)
  \/ Answer(p)

Replay ==
  \/ \E h \in Harbor : PassStart(h)
  \/ \E op \in pass.ops : PassTake(op)
  \/ PassCall \/ PassDelete \/ PassEnds

Mesh ==
  \/ \E h \in Harbor, i \in Image : Push(h, i)
  \/ \E x \in flight : Execute(x)
  \/ \E from, to \in Harbor : Scheduled(from, to)

Next == (\E p \in Person : Handler(p)) \/ Replay \/ Mesh

Spec == Init /\ [][Next]_vars

-----------------------------------------------------------------------------
(* Properties.                                                             *)

\* Nothing is under way and nothing is owed.
AtRest ==
  /\ \A p \in Person : hand[p].ref = None
  /\ pass.pc = "idle" /\ queue = {} /\ flight = {}

\* Once all that was queued has been replayed, an image that was removed, and not
\* pushed since, is on no Harbor (fanout.ts: that it "would come back on the next
\* replication pass" is "precisely the failure this queue exists to prevent").
StaysRemoved ==
  AtRest => \A h \in Harbor : holds[h] \subseteq live

\* An image that was pushed, and not removed since, is on some Harbor: no removal
\* takes what it does not name, now or when it is replayed.
KeptIsServed ==
  \A i \in live : \E h \in Harbor : i \in holds[h]

=============================================================================
