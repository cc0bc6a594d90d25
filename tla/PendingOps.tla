------------------------------ MODULE PendingOps ------------------------------
(***************************************************************************)
(* The PendingOperation table: the administrative writes owed to Harbors   *)
(* that did not answer (lib/clusters/fanout.ts, enqueue).  A row names the *)
(* registry it is owed to, its kind and its key: what the deduplication    *)
(* compares beside those two (the project, the robot, or the person or     *)
(* group a grant is for).  The id stands for createdAt: rows of a registry *)
(* are replayed in the order of their ids.                                 *)
(***************************************************************************)
EXTENDS Naturals

Row(id, registry, kind, key) ==
  [id |-> id, registry |-> registry, kind |-> kind, key |-> key]

Owed(queue, registry) == {op \in queue : op.registry = registry}

\* A seeded bug: the newest first.
IsOldestBug(op, ops) == op \in ops /\ \A other \in ops : op.id >= other.id

\* The row a pass attempts first.
IsOldest(op, ops) == op \in ops /\ \A other \in ops : op.id <= other.id

Subject(queue, registry, kinds, key) ==
  {op \in queue : op.registry = registry /\ op.key = key /\ op.kind \in kinds}

\* Identical entries collapse: the row that is there keeps its place.
EnqueueOnce(queue, id, registry, kind, key) ==
  IF Subject(queue, registry, {kind}, key) # {}
  THEN queue
  ELSE queue \union {Row(id, registry, kind, key)}

\* A removal (a delete) supersedes what is queued for its subject and is always
\* queued itself.
EnqueueRemoval(queue, id, registry, kind, superseded, key) ==
  (queue \ Subject(queue, registry, superseded, key))
    \union {Row(id, registry, kind, key)}

\* Grants: an addition keeps an addition already queued for its subject, and
\* supersedes a queued removal of it.
EnqueueGrant(queue, id, registry, kind, add, remove, key) ==
  IF kind = remove
  THEN EnqueueRemoval(queue, id, registry, remove, {add, remove}, key)
  ELSE IF Subject(queue, registry, {add}, key) # {}
  THEN queue
  ELSE (queue \ Subject(queue, registry, {remove}, key))
         \union {Row(id, registry, add, key)}

=============================================================================
