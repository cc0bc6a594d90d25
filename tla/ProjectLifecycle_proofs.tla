---------------------- MODULE ProjectLifecycle_proofs ----------------------
(***************************************************************************)
(* What holds of a project and of the Harbors that carry it, for any number*)
(* of Harbors, handlers, requests and rows under the name.                 *)
(***************************************************************************)
EXTENDS ProjectLifecycle, TLAPS

-----------------------------------------------------------------------------
(* Types.                                                                  *)

Working == {"sync", "enqueue"} \union Deleting

\* What a handler knows at each of its steps.
HandOK(hd) ==
  /\ hd \in Hand
  /\ hd.pc = "idle" => hd = IdleHand
  /\ hd.pc \in {"sync", "enqueue"} =>
       hd.todo \subseteq Harbor \X {0} /\ hd.failed \subseteq Harbor \X {0}
  /\ hd.pc = "enqueue" => hd.at \in Harbor
  /\ hd.pc \in {"inspect", "remove", "unrow"} => hd.todo \subseteq Harbor \X (Nat \ {0})
                                                  /\ hd.failed \subseteq Harbor \X (Nat \ {0})

\* What the pass knows at each of its steps.
PassOK(ps) ==
  /\ ps \in Pass
  /\ ps.pc # "idle" => ps.registry \in Harbor
  /\ ps.pc \in {"idle", "next"} <=> ps.at = None
  /\ ps.at # None => ps.at \in ps.ops
  /\ \A op \in ps.ops : op.registry = ps.registry
  /\ ps.pc = "create" => ps.at.kind = "PROJECT_CREATE"
  /\ ps.pc = "remove" => ps.at.kind = "PROJECT_DELETE"

TypeInv ==
  /\ TypeOK
  /\ \A a \in Admin : HandOK(hand[a])
  /\ PassOK(pass)

\* What the constants are.
Sorts == None \notin Op /\ MaxProjects \in Nat /\ MaxRequests \in Nat /\ MaxCrashes \in Nat

\* A handler at rest.
LEMMA IdleOK == HandOK(IdleHand)
  BY DEF HandOK, Hand, IdleHand, Deleting

\* A handler that begins to activate.
LEMMA ActivateOK ==
  ASSUME NEW gen \in Nat
  PROVE  HandOK([IdleHand EXCEPT !.pc = "sync", !.gen = gen, !.todo = Harbor \X {0}])
<1>1. Harbor \X {0} \subseteq Harbor \X Nat
  OBVIOUS
<1> QED
  BY <1>1 DEF HandOK, Hand, IdleHand, Deleting

\* One handler moves.
LEMMA HandMoves ==
  ASSUME TypeInv, NEW a \in Admin, NEW hd, HandOK(hd), hand' = [hand EXCEPT ![a] = hd]
  PROVE  hand' \in [Admin -> Hand] /\ \A b \in Admin : HandOK(hand'[b])
  BY DEF TypeInv, TypeOK, HandOK

\* What a Harbor holds once it created, or deleted, a project.
LEMMA HarborMoves ==
  ASSUME harbor \in [Harbor -> HarborProject], NEW h \in Harbor, NEW id \in Nat
  PROVE  Created(h) \in HarborProject /\ Deleted(h, id) \in HarborProject
<1>1. harbor[h] \in HarborProject
  OBVIOUS
<1>2. Created(h) \in HarborProject
  <2>1. CASE harbor[h].there
    BY <1>1, <2>1 DEF Created, HarborProject
  <2>2. CASE ~harbor[h].there
    <3>1. Created(h) = [id |-> harbor[h].id + 1, there |-> TRUE, filled |-> FALSE,
                        ours |-> TRUE, told |-> FALSE]
      BY <2>2 DEF Created, NoProject
    <3>2. harbor[h].id + 1 \in Nat
      BY <1>1 DEF HarborProject
    <3> QED
      BY <3>1, <3>2 DEF HarborProject
  <2> QED
    BY <2>1, <2>2
<1>3. Deleted(h, id) \in HarborProject
  BY <1>1 DEF Deleted, HarborProject, NoProject
<1> QED
  BY <1>2, <1>3

\* The placements that know their Harbor's id.
LEMMA KnownIs ==
  ASSUME placement \in [Harbor -> Placement]
  PROVE  Known \subseteq Harbor \X (Nat \ {0}) /\ Known \subseteq Harbor \X Nat
  BY DEF Known, Placement

\* The deletions of a handler are of Harbors and of ids they gave.
LEMMA RemovalCases ==
  ASSUME TypeInv, NEW a \in Admin, Removal(a)
  PROVE  \/ Delete(a) \/ Inspected(a) \/ Forget(a) \/ Unrow(a)
         \/ \E h \in Harbor, id \in Nat \ {0} :
              \/ Inspect(a, h, id) \/ InspectRefused(a, h, id)
              \/ RemoveReached(a, h, id) \/ RemoveRefused(a, h, id) \/ RemoveFailed(a, h, id)
              \/ EnqueueDelete(a, h, id)
<1>1. HandOK(hand[a])
  BY DEF TypeInv
<1>2. ASSUME NEW known \in hand[a].todo \union hand[a].failed,
             LET h == known[1] IN LET id == known[2] IN
             \/ Inspect(a, h, id) \/ InspectRefused(a, h, id)
             \/ RemoveReached(a, h, id) \/ RemoveRefused(a, h, id) \/ RemoveFailed(a, h, id)
             \/ EnqueueDelete(a, h, id)
      PROVE  \E h \in Harbor, id \in Nat \ {0} :
              \/ Inspect(a, h, id) \/ InspectRefused(a, h, id)
              \/ RemoveReached(a, h, id) \/ RemoveRefused(a, h, id) \/ RemoveFailed(a, h, id)
              \/ EnqueueDelete(a, h, id)
  <2>1. hand[a].pc \in {"inspect", "remove"}
    BY <1>2 DEF Inspect, InspectRefused, RemoveReached, RemoveRefused, RemoveFailed, EnqueueDelete
  <2>2. known[1] \in Harbor /\ known[2] \in Nat \ {0}
    BY <1>1, <1>2, <2>1 DEF HandOK
  <2> QED
    BY <1>2, <2>2
<1> QED
  BY <1>2 DEF Removal

\* A handler's step keeps the types.
LEMMA TypeHandler ==
  ASSUME Sorts, TypeInv, NEW a \in Admin, Activation(a) \/ Removal(a) \/ Crash(a)
  PROVE  TypeInv'
<1>a. HandOK(hand[a]) /\ hand \in [Admin -> Hand] /\ hand[a] \in Hand
  BY DEF TypeInv, TypeOK
<1>c. /\ project \in [gen : 0..MaxProjects, status : Status]
      /\ placement \in [Harbor -> Placement] /\ harbor \in [Harbor -> HarborProject]
      /\ queue \subseteq Op /\ nextId \in Nat /\ torn \in BOOLEAN
      /\ served \in 0..MaxRequests /\ crashes \in 0..MaxCrashes
  BY DEF TypeInv, TypeOK
<1> DEFINE Rest == /\ project' \in [gen : 0..MaxProjects, status : Status]
                   /\ placement' \in [Harbor -> Placement] /\ harbor' \in [Harbor -> HarborProject]
                   /\ queue' \subseteq Op /\ nextId' \in Nat /\ torn' \in BOOLEAN
                   /\ served' \in 0..MaxRequests /\ crashes' \in 0..MaxCrashes
                   /\ pass' = pass
           Hands == hand' \in [Admin -> Hand] /\ \A b \in Admin : HandOK(hand'[b])
<1>b. SUFFICES Hands /\ Rest
  BY DEF TypeInv, TypeOK
<1>d. project.gen \in Nat /\ project.gen <= MaxProjects /\ MaxProjects \in Nat
      /\ served \in Nat /\ served <= MaxRequests /\ MaxRequests \in Nat
      /\ crashes \in Nat /\ crashes <= MaxCrashes /\ MaxCrashes \in Nat
  BY <1>c DEF Sorts
<1> HIDE DEF Hands, Rest
<1>1. CASE RequestByAdmin(a)
  <2> DEFINE hd == [IdleHand EXCEPT !.pc = "sync", !.gen = project.gen + 1, !.todo = Harbor \X {0}]
  <2>1. hand' = [hand EXCEPT ![a] = hd]
    BY <1>1 DEF RequestByAdmin, Answer, Activate
  <2>2. HandOK(hd)
    <3>1. project.gen + 1 \in Nat
      BY <1>d
    <3> QED
      BY <3>1, ActivateOK
  <2>3. Hands
    BY <2>1, <2>2, HandMoves DEF Hands
  <2> HIDE DEF hd
  <2>4. Rest
    BY <1>1, <1>a, <1>c, <1>d, HarborMoves DEF RequestByAdmin, Request, Status, Rest
  <2> QED
    BY <2>3, <2>4
<1>2. CASE Approve(a)
  <2> DEFINE hd == [IdleHand EXCEPT !.pc = "sync", !.gen = project.gen, !.todo = Harbor \X {0}]
  <2>1. hand' = [hand EXCEPT ![a] = hd]
    BY <1>2 DEF Approve, Answer, Activate
  <2>2. HandOK(hd)
    BY <1>d, ActivateOK
  <2>3. Hands
    BY <2>1, <2>2, HandMoves DEF Hands
  <2> HIDE DEF hd
  <2>4. Rest
    BY <1>2, <1>a, <1>c, <1>d, HarborMoves DEF Approve, Rest
  <2> QED
    BY <2>3, <2>4
<1>3. ASSUME NEW h \in Harbor, SyncReached(a, h) PROVE Hands /\ Rest
  <2>h. Created(h) \in HarborProject /\ harbor' = [harbor EXCEPT ![h] = Created(h)]
          /\ UNCHANGED <<project, queue, nextId, pass, torn, served, crashes>>
    BY <1>3, <1>c, HarborMoves DEF SyncReached
  <2>1. CASE Alive(hand[a].gen)
    <3> DEFINE hd == [hand[a] EXCEPT !.todo = @ \ {<<h, 0>>}, !.reached = TRUE]
    <3>1. hand' = [hand EXCEPT ![a] = hd] /\ placement' = Placed(h, harbor'[h].id)
      BY <1>3, <2>1 DEF SyncReached
    <3>2. HandOK(hd)
      BY <1>3, <1>a DEF SyncReached, HandOK, Hand, Deleting, IdleHand
    <3>3. placement' \in [Harbor -> Placement]
      BY <1>c, <2>h, <3>1 DEF Placed, Placement, HarborProject
    <3> QED
      BY <1>c, <2>h, <3>1, <3>2, <3>3, HandMoves DEF Hands, Rest
  <2>2. CASE ~Alive(hand[a].gen)
    <3> DEFINE hd == [hand[a] EXCEPT !.todo = @ \ {<<h, 0>>}, !.failed = @ \union {<<h, 0>>}]
    <3>1. hand' = [hand EXCEPT ![a] = hd] /\ placement' = placement
      BY <1>3, <2>2 DEF SyncReached
    <3>2. HandOK(hd)
      BY <1>3, <1>a DEF SyncReached, HandOK, Hand, Deleting, IdleHand
    <3> QED
      BY <1>c, <2>h, <3>1, <3>2, HandMoves DEF Hands, Rest
  <2> QED
    BY <2>1, <2>2
<1>4. ASSUME NEW h \in Harbor, SyncFailed(a, h) PROVE Hands /\ Rest
  <2> DEFINE hd == [hand[a] EXCEPT !.todo = @ \ {<<h, 0>>}, !.failed = @ \union {<<h, 0>>}]
  <2>1. hand' = [hand EXCEPT ![a] = hd]
    BY <1>4 DEF SyncFailed, Answer, Activate
  <2>2. HandOK(hd)
    BY <1>4, <1>a, <1>c, KnownIs DEF SyncFailed, HandOK, Hand, Deleting, IdleHand
  <2>3. Hands
    BY <2>1, <2>2, HandMoves DEF Hands
  <2> HIDE DEF hd
  <2>4. Rest
    BY <1>4, <1>a, <1>c, <1>d, HarborMoves DEF SyncFailed, Created, Rest
  <2> QED
    BY <2>3, <2>4
<1>5. ASSUME NEW h \in Harbor, MarkFailed(a, h) PROVE Hands /\ Rest
  <2>h. UNCHANGED <<project, harbor, queue, nextId, pass, torn, served, crashes>>
    BY <1>5 DEF MarkFailed
  <2>1. CASE Alive(hand[a].gen)
    <3> DEFINE hd == [hand[a] EXCEPT !.pc = "enqueue", !.at = h, !.failed = @ \ {<<h, 0>>}]
    <3>1. hand' = [hand EXCEPT ![a] = hd] /\ placement' = [placement EXCEPT ![h].status = "FAILED"]
      BY <1>5, <2>1 DEF MarkFailed
    <3>2. HandOK(hd)
      BY <1>5, <1>a DEF MarkFailed, HandOK, Hand, Deleting, IdleHand
    <3>3. placement' \in [Harbor -> Placement]
      BY <1>c, <3>1 DEF Placement
    <3> QED
      BY <1>c, <2>h, <3>1, <3>2, <3>3, HandMoves DEF Hands, Rest
  <2>2. CASE ~Alive(hand[a].gen)
    <3>1. hand' = [hand EXCEPT ![a] = IdleHand] /\ placement' = placement
      BY <1>5, <2>2 DEF MarkFailed, Answer
    <3> QED
      BY <1>c, <2>h, <3>1, IdleOK, HandMoves DEF Hands, Rest
  <2> QED
    BY <2>1, <2>2
<1>6. CASE Enqueue(a)
  <2> DEFINE hd == [hand[a] EXCEPT !.pc = "sync", !.at = None]
  <2>1. hand' = [hand EXCEPT ![a] = hd]
    BY <1>6 DEF Enqueue, Answer, Activate
  <2>2. HandOK(hd)
    BY <1>6, <1>a, <1>c, KnownIs DEF Enqueue, HandOK, Hand, Deleting, IdleHand
  <2>3. Hands
    BY <2>1, <2>2, HandMoves DEF Hands
  <2> HIDE DEF hd
  <2>4. Rest
    <3>1. Row(nextId, hand[a].at, "PROJECT_CREATE", hand[a].gen) \in Op
      BY <1>6, <1>a, <1>c DEF Enqueue, HandOK, Hand, Row, Op, Kind
    <3>2. queue' \subseteq Op
      BY <1>6, <1>c, <3>1 DEF Enqueue, EnqueueOnce
    <3> QED
      BY <1>6, <1>c, <3>2 DEF Enqueue, Rest
  <2> QED
    BY <2>3, <2>4
<1>7. CASE Activated(a)
  <2> DEFINE hd == IdleHand
  <2>1. hand' = [hand EXCEPT ![a] = hd]
    BY <1>7 DEF Activated, Answer, Activate
  <2>2. HandOK(hd)
    BY IdleOK
  <2>3. Hands
    BY <2>1, <2>2, HandMoves DEF Hands
  <2> HIDE DEF hd
  <2>4. Rest
    BY <1>7, <1>a, <1>c, <1>d, HarborMoves DEF Activated, Status, Rest
  <2> QED
    BY <2>3, <2>4
<1>8. CASE Reject(a)
  <2> DEFINE hd == [IdleHand EXCEPT !.pc = "reject", !.gen = project.gen]
  <2>1. hand' = [hand EXCEPT ![a] = hd]
    BY <1>8 DEF Reject, Answer, Activate
  <2>2. HandOK(hd)
    BY <1>8, <1>c, <1>d, KnownIs DEF Reject, HandOK, Hand, IdleHand, Deleting
  <2>3. Hands
    BY <2>1, <2>2, HandMoves DEF Hands
  <2> HIDE DEF hd
  <2>4. Rest
    BY <1>8, <1>a, <1>c, <1>d, HarborMoves DEF Reject, Rest
  <2> QED
    BY <2>3, <2>4
<1>9. CASE RejectWrite(a)
  <2> DEFINE hd == IdleHand
  <2>1. hand' = [hand EXCEPT ![a] = hd]
    BY <1>9 DEF RejectWrite, Answer, Activate
  <2>2. HandOK(hd)
    BY IdleOK
  <2>3. Hands
    BY <2>1, <2>2, HandMoves DEF Hands
  <2> HIDE DEF hd
  <2>4. Rest
    BY <1>9, <1>a, <1>c, <1>d, HarborMoves DEF RejectWrite, Status, Rest
  <2> QED
    BY <2>3, <2>4
<1>10. CASE Delete(a)
  <2> DEFINE hd == [IdleHand EXCEPT !.pc = "inspect", !.gen = project.gen, !.todo = Known]
  <2>1. hand' = [hand EXCEPT ![a] = hd]
    BY <1>10 DEF Delete, Answer, Activate
  <2>2. HandOK(hd)
    BY <1>10, <1>c, <1>d, KnownIs DEF Delete, HandOK, Hand, IdleHand, Deleting
  <2>3. Hands
    BY <2>1, <2>2, HandMoves DEF Hands
  <2> HIDE DEF hd
  <2>4. Rest
    BY <1>10, <1>a, <1>c, <1>d, HarborMoves DEF Delete, Rest
  <2> QED
    BY <2>3, <2>4
<1>11. CASE Inspected(a)
  <2> DEFINE hd == [hand[a] EXCEPT !.pc = "remove", !.todo = Known]
  <2>1. hand' = [hand EXCEPT ![a] = hd]
    BY <1>11 DEF Inspected, Answer, Activate
  <2>2. HandOK(hd)
    BY <1>11, <1>a, <1>c, KnownIs DEF Inspected, HandOK, Hand, Deleting, IdleHand
  <2>3. Hands
    BY <2>1, <2>2, HandMoves DEF Hands
  <2> HIDE DEF hd
  <2>4. Rest
    BY <1>11, <1>a, <1>c, <1>d, HarborMoves DEF Inspected, Rest
  <2> QED
    BY <2>3, <2>4
<1>12. CASE Forget(a)
  <2> DEFINE hd == [hand[a] EXCEPT !.pc = "unrow"]
  <2>1. hand' = [hand EXCEPT ![a] = hd]
    BY <1>12 DEF Forget, Answer, Activate
  <2>2. HandOK(hd)
    BY <1>12, <1>a, <1>c, KnownIs DEF Forget, HandOK, Hand, Deleting, IdleHand
  <2>3. Hands
    BY <2>1, <2>2, HandMoves DEF Hands
  <2> HIDE DEF hd
  <2>4. Rest
    BY <1>12, <1>a, <1>c, <1>d, HarborMoves DEF Forget, Rest
  <2> QED
    BY <2>3, <2>4
<1>13. CASE Unrow(a)
  <2> DEFINE hd == IdleHand
  <2>1. hand' = [hand EXCEPT ![a] = hd]
    BY <1>13 DEF Unrow, Answer, Activate
  <2>2. HandOK(hd)
    BY IdleOK
  <2>3. Hands
    BY <2>1, <2>2, HandMoves DEF Hands
  <2> HIDE DEF hd
  <2>4. Rest
    BY <1>13, <1>a, <1>c, <1>d, HarborMoves DEF Unrow, Status, NoPlacement, Placement, Rest
  <2> QED
    BY <2>3, <2>4
<1>14. CASE Crash(a)
  <2> DEFINE hd == IdleHand
  <2>1. hand' = [hand EXCEPT ![a] = hd]
    BY <1>14 DEF Crash, Answer, Activate
  <2>2. HandOK(hd)
    BY IdleOK
  <2>3. Hands
    BY <2>1, <2>2, HandMoves DEF Hands
  <2> HIDE DEF hd
  <2>4. Rest
    BY <1>14, <1>a, <1>c, <1>d, HarborMoves DEF Crash, Rest
  <2> QED
    BY <2>3, <2>4
<1>15. ASSUME NEW h \in Harbor, NEW id \in Nat \ {0}, Inspect(a, h, id) PROVE Hands /\ Rest
  <2> DEFINE hd == [hand[a] EXCEPT !.todo = @ \ {<<h, id>>}]
  <2>1. hand' = [hand EXCEPT ![a] = hd]
    BY <1>15 DEF Inspect, Answer, Activate
  <2>2. HandOK(hd)
    BY <1>15, <1>a, <1>c, KnownIs DEF Inspect, HandOK, Hand, Deleting, IdleHand
  <2>3. Hands
    BY <2>1, <2>2, HandMoves DEF Hands
  <2> HIDE DEF hd
  <2>4. Rest
    BY <1>15, <1>a, <1>c, <1>d, HarborMoves DEF Inspect, Rest
  <2> QED
    BY <2>3, <2>4
<1>16. ASSUME NEW h \in Harbor, NEW id \in Nat \ {0}, InspectRefused(a, h, id) PROVE Hands /\ Rest
  <2> DEFINE hd == IdleHand
  <2>1. hand' = [hand EXCEPT ![a] = hd]
    BY <1>16 DEF InspectRefused, Answer, Activate
  <2>2. HandOK(hd)
    BY IdleOK
  <2>3. Hands
    BY <2>1, <2>2, HandMoves DEF Hands
  <2> HIDE DEF hd
  <2>4. Rest
    BY <1>16, <1>a, <1>c, <1>d, HarborMoves DEF InspectRefused, Rest
  <2> QED
    BY <2>3, <2>4
<1>17. ASSUME NEW h \in Harbor, NEW id \in Nat \ {0}, RemoveReached(a, h, id) PROVE Hands /\ Rest
  <2> DEFINE hd == [hand[a] EXCEPT !.todo = @ \ {<<h, id>>}]
  <2>1. hand' = [hand EXCEPT ![a] = hd]
    BY <1>17 DEF RemoveReached, Answer, Activate
  <2>2. HandOK(hd)
    BY <1>17, <1>a, <1>c, KnownIs DEF RemoveReached, HandOK, Hand, Deleting, IdleHand
  <2>3. Hands
    BY <2>1, <2>2, HandMoves DEF Hands
  <2> HIDE DEF hd
  <2>4. Rest
    BY <1>17, <1>a, <1>c, <1>d, HarborMoves DEF RemoveReached, Rest
  <2> QED
    BY <2>3, <2>4
<1>18. ASSUME NEW h \in Harbor, NEW id \in Nat \ {0}, RemoveRefused(a, h, id) PROVE Hands /\ Rest
  <2> DEFINE hd == [hand[a] EXCEPT !.todo = @ \ {<<h, id>>}]
  <2>1. hand' = [hand EXCEPT ![a] = hd]
    BY <1>18 DEF RemoveRefused, Answer, Activate
  <2>2. HandOK(hd)
    BY <1>18, <1>a, <1>c, KnownIs DEF RemoveRefused, HandOK, Hand, Deleting, IdleHand
  <2>3. Hands
    BY <2>1, <2>2, HandMoves DEF Hands
  <2> HIDE DEF hd
  <2>4. Rest
    BY <1>18, <1>a, <1>c, <1>d, HarborMoves DEF RemoveRefused, HarborProject, Rest
  <2> QED
    BY <2>3, <2>4
<1>19. ASSUME NEW h \in Harbor, NEW id \in Nat \ {0}, RemoveFailed(a, h, id) PROVE Hands /\ Rest
  <2> DEFINE hd == [hand[a] EXCEPT !.todo = @ \ {<<h, id>>}, !.failed = @ \union {<<h, id>>}]
  <2>1. hand' = [hand EXCEPT ![a] = hd]
    BY <1>19 DEF RemoveFailed, Answer, Activate
  <2>2. HandOK(hd)
    BY <1>19, <1>a, <1>c, KnownIs DEF RemoveFailed, HandOK, Hand, Deleting, IdleHand
  <2>3. Hands
    BY <2>1, <2>2, HandMoves DEF Hands
  <2> HIDE DEF hd
  <2>4. Rest
    BY <1>19, <1>a, <1>c, <1>d, HarborMoves DEF RemoveFailed, Rest
  <2> QED
    BY <2>3, <2>4
<1>20. ASSUME NEW h \in Harbor, NEW id \in Nat \ {0}, EnqueueDelete(a, h, id) PROVE Hands /\ Rest
  <2> DEFINE hd == [hand[a] EXCEPT !.failed = @ \ {<<h, id>>}]
  <2>1. hand' = [hand EXCEPT ![a] = hd]
    BY <1>20 DEF EnqueueDelete, Answer, Activate
  <2>2. HandOK(hd)
    BY <1>20, <1>a, <1>c, KnownIs DEF EnqueueDelete, HandOK, Hand, Deleting, IdleHand
  <2>3. Hands
    BY <2>1, <2>2, HandMoves DEF Hands
  <2> HIDE DEF hd
  <2>4. Rest
    BY <1>20, <1>a, <1>c, <1>d, HarborMoves DEF EnqueueDelete, Row, Op, Kind, Subject, Rest
  <2> QED
    BY <2>3, <2>4
<1> QED
  BY <1>1, <1>2, <1>3, <1>4, <1>5, <1>6, <1>7, <1>8, <1>9, <1>10, <1>11, <1>12, <1>13, <1>14,
     <1>15, <1>16, <1>17, <1>18, <1>19, <1>20, RemovalCases DEF Activation

\* A step of the pass, or of the people, keeps the types.
LEMMA TypeOthers ==
  ASSUME Sorts, TypeInv,
         RequestByUser \/ (\E h \in Harbor : PassStart(h) \/ Push(h)) \/ Replay
  PROVE  TypeInv'
<1>a. /\ PassOK(pass) /\ pass \in Pass
      /\ project \in [gen : 0..MaxProjects, status : Status]
      /\ placement \in [Harbor -> Placement] /\ harbor \in [Harbor -> HarborProject]
      /\ queue \subseteq Op
  BY DEF TypeInv, TypeOK
<1> DEFINE Rest == /\ project' \in [gen : 0..MaxProjects, status : Status]
                   /\ placement' \in [Harbor -> Placement] /\ harbor' \in [Harbor -> HarborProject]
                   /\ queue' \subseteq Op
                   /\ UNCHANGED <<nextId, torn, hand, served, crashes>>
<1>b. SUFFICES PassOK(pass') /\ Rest
  BY DEF TypeInv, TypeOK, PassOK
<1> HIDE DEF Rest
<1>i. PassOK(IdlePass)
  BY DEF PassOK, Pass, IdlePass
<1>1. CASE RequestByUser
  <2>1. project' \in [gen : 0..MaxProjects, status : Status]
    BY <1>1, <1>a DEF RequestByUser, Request, Status, Sorts
  <2> QED
    BY <1>1, <1>a, <2>1 DEF RequestByUser, Request, Rest
<1>2. ASSUME NEW h \in Harbor, PassStart(h) PROVE PassOK(pass') /\ Rest
  <2>1. PassOK([IdlePass EXCEPT !.pc = "next", !.registry = h, !.ops = Owed(queue, h)])
    BY <1>a DEF PassOK, Pass, IdlePass, Owed
  <2> QED
    BY <1>2, <1>a, <2>1 DEF PassStart, Rest
<1>3. ASSUME NEW h \in Harbor, Push(h) PROVE PassOK(pass') /\ Rest
  <2>1. harbor' \in [Harbor -> HarborProject]
    BY <1>3, <1>a DEF Push, HarborProject
  <2> QED
    BY <1>3, <1>a, <2>1 DEF Push, Rest
<1>4. ASSUME NEW op \in pass.ops, PassTake(op) PROVE PassOK(pass') /\ Rest
  <2> DEFINE pc == IF op.kind = "PROJECT_DELETE" THEN "remove"
                   ELSE IF Alive(op.key) THEN "create" ELSE "delete"
  <2>1. pass' = [pass EXCEPT !.at = op, !.pc = pc] /\ pass.pc = "next"
    BY <1>4 DEF PassTake
  <2>2. op \in Op /\ op # None
    BY <1>a DEF Pass, Sorts
  <2>3. /\ pc \in {"remove", "create", "delete"}
        /\ pc = "create" => op.kind = "PROJECT_CREATE"
        /\ pc = "remove" => op.kind = "PROJECT_DELETE"
    BY <2>2 DEF Op, Kind
  <2> HIDE DEF pc
  <2>4. PassOK(pass')
    BY <1>a, <2>1, <2>2, <2>3 DEF PassOK, Pass
  <2> QED
    BY <1>4, <1>a, <2>4 DEF PassTake, Rest
<1>5. CASE PassCreate
  <2>1. /\ harbor' = [harbor EXCEPT ![pass.registry] = Created(pass.registry)]
        /\ pass.registry \in Harbor /\ Created(pass.registry) \in HarborProject
    BY <1>5, <1>a, HarborMoves DEF PassCreate, PassOK
  <2>2. harbor' \in [Harbor -> HarborProject]
    BY <1>a, <2>1
  <2>3. placement' \in [Harbor -> Placement]
    <3>1. placement' = placement \/ placement' = Placed(pass.registry, harbor'[pass.registry].id)
      BY <1>5 DEF PassCreate
    <3> QED
      BY <1>a, <2>1, <2>2, <3>1 DEF Placed, Placement, HarborProject
  <2>4. PassOK(pass')
    <3>1. pass.pc = "create" /\ (pass' = [pass EXCEPT !.pc = "delete"] \/ pass' = IdlePass)
      BY <1>5 DEF PassCreate
    <3> QED
      BY <1>a, <1>i, <3>1 DEF PassOK, Pass
  <2> QED
    BY <1>5, <1>a, <2>2, <2>3, <2>4 DEF PassCreate, Rest
<1>6. CASE PassCreateFails
  <2>1. /\ UNCHANGED harbor \/ harbor' = [harbor EXCEPT ![pass.registry] = Created(pass.registry)]
        /\ pass.registry \in Harbor /\ Created(pass.registry) \in HarborProject
    BY <1>6, <1>a, HarborMoves DEF PassCreateFails, PassOK
  <2>2. harbor' \in [Harbor -> HarborProject]
    BY <1>a, <2>1
  <2>3. placement' \in [Harbor -> Placement]
    <3>1. placement' = placement \/ placement' = [placement EXCEPT ![pass.registry].status = "FAILED"]
      BY <1>6 DEF PassCreateFails
    <3> QED
      BY <1>a, <2>1, <3>1 DEF Placement
  <2> QED
    BY <1>6, <1>a, <1>i, <2>2, <2>3 DEF PassCreateFails, Rest
<1>7. CASE PassRemove
  <2>1. /\ harbor' = [harbor EXCEPT ![pass.registry] = Deleted(pass.registry, pass.at.key)]
        /\ pass.registry \in Harbor /\ pass' = [pass EXCEPT !.pc = "delete"] /\ pass.pc = "remove"
    BY <1>7, <1>a DEF PassRemove, PassOK
  <2>2. pass.at.key \in Nat
    BY <1>a, <2>1 DEF PassOK, Pass, Op
  <2>3. harbor' \in [Harbor -> HarborProject]
    BY <1>a, <2>1, <2>2, HarborMoves
  <2>4. PassOK(pass')
    BY <1>a, <2>1 DEF PassOK, Pass
  <2> QED
    BY <1>7, <1>a, <2>3, <2>4 DEF PassRemove, Rest
<1>8. CASE PassDelete
  <2>1. PassOK([IdlePass EXCEPT !.pc = "next", !.registry = pass.registry,
                                !.ops = pass.ops \ {pass.at}])
    BY <1>8, <1>a DEF PassDelete, PassOK, Pass, IdlePass
  <2> QED
    BY <1>8, <1>a, <1>i, <2>1 DEF PassDelete, Rest
<1>9. CASE PassEnds
  BY <1>9, <1>a, <1>i DEF PassEnds, Rest
<1> QED
  BY <1>1, <1>2, <1>3, <1>4, <1>5, <1>6, <1>7, <1>8, <1>9 DEF Replay

\* The types hold at first.
LEMMA TypeInit == ASSUME Sorts PROVE Init => TypeInv
<1> SUFFICES ASSUME Init PROVE TypeInv
  OBVIOUS
<1>1. NoProject \in HarborProject /\ [NoProject EXCEPT !.id = 1, !.there = TRUE] \in HarborProject
  BY DEF NoProject, HarborProject
<1>2. harbor \in [Harbor -> HarborProject]
  BY <1>1 DEF Init
<1>3. placement \in [Harbor -> Placement]
  BY DEF Init, NoPlacement, Placement
<1>4. project \in [gen : 0..MaxProjects, status : Status]
  BY DEF Init, Status, Sorts
<1>5. PassOK(pass) /\ pass \in Pass
  BY DEF Init, PassOK, Pass, IdlePass
<1>6. hand \in [Admin -> Hand] /\ \A a \in Admin : HandOK(hand[a])
  BY IdleOK DEF Init, HandOK
<1>7. queue \subseteq Op /\ nextId \in Nat /\ torn \in BOOLEAN
  BY DEF Init
<1>8. served \in 0..MaxRequests /\ crashes \in 0..MaxCrashes
  <2>1. 0 \in 0..MaxRequests /\ 0 \in 0..MaxCrashes
    BY DEF Sorts
  <2> QED
    BY <2>1 DEF Init
<1> QED
  BY <1>2, <1>3, <1>4, <1>5, <1>6, <1>7, <1>8 DEF TypeInv, TypeOK

\* A step keeps the types.
LEMMA TypeStep == ASSUME Sorts PROVE TypeInv /\ [Next]_vars => TypeInv'
<1> SUFFICES ASSUME TypeInv, [Next]_vars PROVE TypeInv'
  OBVIOUS
<1>1. CASE UNCHANGED vars
  BY <1>1 DEF vars, TypeInv, TypeOK
<1> QED
  BY <1>1, TypeHandler, TypeOthers DEF Next

\* Type correctness of a project, its placements, what the Harbors hold and what
\* they are owed (activate.ts, delete.ts, projects.ts).
THEOREM TypeCorrect == ASSUME Sorts PROVE Spec => []TypeOK
<1>1. TypeInv => TypeOK
  BY DEF TypeInv
<1> QED
  BY <1>1, TypeInit, TypeStep, PTL DEF Spec

-----------------------------------------------------------------------------
(* Activations, deletions and replays kept apart.                          *)

\* One at a time is at work, on the row there is.
OneAtATime ==
  /\ \A a, b \in Admin : hand[a].pc \in Working /\ hand[b].pc \in Working => a = b
  /\ \A a \in Admin : hand[a].pc \in Working => pass.at = None /\ Alive(hand[a].gen)
  /\ pass.pc = "create" => Alive(pass.at.key)

\* A creation is queued for the row there is, and older rows are not replayed.
CreationsAreTrue ==
  /\ \A op \in queue : op.kind = "PROJECT_CREATE" => Alive(op.key)
  /\ \A op \in pass.ops : op.kind = "PROJECT_CREATE" => op.key <= project.gen
  /\ \A a \in Admin : hand[a].pc = "unrow" => \A op \in queue : op.kind = "PROJECT_DELETE"

\* Deletions leave the queue with their replay only.
DeletionsAreQueued ==
  \A op \in pass.ops : op.kind = "PROJECT_DELETE" => op \in queue

\* A Harbor's ids start at 1, and only a row has placements.
IdsAreTrue ==
  /\ \A h \in Harbor : harbor[h].there => harbor[h].id # 0
  /\ project.status = "GONE" => placement = [h \in Harbor |-> NoPlacement]
  /\ pass.pc = "delete" /\ pass.at.kind = "PROJECT_DELETE" =>
       ~(harbor[pass.registry].there /\ harbor[pass.registry].id = pass.at.key)

ApartInv == TypeInv /\ OneAtATime /\ CreationsAreTrue /\ DeletionsAreQueued /\ IdsAreTrue

\* A handler's step leaves the others and the pass alone; it begins when nothing
\* else is at work, goes on, or ends.
LEMMA HandStep ==
  ASSUME TypeInv, NEW a \in Admin, Activation(a) \/ Removal(a) \/ Crash(a)
  PROVE  /\ pass' = pass /\ \A b \in Admin : b # a => hand'[b] = hand[b]
         /\ hand'[a].pc \in Working =>
              \/ /\ hand[a].pc \in Working /\ hand'[a].gen = hand[a].gen /\ project' = project
                 /\ hand'[a].pc \in {"sync", "enqueue"} => hand[a].pc \in {"sync", "enqueue"}
              \/ /\ Alone /\ hand'[a].pc # "unrow" /\ queue' = queue
                 /\ Alive(hand[a].gen)' /\ (RequestByAdmin(a) \/ Approve(a) \/ Delete(a))
         /\ hand'[a].pc = "unrow" => Forget(a)
<1>a. hand \in [Admin -> Hand] /\ hand[a] \in Hand /\ HandOK(hand[a])
      /\ project \in [gen : 0..MaxProjects, status : Status]
  BY DEF TypeInv, TypeOK
<1> DEFINE Goal == /\ pass' = pass /\ \A b \in Admin : b # a => hand'[b] = hand[b]
                   /\ hand'[a].pc \in Working =>
                        \/ /\ hand[a].pc \in Working /\ hand'[a].gen = hand[a].gen /\ project' = project
                           /\ hand'[a].pc \in {"sync", "enqueue"} => hand[a].pc \in {"sync", "enqueue"}
                        \/ /\ Alone /\ hand'[a].pc # "unrow" /\ queue' = queue
                           /\ Alive(hand[a].gen)' /\ (RequestByAdmin(a) \/ Approve(a) \/ Delete(a))
                   /\ hand'[a].pc = "unrow" => Forget(a)
<1> SUFFICES Goal
  OBVIOUS
<1> HIDE DEF Goal
<1>1. CASE RequestByAdmin(a)
  BY <1>1, <1>a DEF RequestByAdmin, Request, Activate, IdleHand, Hand, Goal, Working, Deleting,
     Alive
<1>2. CASE Approve(a)
  BY <1>2, <1>a DEF Approve, Activate, IdleHand, Hand, Goal, Working, Deleting, Alive
<1>3. CASE Enqueue(a)
  BY <1>3, <1>a DEF Enqueue, Hand, Goal, Working, Deleting
<1>4. CASE Activated(a)
  BY <1>4, <1>a DEF Activated, Answer, IdleHand, Hand, Goal, Working, Deleting
<1>5. CASE Reject(a)
  BY <1>5, <1>a DEF Reject, Activate, IdleHand, Hand, Goal, Working, Deleting, Alive
<1>6. CASE RejectWrite(a)
  BY <1>6, <1>a DEF RejectWrite, Answer, IdleHand, Hand, Goal, Working, Deleting
<1>7. CASE Delete(a)
  BY <1>7, <1>a DEF Delete, Activate, IdleHand, Hand, Goal, Working, Deleting, Alive
<1>8. CASE Inspected(a)
  BY <1>8, <1>a DEF Inspected, Hand, Goal, Working, Deleting
<1>9. CASE Forget(a)
  BY <1>9, <1>a DEF Forget, Hand, Goal, Working, Deleting
<1>10. CASE Unrow(a)
  BY <1>10, <1>a DEF Unrow, Answer, IdleHand, Hand, Goal, Working, Deleting
<1>11. CASE Crash(a)
  BY <1>11, <1>a DEF Crash, Answer, IdleHand, Hand, Goal, Working, Deleting
<1>12. ASSUME NEW h \in Harbor, SyncReached(a, h) PROVE Goal
  <2>1. CASE Alive(hand[a].gen)
    BY <1>12, <1>a, <2>1 DEF SyncReached, Hand, Goal, Working
  <2>2. CASE ~Alive(hand[a].gen)
    BY <1>12, <1>a, <2>2 DEF SyncReached, Hand, Goal, Working
  <2> QED
    BY <2>1, <2>2
<1>13. ASSUME NEW h \in Harbor, SyncFailed(a, h) PROVE Goal
  BY <1>13, <1>a DEF SyncFailed, Hand, Goal, Working, Deleting
<1>14. ASSUME NEW h \in Harbor, MarkFailed(a, h) PROVE Goal
  <2>1. CASE Alive(hand[a].gen)
    BY <1>14, <1>a, <2>1 DEF MarkFailed, Hand, Goal, Working
  <2>2. CASE ~Alive(hand[a].gen)
    BY <1>14, <1>a, <2>2 DEF MarkFailed, Answer, IdleHand, Hand, Goal, Working, Deleting
  <2> QED
    BY <2>1, <2>2
<1>15. ASSUME NEW h \in Harbor, NEW id \in Nat \ {0}, Inspect(a, h, id) PROVE Goal
  BY <1>15, <1>a DEF Inspect, Hand, Goal, Working, Deleting
<1>16. ASSUME NEW h \in Harbor, NEW id \in Nat \ {0}, InspectRefused(a, h, id) PROVE Goal
  BY <1>16, <1>a DEF InspectRefused, Answer, IdleHand, Hand, Goal, Working, Deleting
<1>17. ASSUME NEW h \in Harbor, NEW id \in Nat \ {0}, RemoveReached(a, h, id) PROVE Goal
  BY <1>17, <1>a DEF RemoveReached, Hand, Goal, Working, Deleting
<1>18. ASSUME NEW h \in Harbor, NEW id \in Nat \ {0}, RemoveRefused(a, h, id) PROVE Goal
  BY <1>18, <1>a DEF RemoveRefused, Hand, Goal, Working, Deleting
<1>19. ASSUME NEW h \in Harbor, NEW id \in Nat \ {0}, RemoveFailed(a, h, id) PROVE Goal
  BY <1>19, <1>a DEF RemoveFailed, Hand, Goal, Working, Deleting
<1>20. ASSUME NEW h \in Harbor, NEW id \in Nat \ {0}, EnqueueDelete(a, h, id) PROVE Goal
  BY <1>20, <1>a DEF EnqueueDelete, Hand, Goal, Working, Deleting
<1> QED
  BY <1>1, <1>2, <1>3, <1>4, <1>5, <1>6, <1>7, <1>8, <1>9, <1>10, <1>11, <1>12, <1>13, <1>14,
     <1>15, <1>16, <1>17, <1>18, <1>19, <1>20, RemovalCases DEF Activation

\* The row changes hands: asked for when it is gone, decided, or gone.
LEMMA ProjectStep ==
  ASSUME TypeInv, NEW a \in Admin, Activation(a) \/ Removal(a) \/ Crash(a)
  PROVE  \/ project' = project
         \/ /\ project.status = "GONE" /\ RequestByAdmin(a)
            /\ project' = [gen |-> project.gen + 1, status |-> "PENDING"]
         \/ /\ project.status # "GONE" /\ project'.gen = project.gen /\ project'.status # "GONE"
            /\ project'.status = "ACTIVE" => Activated(a)
         \/ /\ Unrow(a) /\ hand[a].pc = "unrow" /\ project'.gen = project.gen
            /\ project'.status = "GONE"
<1>a. project \in [gen : 0..MaxProjects, status : Status]
  BY DEF TypeInv, TypeOK
<1> DEFINE Goal == \/ project' = project
                   \/ /\ project.status = "GONE" /\ RequestByAdmin(a)
                      /\ project' = [gen |-> project.gen + 1, status |-> "PENDING"]
                   \/ /\ project.status # "GONE" /\ project'.gen = project.gen
                      /\ project'.status # "GONE"
                      /\ project'.status = "ACTIVE" => Activated(a)
                   \/ /\ Unrow(a) /\ hand[a].pc = "unrow" /\ project'.gen = project.gen
                      /\ project'.status = "GONE"
<1> SUFFICES Goal
  OBVIOUS
<1> HIDE DEF Goal
<1>1. CASE RequestByAdmin(a)
  BY <1>1, <1>a DEF RequestByAdmin, Request, Goal
<1>2. CASE Approve(a)
  BY <1>2, <1>a DEF Approve, Goal
<1>3. CASE Enqueue(a)
  BY <1>3, <1>a DEF Enqueue, Goal
<1>4. CASE Activated(a)
  BY <1>4, <1>a DEF Activated, Alive, Goal
<1>5. CASE Reject(a)
  BY <1>5, <1>a DEF Reject, Goal
<1>6. CASE RejectWrite(a)
  BY <1>6, <1>a DEF RejectWrite, Alive, Goal
<1>7. CASE Delete(a)
  BY <1>7, <1>a DEF Delete, Goal
<1>8. CASE Inspected(a)
  BY <1>8, <1>a DEF Inspected, Goal
<1>9. CASE Forget(a)
  BY <1>9, <1>a DEF Forget, Goal
<1>10. CASE Unrow(a)
  BY <1>10, <1>a DEF Unrow, Goal
<1>11. CASE Crash(a)
  BY <1>11, <1>a DEF Crash, Goal
<1>12. ASSUME NEW h \in Harbor, SyncReached(a, h) PROVE Goal
  BY <1>12, <1>a DEF SyncReached, Goal
<1>13. ASSUME NEW h \in Harbor, SyncFailed(a, h) PROVE Goal
  BY <1>13, <1>a DEF SyncFailed, Goal
<1>14. ASSUME NEW h \in Harbor, MarkFailed(a, h) PROVE Goal
  BY <1>14, <1>a DEF MarkFailed, Goal
<1>15. ASSUME NEW h \in Harbor, NEW id \in Nat \ {0}, Inspect(a, h, id) PROVE Goal
  BY <1>15, <1>a DEF Inspect, Goal
<1>16. ASSUME NEW h \in Harbor, NEW id \in Nat \ {0}, InspectRefused(a, h, id) PROVE Goal
  BY <1>16, <1>a DEF InspectRefused, Goal
<1>17. ASSUME NEW h \in Harbor, NEW id \in Nat \ {0}, RemoveReached(a, h, id) PROVE Goal
  BY <1>17, <1>a DEF RemoveReached, Goal
<1>18. ASSUME NEW h \in Harbor, NEW id \in Nat \ {0}, RemoveRefused(a, h, id) PROVE Goal
  BY <1>18, <1>a DEF RemoveRefused, Goal
<1>19. ASSUME NEW h \in Harbor, NEW id \in Nat \ {0}, RemoveFailed(a, h, id) PROVE Goal
  BY <1>19, <1>a DEF RemoveFailed, Goal
<1>20. ASSUME NEW h \in Harbor, NEW id \in Nat \ {0}, EnqueueDelete(a, h, id) PROVE Goal
  BY <1>20, <1>a DEF EnqueueDelete, Goal
<1> QED
  BY <1>1, <1>2, <1>3, <1>4, <1>5, <1>6, <1>7, <1>8, <1>9, <1>10, <1>11, <1>12, <1>13, <1>14,
     <1>15, <1>16, <1>17, <1>18, <1>19, <1>20, RemovalCases DEF Activation

\* What a handler's step does to the queue.
QueueChanges(a) ==
  \/ queue' = queue
  \/ /\ hand[a].pc = "enqueue" /\ Enqueue(a)
     /\ queue' = queue \union {Row(nextId, hand[a].at, "PROJECT_CREATE", hand[a].gen)}
  \/ /\ hand[a].pc = "remove"
     /\ \E h \in Harbor, id \in Nat \ {0} :
          queue' = (queue \ Subject(queue, h, {"PROJECT_CREATE"}, hand[a].gen))
                     \union {Row(nextId, h, "PROJECT_DELETE", id)}
  \/ /\ hand[a].pc = "remove" /\ Forget(a)
     /\ queue' = {op \in queue : ~(op.kind = "PROJECT_CREATE" /\ op.key = hand[a].gen)}

\* It queues the creation it owes, or a deletion, or forgets the row's creations.
LEMMA QueueStep ==
  ASSUME TypeInv, NEW a \in Admin, Activation(a) \/ Removal(a) \/ Crash(a)
  PROVE  QueueChanges(a)
<1>1. CASE RequestByAdmin(a)
  BY <1>1 DEF RequestByAdmin, Request, QueueChanges
<1>2. CASE Approve(a)
  BY <1>2 DEF Approve, QueueChanges
<1>3. CASE Enqueue(a)
  BY <1>3 DEF Enqueue, EnqueueOnce, QueueChanges
<1>4. CASE Activated(a)
  BY <1>4 DEF Activated, QueueChanges
<1>5. CASE Reject(a)
  BY <1>5 DEF Reject, QueueChanges
<1>6. CASE RejectWrite(a)
  BY <1>6 DEF RejectWrite, QueueChanges
<1>7. CASE Delete(a)
  BY <1>7 DEF Delete, QueueChanges
<1>8. CASE Inspected(a)
  BY <1>8 DEF Inspected, QueueChanges
<1>9. CASE Forget(a)
  BY <1>9 DEF Forget, QueueChanges
<1>10. CASE Unrow(a)
  BY <1>10 DEF Unrow, QueueChanges
<1>11. CASE Crash(a)
  BY <1>11 DEF Crash, QueueChanges
<1>12. ASSUME NEW h \in Harbor, SyncReached(a, h) PROVE QueueChanges(a)
  BY <1>12 DEF SyncReached, QueueChanges
<1>13. ASSUME NEW h \in Harbor, SyncFailed(a, h) PROVE QueueChanges(a)
  BY <1>13 DEF SyncFailed, QueueChanges
<1>14. ASSUME NEW h \in Harbor, MarkFailed(a, h) PROVE QueueChanges(a)
  BY <1>14 DEF MarkFailed, QueueChanges
<1>15. ASSUME NEW h \in Harbor, NEW id \in Nat \ {0}, Inspect(a, h, id) PROVE QueueChanges(a)
  BY <1>15 DEF Inspect, QueueChanges
<1>16. ASSUME NEW h \in Harbor, NEW id \in Nat \ {0}, InspectRefused(a, h, id) PROVE QueueChanges(a)
  BY <1>16 DEF InspectRefused, QueueChanges
<1>17. ASSUME NEW h \in Harbor, NEW id \in Nat \ {0}, RemoveReached(a, h, id) PROVE QueueChanges(a)
  BY <1>17 DEF RemoveReached, QueueChanges
<1>18. ASSUME NEW h \in Harbor, NEW id \in Nat \ {0}, RemoveRefused(a, h, id) PROVE QueueChanges(a)
  BY <1>18 DEF RemoveRefused, QueueChanges
<1>19. ASSUME NEW h \in Harbor, NEW id \in Nat \ {0}, RemoveFailed(a, h, id) PROVE QueueChanges(a)
  BY <1>19 DEF RemoveFailed, QueueChanges
<1>20. ASSUME NEW h \in Harbor, NEW id \in Nat \ {0}, EnqueueDelete(a, h, id) PROVE QueueChanges(a)
  BY <1>20 DEF EnqueueDelete, QueueChanges
<1> QED
  BY <1>1, <1>2, <1>3, <1>4, <1>5, <1>6, <1>7, <1>8, <1>9, <1>10, <1>11, <1>12, <1>13, <1>14,
     <1>15, <1>16, <1>17, <1>18, <1>19, <1>20, RemovalCases DEF Activation

\* Placements are those of the row there is, until it goes.
LEMMA PlacementStep ==
  ASSUME TypeInv, NEW a \in Admin, Activation(a) \/ Removal(a) \/ Crash(a)
  PROVE  \/ placement' = placement
         \/ hand[a].pc = "sync" /\ Alive(hand[a].gen)
         \/ Unrow(a) /\ placement' = [h \in Harbor |-> NoPlacement]
<1> DEFINE Goal == \/ placement' = placement
                   \/ hand[a].pc = "sync" /\ Alive(hand[a].gen)
                   \/ Unrow(a) /\ placement' = [h \in Harbor |-> NoPlacement]
<1> SUFFICES Goal
  OBVIOUS
<1> HIDE DEF Goal
<1>1. CASE RequestByAdmin(a)
  BY <1>1 DEF RequestByAdmin, Request, Goal
<1>2. CASE Approve(a)
  BY <1>2 DEF Approve, Goal
<1>3. CASE Enqueue(a)
  BY <1>3 DEF Enqueue, Goal
<1>4. CASE Activated(a)
  BY <1>4 DEF Activated, Goal
<1>5. CASE Reject(a)
  BY <1>5 DEF Reject, Goal
<1>6. CASE RejectWrite(a)
  BY <1>6 DEF RejectWrite, Goal
<1>7. CASE Delete(a)
  BY <1>7 DEF Delete, Goal
<1>8. CASE Inspected(a)
  BY <1>8 DEF Inspected, Goal
<1>9. CASE Forget(a)
  BY <1>9 DEF Forget, Goal
<1>10. CASE Unrow(a)
  BY <1>10 DEF Unrow, Goal
<1>11. CASE Crash(a)
  BY <1>11 DEF Crash, Goal
<1>12. ASSUME NEW h \in Harbor, SyncReached(a, h) PROVE Goal
  BY <1>12 DEF SyncReached, Goal
<1>13. ASSUME NEW h \in Harbor, SyncFailed(a, h) PROVE Goal
  BY <1>13 DEF SyncFailed, Goal
<1>14. ASSUME NEW h \in Harbor, MarkFailed(a, h) PROVE Goal
  BY <1>14 DEF MarkFailed, Goal
<1>15. ASSUME NEW h \in Harbor, NEW id \in Nat \ {0}, Inspect(a, h, id) PROVE Goal
  BY <1>15 DEF Inspect, Goal
<1>16. ASSUME NEW h \in Harbor, NEW id \in Nat \ {0}, InspectRefused(a, h, id) PROVE Goal
  BY <1>16 DEF InspectRefused, Goal
<1>17. ASSUME NEW h \in Harbor, NEW id \in Nat \ {0}, RemoveReached(a, h, id) PROVE Goal
  BY <1>17 DEF RemoveReached, Goal
<1>18. ASSUME NEW h \in Harbor, NEW id \in Nat \ {0}, RemoveRefused(a, h, id) PROVE Goal
  BY <1>18 DEF RemoveRefused, Goal
<1>19. ASSUME NEW h \in Harbor, NEW id \in Nat \ {0}, RemoveFailed(a, h, id) PROVE Goal
  BY <1>19 DEF RemoveFailed, Goal
<1>20. ASSUME NEW h \in Harbor, NEW id \in Nat \ {0}, EnqueueDelete(a, h, id) PROVE Goal
  BY <1>20 DEF EnqueueDelete, Goal
<1> QED
  BY <1>1, <1>2, <1>3, <1>4, <1>5, <1>6, <1>7, <1>8, <1>9, <1>10, <1>11, <1>12, <1>13, <1>14,
     <1>15, <1>16, <1>17, <1>18, <1>19, <1>20, RemovalCases DEF Activation

\* A handler at work on a Harbor creates a project there, deletes it or is told
\* that it is not empty.
LEMMA HarborStep ==
  ASSUME TypeInv, NEW a \in Admin, Activation(a) \/ Removal(a) \/ Crash(a), NEW x \in Harbor
  PROVE  \/ harbor'[x] = harbor[x]
         \/ hand[a].pc = "sync" /\ harbor'[x] = Created(x)
         \/ hand[a].pc = "remove" /\ \E id \in Nat : harbor'[x] = Deleted(x, id)
         \/ hand[a].pc = "remove" /\ harbor'[x] = [harbor[x] EXCEPT !.told = TRUE]
<1>a. harbor \in [Harbor -> HarborProject]
  BY DEF TypeInv, TypeOK
<1> DEFINE Goal == \/ harbor'[x] = harbor[x]
                   \/ hand[a].pc = "sync" /\ harbor'[x] = Created(x)
                   \/ hand[a].pc = "remove" /\ \E id \in Nat : harbor'[x] = Deleted(x, id)
                   \/ hand[a].pc = "remove" /\ harbor'[x] = [harbor[x] EXCEPT !.told = TRUE]
<1> SUFFICES Goal
  OBVIOUS
<1> HIDE DEF Goal
<1>1. CASE RequestByAdmin(a)
  BY <1>1, <1>a DEF RequestByAdmin, Request, Goal
<1>2. CASE Approve(a)
  BY <1>2, <1>a DEF Approve, Goal
<1>3. CASE Enqueue(a)
  BY <1>3, <1>a DEF Enqueue, Goal
<1>4. CASE Activated(a)
  BY <1>4, <1>a DEF Activated, Goal
<1>5. CASE Reject(a)
  BY <1>5, <1>a DEF Reject, Goal
<1>6. CASE RejectWrite(a)
  BY <1>6, <1>a DEF RejectWrite, Goal
<1>7. CASE Delete(a)
  BY <1>7, <1>a DEF Delete, Goal
<1>8. CASE Inspected(a)
  BY <1>8, <1>a DEF Inspected, Goal
<1>9. CASE Forget(a)
  BY <1>9, <1>a DEF Forget, Goal
<1>10. CASE Unrow(a)
  BY <1>10, <1>a DEF Unrow, Goal
<1>11. CASE Crash(a)
  BY <1>11, <1>a DEF Crash, Goal
<1>12. ASSUME NEW h \in Harbor, SyncReached(a, h) PROVE Goal
  BY <1>12, <1>a DEF SyncReached, Goal
<1>13. ASSUME NEW h \in Harbor, SyncFailed(a, h) PROVE Goal
  BY <1>13, <1>a DEF SyncFailed, Goal
<1>14. ASSUME NEW h \in Harbor, MarkFailed(a, h) PROVE Goal
  BY <1>14, <1>a DEF MarkFailed, Goal
<1>15. ASSUME NEW h \in Harbor, NEW id \in Nat \ {0}, Inspect(a, h, id) PROVE Goal
  BY <1>15, <1>a DEF Inspect, Goal
<1>16. ASSUME NEW h \in Harbor, NEW id \in Nat \ {0}, InspectRefused(a, h, id) PROVE Goal
  BY <1>16, <1>a DEF InspectRefused, Goal
<1>17. ASSUME NEW h \in Harbor, NEW id \in Nat \ {0}, RemoveReached(a, h, id) PROVE Goal
  BY <1>17, <1>a DEF RemoveReached, Goal
<1>18. ASSUME NEW h \in Harbor, NEW id \in Nat \ {0}, RemoveRefused(a, h, id) PROVE Goal
  BY <1>18, <1>a DEF RemoveRefused, Goal
<1>19. ASSUME NEW h \in Harbor, NEW id \in Nat \ {0}, RemoveFailed(a, h, id) PROVE Goal
  BY <1>19, <1>a DEF RemoveFailed, Goal
<1>20. ASSUME NEW h \in Harbor, NEW id \in Nat \ {0}, EnqueueDelete(a, h, id) PROVE Goal
  BY <1>20, <1>a DEF EnqueueDelete, Goal
<1> QED
  BY <1>1, <1>2, <1>3, <1>4, <1>5, <1>6, <1>7, <1>8, <1>9, <1>10, <1>11, <1>12, <1>13, <1>14,
     <1>15, <1>16, <1>17, <1>18, <1>19, <1>20, RemovalCases DEF Activation

\* A handler's step keeps the work apart.
LEMMA ApartHandler ==
  ASSUME Sorts, Apart, ApartInv, NEW a \in Admin, Activation(a) \/ Removal(a) \/ Crash(a)
  PROVE  ApartInv'
<1>t. TypeInv /\ TypeInv'
  BY TypeHandler DEF ApartInv
<1>i. OneAtATime /\ CreationsAreTrue /\ DeletionsAreQueued /\ IdsAreTrue
  BY DEF ApartInv
<1>h. /\ pass' = pass /\ \A b \in Admin : b # a => hand'[b] = hand[b]
      /\ hand'[a].pc \in Working =>
              \/ hand[a].pc \in Working /\ hand'[a].gen = hand[a].gen /\ project' = project
              \/ /\ Alone /\ hand'[a].pc # "unrow" /\ queue' = queue
                 /\ Alive(hand[a].gen)'
      /\ hand'[a].pc = "unrow" => Forget(a)
  BY <1>t, HandStep
<1>s. /\ project \in [gen : 0..MaxProjects, status : Status] /\ project.gen \in Nat
      /\ queue \subseteq Op /\ pass \in Pass /\ PassOK(pass)
      /\ placement \in [Harbor -> Placement] /\ harbor \in [Harbor -> HarborProject]
  BY <1>t DEF TypeInv, TypeOK
<1>p. \/ project' = project
      \/ project.status = "GONE" /\ project' = [gen |-> project.gen + 1, status |-> "PENDING"]
      \/ project.status # "GONE" /\ project'.gen = project.gen /\ project'.status # "GONE"
      \/ hand[a].pc = "unrow" /\ project'.gen = project.gen /\ project'.status = "GONE" /\ Unrow(a)
  BY <1>t, ProjectStep
<1>q. QueueChanges(a)
  BY <1>t, QueueStep
<1>l. ASSUME NEW gen, Alive(gen), hand[a].pc # "unrow" PROVE Alive(gen)'
  BY <1>p, <1>l DEF Alive
<1>1. OneAtATime'
  <2>1. Alone /\ Apart => pass.at = None /\ \A b \in Admin : hand[b].pc \notin Working
    BY DEF Alone, Activating, Removing, Replaying, Working
  <2>2. ASSUME NEW b \in Admin, NEW c \in Admin,
               hand'[b].pc \in Working, hand'[c].pc \in Working
        PROVE  b = c
    BY <1>h, <1>i, <2>1, <2>2 DEF OneAtATime
  <2>3. ASSUME NEW b \in Admin, hand'[b].pc \in Working
        PROVE  pass'.at = None /\ Alive(hand[b].gen)'
    <3>1. CASE b = a
      BY <1>h, <1>i, <2>1, <2>3, <3>1 DEF OneAtATime, Alive
    <3>2. CASE b # a
      <4>1. hand'[b] = hand[b] /\ Alive(hand[b].gen) /\ pass.at = None
        BY <1>h, <1>i, <2>3, <3>2 DEF OneAtATime
      <4>2. hand[a].pc # "unrow"
        BY <1>i, <2>3, <3>2, <4>1 DEF OneAtATime, Working, Deleting
      <4>3. Alive(hand[b].gen) => (project'.gen = hand[b].gen /\ project'.status # "GONE")
        BY <1>l, <4>2 DEF Alive
      <4> QED
        BY <1>h, <4>1, <4>3 DEF Alive
    <3> QED
      BY <3>1, <3>2
  <2>4. pass'.pc = "create" => Alive(pass.at.key)'
    <3>1. SUFFICES ASSUME pass.pc = "create" PROVE Alive(pass.at.key)'
      BY <1>h
    <3>2. Alive(pass.at.key) /\ pass.at # None
      BY <1>i, <1>s, <3>1 DEF OneAtATime, PassOK
    <3>3. hand[a].pc # "unrow"
      BY <1>i, <3>2 DEF OneAtATime, Working, Deleting
    <3>4. project'.gen = pass.at.key /\ project'.status # "GONE"
      BY <1>l, <3>2, <3>3 DEF Alive
    <3> QED
      BY <1>h, <3>4 DEF Alive
  <2> QED
    BY <2>2, <2>3, <2>4 DEF OneAtATime
<1>2. CreationsAreTrue'
  <2>1. ASSUME NEW op \in queue', op.kind = "PROJECT_CREATE"
        PROVE  project'.gen = op.key /\ project'.status # "GONE"
    <3>1. CASE op \in queue
      <4>1. Alive(op.key) /\ hand[a].pc # "unrow"
        BY <1>i, <2>1, <3>1 DEF CreationsAreTrue
      <4> QED
        BY <1>l, <4>1 DEF Alive
    <3>2. CASE op \notin queue
      <4>1. hand[a].pc = "enqueue" /\ op.key = hand[a].gen
        BY <1>q, <2>1, <3>2 DEF QueueChanges, Row
      <4>2. Alive(hand[a].gen)
        BY <1>i, <4>1 DEF OneAtATime, Working
      <4> QED
        BY <1>l, <4>1, <4>2 DEF Alive
    <3> QED
      BY <3>1, <3>2
  <2>2. ASSUME NEW op \in pass'.ops, op.kind = "PROJECT_CREATE"
        PROVE  op.key <= project'.gen
    <3>1. op.key <= project.gen /\ op.key \in Nat
      BY <1>h, <1>i, <1>s, <2>2 DEF CreationsAreTrue, Pass, Op
    <3>2. project'.gen = project.gen \/ project'.gen = project.gen + 1
      BY <1>p
    <3> QED
      BY <1>s, <3>1, <3>2
  <2>3. ASSUME NEW b \in Admin, hand'[b].pc = "unrow", NEW op \in queue'
        PROVE  op.kind = "PROJECT_DELETE"
    <3>1. CASE b = a
      <4>1. Forget(a) /\ hand[a].pc = "remove"
        BY <1>h, <2>3, <3>1 DEF Forget
      <4>2. op \in queue /\ ~(op.kind = "PROJECT_CREATE" /\ op.key = hand[a].gen)
        BY <2>3, <4>1 DEF Forget
      <4>3. Alive(hand[a].gen)
        BY <1>i, <4>1 DEF OneAtATime, Working, Deleting
      <4>4. op.kind \in Kind
        BY <1>s, <4>2 DEF Op
      <4> QED
        BY <1>i, <4>2, <4>3, <4>4 DEF CreationsAreTrue, Alive, Kind
    <3>2. CASE b # a
      <4>1. hand[b].pc = "unrow"
        BY <1>h, <2>3, <3>2
      <4>2. hand[a].pc \notin Working
        BY <1>i, <3>2, <4>1 DEF OneAtATime, Working, Deleting
      <4>3. queue' = queue
        BY <1>q, <4>2 DEF QueueChanges, Working, Deleting
      <4> QED
        BY <1>i, <2>3, <4>1, <4>3 DEF CreationsAreTrue
    <3> QED
      BY <3>1, <3>2
  <2> QED
    BY <2>1, <2>2, <2>3 DEF CreationsAreTrue, Alive
<1>3. DeletionsAreQueued'
  <2>1. ASSUME NEW op \in queue, op.kind = "PROJECT_DELETE" PROVE op \in queue'
    BY <1>q, <2>1 DEF QueueChanges, Subject
  <2> QED
    BY <1>h, <1>i, <2>1 DEF DeletionsAreQueued
<1>4. IdsAreTrue'
  <2>1. ASSUME NEW h \in Harbor, harbor'[h].there PROVE harbor'[h].id # 0
    <3>1. harbor[h] \in HarborProject /\ harbor[h].id \in Nat
      BY <1>s DEF HarborProject
    <3>2. harbor[h].there => harbor[h].id # 0
      BY <1>i DEF IdsAreTrue
    <3>3. Created(h).id # 0
      <4>1. CASE harbor[h].there
        BY <3>1, <3>2, <4>1 DEF Created, HarborProject
      <4>2. CASE ~harbor[h].there
        BY <3>1, <4>2 DEF Created, NoProject
      <4> QED
        BY <4>1, <4>2
    <3>4. ASSUME NEW id \in Nat, Deleted(h, id).there PROVE Deleted(h, id).id # 0
      BY <3>1, <3>2, <3>4 DEF Deleted, NoProject
    <3>5. [harbor[h] EXCEPT !.told = TRUE].id = harbor[h].id
          /\ [harbor[h] EXCEPT !.told = TRUE].there = harbor[h].there
      BY <3>1 DEF HarborProject
    <3> QED
      BY <1>t, <2>1, <3>2, <3>3, <3>4, <3>5, HarborStep
  <2>2. ASSUME project'.status = "GONE" PROVE placement' = [h \in Harbor |-> NoPlacement]
    <3>1. CASE Unrow(a)
      BY <3>1 DEF Unrow
    <3>2. CASE ~Unrow(a)
      <4>1. project.status = "GONE"
        BY <1>p, <2>2, <3>2
      <4>2. placement' = placement
        BY <1>t, <3>2, <4>1, PlacementStep DEF Alive
      <4> QED
        BY <1>i, <4>1, <4>2 DEF IdsAreTrue
    <3> QED
      BY <3>1, <3>2
  <2>3. ASSUME pass'.pc = "delete", pass'.at.kind = "PROJECT_DELETE"
        PROVE  ~(harbor'[pass'.registry].there /\ harbor'[pass'.registry].id = pass'.at.key)
    <3>1. pass.pc = "delete" /\ pass.at # None /\ pass.registry \in Harbor
      BY <1>h, <1>s, <2>3 DEF PassOK
    <3>2. hand[a].pc \notin Working
      BY <1>i, <3>1 DEF OneAtATime
    <3>3. harbor'[pass.registry] = harbor[pass.registry]
      BY <1>t, <3>1, <3>2, HarborStep DEF Working, Deleting
    <3> QED
      BY <1>h, <1>i, <2>3, <3>3 DEF IdsAreTrue
  <2> QED
    BY <2>1, <2>2, <2>3 DEF IdsAreTrue
<1> QED
  BY <1>t, <1>1, <1>2, <1>3, <1>4 DEF ApartInv

\* The row asked for under the name is the next one.
LEMMA RequestIs ==
  ASSUME TypeInv, RequestByUser
  PROVE  /\ project.status = "GONE" /\ project' = [gen |-> project.gen + 1, status |-> "PENDING"]
         /\ project.gen \in Nat
         /\ UNCHANGED <<placement, harbor, queue, nextId, hand, pass, torn, served, crashes>>
  BY DEF RequestByUser, Request, TypeInv, TypeOK

\* What a step of the pass, or of the people, leaves alone, whoever else is at work.
LEMMA OthersStep ==
  ASSUME TypeInv, (\E h \in Harbor : PassStart(h) \/ Push(h)) \/ Replay
  PROVE  /\ UNCHANGED <<project, hand, torn>>
         /\ pass'.ops \subseteq pass.ops \union queue
         /\ \/ queue' = queue
            \/ PassDelete /\ queue' = queue \ {pass.at} /\ pass'.ops \subseteq pass.ops \ {pass.at}
         /\ project.status = "GONE" => placement' = placement
<1>a. pass \in Pass
  BY DEF TypeInv, TypeOK
<1>i. IdlePass.ops = {}
  BY DEF IdlePass
<1> DEFINE Goal == /\ UNCHANGED <<project, hand, torn>>
                   /\ pass'.ops \subseteq pass.ops \union queue
                   /\ \/ queue' = queue
                      \/ /\ PassDelete /\ queue' = queue \ {pass.at}
                         /\ pass'.ops \subseteq pass.ops \ {pass.at}
                   /\ project.status = "GONE" => placement' = placement
<1> SUFFICES Goal
  OBVIOUS
<1> HIDE DEF Goal
<1>1. ASSUME NEW h \in Harbor, PassStart(h) PROVE Goal
  BY <1>1 DEF PassStart, IdlePass, Owed, Goal
<1>2. ASSUME NEW h \in Harbor, Push(h) PROVE Goal
  BY <1>2 DEF Push, Goal
<1>3. ASSUME NEW op \in pass.ops, PassTake(op) PROVE Goal
  <2>1. pass'.ops = pass.ops
    BY <1>3, <1>a DEF PassTake, Pass
  <2> QED
    BY <1>3, <2>1 DEF PassTake, Goal
<1>4. CASE PassCreate
  <2>1. pass'.ops \subseteq pass.ops
    BY <1>4, <1>a, <1>i DEF PassCreate, Pass
  <2> QED
    BY <1>4, <2>1 DEF PassCreate, Alive, Goal
<1>5. CASE PassCreateFails
  BY <1>5, <1>i DEF PassCreateFails, Alive, Goal
<1>6. CASE PassRemove
  <2>1. pass'.ops = pass.ops
    BY <1>6, <1>a DEF PassRemove, Pass
  <2> QED
    BY <1>6, <2>1 DEF PassRemove, Goal
<1>7. CASE PassDelete
  <2>1. pass'.ops \subseteq pass.ops \ {pass.at}
    BY <1>7 DEF PassDelete, IdlePass
  <2> QED
    BY <1>7, <2>1 DEF PassDelete, Goal
<1>8. CASE PassEnds
  BY <1>8, <1>i DEF PassEnds, Goal
<1> QED
  BY <1>1, <1>2, <1>3, <1>4, <1>5, <1>6, <1>7, <1>8 DEF Replay

\* What a step of the pass does: nobody else is at work while it replays.
LEMMA ReplayStep ==
  ASSUME TypeInv, OneAtATime, Apart, (\E h \in Harbor : PassStart(h) \/ Push(h)) \/ Replay
  PROVE  /\ UNCHANGED <<project, hand, torn>>
         /\ pass'.at # None => \A a \in Admin : hand[a].pc \notin Working
         /\ pass'.pc = "create" => Alive(pass'.at.key)
         /\ pass'.ops \subseteq pass.ops \union queue
         /\ queue' = queue \/ PassDelete
<1>a. PassOK(pass) /\ pass \in Pass
  BY DEF TypeInv, TypeOK
<1> DEFINE Goal == /\ pass'.at # None => \A a \in Admin : hand[a].pc \notin Working
                   /\ pass'.pc = "create" => Alive(pass'.at.key)
<1>i. IdlePass.pc = "idle" /\ IdlePass.at = None /\ IdlePass.ops = {}
  BY DEF IdlePass
<1>w. pass.at # None => \A a \in Admin : hand[a].pc \notin Working
  BY DEF OneAtATime
<1>c. pass.pc = "create" => Alive(pass.at.key)
  BY DEF OneAtATime
<1> SUFFICES Goal
  BY OthersStep
<1> HIDE DEF Goal
<1>1. ASSUME NEW h \in Harbor, PassStart(h) PROVE Goal
  BY <1>1 DEF PassStart, IdlePass, Owed, Goal
<1>2. ASSUME NEW h \in Harbor, Push(h) PROVE Goal
  BY <1>2, <1>w, <1>c DEF Push, Goal
<1>3. ASSUME NEW op \in pass.ops, PassTake(op) PROVE Goal
  <2>1. \A a \in Admin : hand[a].pc \notin Working
    BY <1>3 DEF PassTake, Activating, Removing, Working
  <2>2. pass'.at = op /\ pass'.ops = pass.ops /\ (pass'.pc = "create" => Alive(op.key))
    BY <1>3, <1>a DEF PassTake, Pass
  <2> QED
    BY <1>3, <2>1, <2>2 DEF PassTake, Goal
<1>4. CASE PassCreate
  <2>1. pass' = IdlePass \/ pass' = [pass EXCEPT !.pc = "delete"]
    BY <1>4 DEF PassCreate
  <2>2. pass'.pc # "create" /\ (pass'.at = None \/ pass'.at = pass.at) /\ pass'.ops \subseteq pass.ops
    BY <1>a, <1>i, <2>1 DEF Pass
  <2> QED
    BY <1>4, <1>w, <2>2 DEF PassCreate, Goal
<1>5. CASE PassCreateFails
  BY <1>5, <1>i DEF PassCreateFails, Goal
<1>6. CASE PassRemove
  <2>1. pass'.pc = "delete" /\ pass'.at = pass.at /\ pass'.ops = pass.ops
    BY <1>6, <1>a DEF PassRemove, Pass
  <2> QED
    BY <1>6, <1>w, <2>1 DEF PassRemove, Goal
<1>7. CASE PassDelete
  <2>1. pass'.pc # "create" /\ pass'.at = None /\ pass'.ops \subseteq pass.ops
    BY <1>7 DEF PassDelete, IdlePass
  <2> QED
    BY <1>7, <2>1 DEF PassDelete, Goal
<1>8. CASE PassEnds
  BY <1>8, <1>i DEF PassEnds, Goal
<1> QED
  BY <1>1, <1>2, <1>3, <1>4, <1>5, <1>6, <1>7, <1>8 DEF Replay

\* A step of the pass, or of the people, keeps the work apart.
LEMMA ApartOthers ==
  ASSUME Sorts, Apart, ApartInv,
         RequestByUser \/ (\E h \in Harbor : PassStart(h) \/ Push(h)) \/ Replay
  PROVE  ApartInv'
<1>t. TypeInv /\ TypeInv'
  BY TypeOthers DEF ApartInv
<1>i. OneAtATime /\ CreationsAreTrue /\ DeletionsAreQueued /\ IdsAreTrue
  BY DEF ApartInv
<1>s. /\ project \in [gen : 0..MaxProjects, status : Status] /\ project.gen \in Nat
      /\ queue \subseteq Op /\ pass \in Pass /\ PassOK(pass)
      /\ placement \in [Harbor -> Placement] /\ harbor \in [Harbor -> HarborProject]
      /\ \A op \in pass.ops : op.key \in Nat
  BY <1>t DEF TypeInv, TypeOK, Pass, Op
<1>1. CASE RequestByUser
  <2>1. /\ project.status = "GONE" /\ project' = [gen |-> project.gen + 1, status |-> "PENDING"]
        /\ project.gen \in Nat /\ hand' = hand /\ pass' = pass /\ queue' = queue
        /\ placement' = placement /\ harbor' = harbor
    BY <1>1, <1>t, RequestIs
  <2>2. OneAtATime'
    BY <1>i, <2>1 DEF OneAtATime, Alive
  <2>3. CreationsAreTrue'
    <3>1. \A op \in queue : op.kind # "PROJECT_CREATE"
      BY <1>i, <2>1 DEF CreationsAreTrue, Alive
    <3>2. \A op \in pass.ops : op.kind = "PROJECT_CREATE" => op.key <= project.gen + 1
      <4>1. ASSUME NEW op \in pass.ops, op.kind = "PROJECT_CREATE" PROVE op.key <= project.gen + 1
        <5>1. op.key <= project.gen /\ op.key \in Nat
          BY <1>i, <1>s, <4>1 DEF CreationsAreTrue
        <5> QED
          BY <1>s, <5>1
      <4> QED
        BY <4>1
    <3> QED
      BY <1>i, <2>1, <3>1, <3>2 DEF CreationsAreTrue
  <2>4. DeletionsAreQueued' /\ IdsAreTrue'
    BY <1>i, <2>1 DEF DeletionsAreQueued, IdsAreTrue
  <2> QED
    BY <1>t, <2>2, <2>3, <2>4 DEF ApartInv
<1>2. CASE (\E h \in Harbor : PassStart(h) \/ Push(h)) \/ Replay
  <2>r. /\ UNCHANGED <<project, hand, torn>>
        /\ pass'.at # None => \A a \in Admin : hand[a].pc \notin Working
        /\ pass'.pc = "create" => Alive(pass'.at.key)
        /\ pass'.ops \subseteq pass.ops \union queue
        /\ queue' = queue \/ PassDelete
    BY <1>2, <1>i, <1>t, ReplayStep
  <2>q. queue' \subseteq queue
    BY <2>r DEF PassDelete
  <2>1. OneAtATime'
    BY <1>i, <2>r DEF OneAtATime, Alive
  <2>2. CreationsAreTrue'
    <3>1. ASSUME NEW op \in pass'.ops, op.kind = "PROJECT_CREATE" PROVE op.key <= project.gen
      <4>1. CASE op \in pass.ops
        BY <1>i, <3>1, <4>1 DEF CreationsAreTrue
      <4>2. CASE op \in queue
        BY <1>i, <1>s, <3>1, <4>2 DEF CreationsAreTrue, Alive
      <4> QED
        BY <2>r, <3>1, <4>1, <4>2
    <3> QED
      BY <1>i, <2>r, <2>q, <3>1 DEF CreationsAreTrue, Alive
  <2>3. DeletionsAreQueued'
    <3>1. CASE queue' = queue
      BY <1>i, <2>r, <3>1 DEF DeletionsAreQueued
    <3>2. CASE PassDelete
      <4>1. pass'.ops \subseteq pass.ops \ {pass.at} /\ queue' = queue \ {pass.at}
        BY <3>2 DEF PassDelete, IdlePass
      <4> QED
        BY <1>i, <4>1 DEF DeletionsAreQueued
    <3> QED
      BY <2>r, <3>1, <3>2
  <2>4. IdsAreTrue'
    <3> DEFINE Ids == \A x \in Harbor : harbor'[x].there => harbor'[x].id # 0
               Gone(ps) == ps.pc = "delete" /\ ps.at.kind = "PROJECT_DELETE" =>
                             ~(harbor'[ps.registry].there /\ harbor'[ps.registry].id = ps.at.key)
    <3>i. \A x \in Harbor : harbor[x].id \in Nat /\ (harbor[x].there => harbor[x].id # 0)
      BY <1>i, <1>s DEF IdsAreTrue, HarborProject
    <3>j. ~Gone(pass) => harbor' # harbor
      BY <1>i DEF IdsAreTrue
    <3>d. IdlePass.pc # "delete"
      BY DEF IdlePass
    <3>c. ASSUME NEW x \in Harbor PROVE Created(x).id # 0
      <4>1. CASE harbor[x].there
        BY <3>i, <1>s, <4>1 DEF Created, HarborProject
      <4>2. CASE ~harbor[x].there
        BY <3>i, <4>2 DEF Created, NoProject
      <4> QED
        BY <4>1, <4>2
    <3>1. SUFFICES Ids /\ Gone(pass') /\ (project.status = "GONE" => placement' = placement)
      BY <1>i, <2>r DEF IdsAreTrue
    <3>2. ASSUME NEW h \in Harbor, PassStart(h)
          PROVE  Ids /\ Gone(pass') /\ placement' = placement
      BY <3>2, <3>i DEF PassStart, IdlePass
    <3>3. ASSUME NEW h \in Harbor, Push(h)
          PROVE  Ids /\ Gone(pass') /\ placement' = placement
      <4>1. \A x \in Harbor : harbor'[x].id = harbor[x].id /\ harbor'[x].there = harbor[x].there
        BY <3>3, <1>s DEF Push, HarborProject
      <4>2. pass.pc = "delete" => pass.registry \in Harbor
        BY <1>s DEF PassOK
      <4> QED
        BY <3>3, <3>i, <4>1, <4>2, <1>i DEF Push, IdsAreTrue
    <3>4. ASSUME NEW op \in pass.ops, PassTake(op)
          PROVE  Ids /\ Gone(pass') /\ placement' = placement
      <4>1. pass'.at = op /\ harbor' = harbor /\ placement' = placement
            /\ (pass'.pc = "delete" => op.kind # "PROJECT_DELETE")
        BY <3>4, <1>s DEF PassTake, Pass
      <4> QED
        BY <3>i, <4>1
    <3>5. CASE PassCreate
      <4>1. /\ harbor' = [harbor EXCEPT ![pass.registry] = Created(pass.registry)]
            /\ pass.registry \in Harbor /\ pass.at.kind = "PROJECT_CREATE"
            /\ Alive(pass.at.key)
            /\ pass' = [pass EXCEPT !.pc = "delete"] \/ pass' = IdlePass
        BY <3>5, <1>i, <1>s DEF PassCreate, PassOK, OneAtATime
      <4>2. Ids
        BY <4>1, <3>i, <3>c, <1>s
      <4>3. Gone(pass')
        BY <4>1, <3>d, <1>s DEF Pass
      <4> QED
        BY <4>1, <4>2, <4>3 DEF Alive
    <3>6. CASE PassCreateFails
      <4>1. /\ harbor' = harbor \/ harbor' = [harbor EXCEPT ![pass.registry] = Created(pass.registry)]
            /\ pass.registry \in Harbor /\ Alive(pass.at.key) /\ pass' = IdlePass
        BY <3>6, <1>i, <1>s DEF PassCreateFails, PassOK, OneAtATime
      <4>2. Ids
        BY <4>1, <3>i, <3>c, <1>s
      <4> QED
        BY <4>1, <4>2, <3>d DEF Alive
    <3>7. CASE PassRemove
      <4>1. /\ harbor' = [harbor EXCEPT ![pass.registry] = Deleted(pass.registry, pass.at.key)]
            /\ pass.registry \in Harbor /\ placement' = placement
            /\ pass'.registry = pass.registry /\ pass'.at = pass.at
        BY <3>7, <1>s DEF PassRemove, PassOK, Pass
      <4>2. ASSUME NEW x \in Harbor, NEW id, Deleted(x, id).there
            PROVE  Deleted(x, id).id # 0 /\ Deleted(x, id).id # id
        BY <4>2, <3>i DEF Deleted, NoProject
      <4>3. Ids
        BY <4>1, <4>2, <3>i, <1>s
      <4>4. Gone(pass')
        BY <4>1, <4>2, <1>s
      <4> QED
        BY <4>1, <4>3, <4>4
    <3>8. CASE PassDelete
      <4>1. pass'.pc # "delete" /\ harbor' = harbor /\ placement' = placement
        BY <3>8 DEF PassDelete, IdlePass
      <4> QED
        BY <4>1, <3>i
    <3>9. CASE PassEnds
      BY <3>9, <3>i, <3>d DEF PassEnds
    <3> HIDE DEF Ids, Gone
    <3> QED
      BY <1>2, <3>2, <3>3, <3>4, <3>5, <3>6, <3>7, <3>8, <3>9 DEF Replay
  <2> QED
    BY <1>t, <2>1, <2>2, <2>3, <2>4 DEF ApartInv
<1> QED
  BY <1>1, <1>2

\* Nothing is at work at first.
LEMMA ApartInit == ASSUME Sorts PROVE Init => ApartInv
<1> SUFFICES ASSUME Init PROVE ApartInv
  OBVIOUS
<1>1. TypeInv
  BY TypeInit
<1>2. /\ \A a \in Admin : hand[a].pc = "idle"
      /\ pass.pc = "idle" /\ pass.ops = {} /\ queue = {}
  BY DEF Init, IdleHand, IdlePass
<1>3. ASSUME NEW h \in Harbor, harbor[h].there PROVE harbor[h].id # 0
  <2>1. CASE harbor[h] = NoProject
    BY <1>3, <2>1 DEF NoProject
  <2>2. CASE harbor[h] = [NoProject EXCEPT !.id = 1, !.there = TRUE]
    BY <2>2 DEF NoProject
  <2> QED
    BY <2>1, <2>2 DEF Init
<1>4. OneAtATime /\ CreationsAreTrue /\ DeletionsAreQueued
  <2>1. hand \in [Admin -> {IdleHand}] /\ pass.at = None
    BY DEF Init, IdlePass
  <2> QED
    BY <1>2, <2>1 DEF OneAtATime, CreationsAreTrue, DeletionsAreQueued, Working, Deleting
<1>5. IdsAreTrue
  BY <1>2, <1>3 DEF IdsAreTrue, Init
<1> QED
  BY <1>1, <1>4, <1>5 DEF ApartInv

\* A step keeps the work apart.
LEMMA ApartStep == ASSUME Sorts, Apart PROVE ApartInv /\ [Next]_vars => ApartInv'
<1> SUFFICES ASSUME ApartInv, [Next]_vars PROVE ApartInv'
  OBVIOUS
<1>1. CASE UNCHANGED vars
  <2>1. TypeInv'
    BY <1>1 DEF ApartInv, vars, TypeInv, TypeOK
  <2>2. OneAtATime' /\ CreationsAreTrue' /\ DeletionsAreQueued' /\ IdsAreTrue'
    BY <1>1 DEF ApartInv, vars, OneAtATime, CreationsAreTrue, DeletionsAreQueued, IdsAreTrue, Alive
  <2> QED
    BY <2>1, <2>2 DEF ApartInv
<1> QED
  BY <1>1, ApartHandler, ApartOthers DEF Next

-----------------------------------------------------------------------------
(* Deletion.                                                               *)

\* What the Gateway put on a Harbor is gone, reported, or owed its deletion.
Settled(h) ==
  harbor[h].there /\ harbor[h].ours =>
    harbor[h].told \/ Owes(h, "PROJECT_DELETE", harbor[h].id)

Pending(a, h) == <<h, harbor[h].id>> \in hand[a].todo \union hand[a].failed

\* It is known, or settled; a deletion settles all it knows.
SettledOrKnown ==
  /\ \A h \in Harbor : Settled(h) \/ placement[h].id = harbor[h].id
  /\ \A a \in Admin, h \in Harbor :
       hand[a].pc \in {"remove", "unrow"} => Settled(h) \/ Pending(a, h)
  /\ \A a \in Admin : hand[a].pc = "unrow" => hand[a].todo = {} /\ hand[a].failed = {}

DeletedInv == ApartInv /\ SettledOrKnown

\* A handler leaves a Harbor as it was, or knows what it put there, or has seen it go.
LEMMA KnownStep ==
  ASSUME ApartInv, ~AnswersLost, NEW a \in Admin, Activation(a) \/ Removal(a) \/ Crash(a),
         NEW x \in Harbor
  PROVE  \/ Unrow(a) /\ hand[a].pc = "unrow" /\ harbor'[x] = harbor[x]
         \/ placement'[x].id = harbor'[x].id
         \/ /\ placement'[x].id = placement[x].id
            /\ harbor'[x] = harbor[x] \/ ~harbor'[x].there \/ harbor'[x].told
<1>a. harbor \in [Harbor -> HarborProject] /\ placement \in [Harbor -> Placement]
      /\ (hand[a].pc \in Working => Alive(hand[a].gen))
  BY DEF ApartInv, TypeInv, TypeOK, OneAtATime
<1> DEFINE Goal == \/ Unrow(a) /\ hand[a].pc = "unrow" /\ harbor'[x] = harbor[x]
                   \/ placement'[x].id = harbor'[x].id
                   \/ /\ placement'[x].id = placement[x].id
                      /\ harbor'[x] = harbor[x] \/ ~harbor'[x].there \/ harbor'[x].told
<1> SUFFICES Goal
  OBVIOUS
<1> HIDE DEF Goal
<1>1. CASE RequestByAdmin(a)
  BY <1>1 DEF RequestByAdmin, Request, Goal
<1>2. CASE Approve(a)
  BY <1>2 DEF Approve, Goal
<1>3. CASE Enqueue(a)
  BY <1>3 DEF Enqueue, Goal
<1>4. CASE Activated(a)
  BY <1>4 DEF Activated, Goal
<1>5. CASE Reject(a)
  BY <1>5 DEF Reject, Goal
<1>6. CASE RejectWrite(a)
  BY <1>6 DEF RejectWrite, Goal
<1>7. CASE Delete(a)
  BY <1>7 DEF Delete, Goal
<1>8. CASE Inspected(a)
  BY <1>8 DEF Inspected, Goal
<1>9. CASE Forget(a)
  BY <1>9 DEF Forget, Goal
<1>10. CASE Unrow(a)
  BY <1>10 DEF Unrow, Goal
<1>11. CASE Crash(a)
  BY <1>11 DEF Crash, Goal
<1>12. ASSUME NEW h \in Harbor, SyncReached(a, h) PROVE Goal
  <2>1. /\ harbor' = [harbor EXCEPT ![h] = Created(h)]
        /\ placement' = [placement EXCEPT ![h] = [id |-> harbor'[h].id, status |-> "ACTIVE"]]
    BY <1>12, <1>a DEF SyncReached, Working, Placed
  <2> QED
    BY <1>a, <2>1 DEF Goal
<1>13. ASSUME NEW h \in Harbor, SyncFailed(a, h) PROVE Goal
  BY <1>13 DEF SyncFailed, Goal
<1>14. ASSUME NEW h \in Harbor, MarkFailed(a, h) PROVE Goal
  <2>1. harbor' = harbor /\ placement' = [placement EXCEPT ![h].status = "FAILED"]
    BY <1>14, <1>a DEF MarkFailed, Working
  <2> QED
    BY <1>a, <2>1 DEF Goal, Placement
<1>15. ASSUME NEW h \in Harbor, NEW id \in Nat \ {0}, Inspect(a, h, id) PROVE Goal
  BY <1>15 DEF Inspect, Goal
<1>16. ASSUME NEW h \in Harbor, NEW id \in Nat \ {0}, InspectRefused(a, h, id) PROVE Goal
  BY <1>16 DEF InspectRefused, Goal
<1>17. ASSUME NEW h \in Harbor, NEW id \in Nat \ {0}, RemoveReached(a, h, id) PROVE Goal
  BY <1>17, <1>a DEF RemoveReached, Deleted, NoProject, Goal
<1>18. ASSUME NEW h \in Harbor, NEW id \in Nat \ {0}, RemoveRefused(a, h, id) PROVE Goal
  BY <1>18, <1>a DEF RemoveRefused, HarborProject, Goal
<1>19. ASSUME NEW h \in Harbor, NEW id \in Nat \ {0}, RemoveFailed(a, h, id) PROVE Goal
  BY <1>19 DEF RemoveFailed, Goal
<1>20. ASSUME NEW h \in Harbor, NEW id \in Nat \ {0}, EnqueueDelete(a, h, id) PROVE Goal
  BY <1>20 DEF EnqueueDelete, Goal
<1> QED
  BY <1>1, <1>2, <1>3, <1>4, <1>5, <1>6, <1>7, <1>8, <1>9, <1>10, <1>11, <1>12, <1>13, <1>14,
     <1>15, <1>16, <1>17, <1>18, <1>19, <1>20, RemovalCases DEF Activation, ApartInv

\* A deletion under way has read the placements again, called a Harbor, queued
\* for one, or forgotten the creations.
LEMMA RemovingStep ==
  ASSUME TypeInv, NEW a \in Admin, Activation(a) \/ Removal(a) \/ Crash(a),
         hand'[a].pc \in {"remove", "unrow"}
  PROVE  \/ Inspected(a) \/ Forget(a)
         \/ \E h \in Harbor, id \in Nat \ {0} :
              \/ RemoveReached(a, h, id) \/ RemoveRefused(a, h, id) \/ RemoveFailed(a, h, id)
              \/ EnqueueDelete(a, h, id)
<1>a. hand \in [Admin -> Hand] /\ hand[a] \in Hand
  BY DEF TypeInv, TypeOK
<1>i. IdleHand.pc = "idle"
  BY DEF IdleHand
<1>1. ~RequestByAdmin(a) /\ ~Approve(a) /\ ~Reject(a) /\ ~Delete(a)
  BY <1>a DEF RequestByAdmin, Approve, Reject, Delete, Activate, IdleHand
<1>2. ~Activated(a) /\ ~RejectWrite(a) /\ ~Unrow(a) /\ ~Crash(a)
  BY <1>a, <1>i DEF Activated, RejectWrite, Unrow, Crash, Answer
<1>3. ~Enqueue(a)
  BY <1>a DEF Enqueue, Hand
<1>4. ASSUME NEW h \in Harbor, SyncReached(a, h) \/ SyncFailed(a, h) \/ MarkFailed(a, h)
      PROVE  FALSE
  <2>1. CASE SyncReached(a, h)
    <3>1. hand'[a].pc = "sync"
      <4>1. CASE Alive(hand[a].gen)
        BY <1>a, <2>1, <4>1 DEF SyncReached, Hand
      <4>2. CASE ~Alive(hand[a].gen)
        BY <1>a, <2>1, <4>2 DEF SyncReached, Hand
      <4> QED
        BY <4>1, <4>2
    <3> QED
      BY <3>1
  <2>2. CASE SyncFailed(a, h)
    BY <1>a, <2>2 DEF SyncFailed, Hand
  <2>3. CASE MarkFailed(a, h)
    <3>1. CASE Alive(hand[a].gen)
      BY <1>a, <2>3, <3>1 DEF MarkFailed, Hand
    <3>2. CASE ~Alive(hand[a].gen)
      BY <1>a, <1>i, <2>3, <3>2 DEF MarkFailed, Answer
    <3> QED
      BY <3>1, <3>2
  <2> QED
    BY <1>4, <2>1, <2>2, <2>3
<1>5. ASSUME NEW h \in Harbor, NEW id \in Nat \ {0}, Inspect(a, h, id) \/ InspectRefused(a, h, id)
      PROVE  FALSE
  BY <1>5, <1>a, <1>i DEF Inspect, InspectRefused, Answer, Hand
<1> QED
  BY <1>1, <1>2, <1>3, <1>4, <1>5, RemovalCases DEF Activation


\* What is settled stays so while its Harbor is left alone and deletions stay queued.
LEMMA SettledStays ==
  ASSUME NEW h \in Harbor, Settled(h),
         harbor'[h] = harbor[h] \/ ~harbor'[h].there \/ harbor'[h].told,
         \A op \in queue : op.kind = "PROJECT_DELETE" => op \in queue'
  PROVE  Settled(h)'
<1>1. CASE harbor'[h] = harbor[h]
  BY <1>1 DEF Settled, Owes, Subject
<1>2. CASE ~harbor'[h].there \/ harbor'[h].told
  BY <1>2 DEF Settled
<1> QED
  BY <1>1, <1>2

\* A deletion keeps an eye on all that is not settled.
LEMMA RemovingKeeps ==
  ASSUME Sorts, Apart, ~AnswersLost, DeletedInv, NEW a \in Admin,
         Activation(a) \/ Removal(a) \/ Crash(a),
         hand'[a].pc \in {"remove", "unrow"}, NEW x \in Harbor
  PROVE  Settled(x)' \/ <<x, harbor'[x].id>> \in hand'[a].todo \union hand'[a].failed
<1>a. /\ hand \in [Admin -> Hand] /\ hand[a] \in Hand /\ HandOK(hand[a])
      /\ harbor \in [Harbor -> HarborProject] /\ placement \in [Harbor -> Placement]
      /\ nextId \in Nat
  BY DEF DeletedInv, ApartInv, TypeInv, TypeOK
<1>i. /\ harbor[x].there => harbor[x].id # 0
      /\ Settled(x) \/ placement[x].id = harbor[x].id
      /\ hand[a].pc = "remove" => Settled(x) \/ <<x, harbor[x].id>> \in hand[a].todo \union hand[a].failed
  BY DEF DeletedInv, ApartInv, IdsAreTrue, SettledOrKnown, Pending
<1>q. \A op \in queue : op.kind = "PROJECT_DELETE" => op \in queue'
  BY QueueStep DEF DeletedInv, ApartInv, QueueChanges, Subject
<1>s. ASSUME Settled(x), harbor'[x] = harbor[x] \/ ~harbor'[x].there \/ harbor'[x].told
      PROVE  Settled(x)'
  BY <1>q, <1>s, SettledStays
<1>n. ~harbor'[x].there \/ harbor'[x].told => Settled(x)'
  BY DEF Settled
<1> DEFINE Goal == Settled(x)' \/ <<x, harbor'[x].id>> \in hand'[a].todo \union hand'[a].failed
<1> SUFFICES Goal
  OBVIOUS
<1>1. CASE Inspected(a)
  <2>1. harbor' = harbor /\ queue' = queue /\ hand'[a].todo = Known
    BY <1>1, <1>a DEF Inspected, Hand
  <2>2. CASE Settled(x)
    BY <1>s, <2>1, <2>2
  <2>3. CASE ~Settled(x)
    <3>1. harbor[x].there /\ placement[x].id = harbor[x].id /\ placement[x].id # 0
      BY <1>i, <2>3 DEF Settled
    <3>2. <<x, harbor[x].id>> \in Known
      BY <3>1 DEF Known
    <3> QED
      BY <2>1, <3>2
  <2> QED
    BY <2>2, <2>3
<1>2. CASE Forget(a)
  <2>1. harbor' = harbor /\ hand[a].pc = "remove" /\ hand[a].todo = {} /\ hand[a].failed = {}
    BY <1>2 DEF Forget, Called
  <2> QED
    BY <1>i, <1>s, <2>1
<1>3. ASSUME NEW h \in Harbor, NEW id \in Nat \ {0}, RemoveReached(a, h, id) PROVE Goal
  <2>1. /\ hand[a].pc = "remove" /\ hand'[a].todo = hand[a].todo \ {<<h, id>>}
        /\ hand'[a].failed = hand[a].failed /\ harbor' = [harbor EXCEPT ![h] = Deleted(h, id)]
    BY <1>3, <1>a DEF RemoveReached, Hand
  <2>2. CASE x = h /\ harbor[h].there /\ harbor[h].id = id
    BY <1>a, <1>n, <2>1, <2>2 DEF Deleted, NoProject
  <2>3. CASE ~(x = h /\ harbor[h].there /\ harbor[h].id = id)
    <3>1. harbor'[x] = harbor[x]
      BY <1>a, <2>1, <2>3 DEF Deleted
    <3>2. CASE Settled(x)
      BY <1>s, <3>1, <3>2
    <3>3. CASE ~Settled(x)
      <4>1. harbor[x].there /\ <<x, harbor[x].id>> \in hand[a].todo \union hand[a].failed
        BY <1>i, <2>1, <3>3 DEF Settled
      <4>2. <<x, harbor[x].id>> # <<h, id>>
        BY <2>3, <4>1
      <4> QED
        BY <2>1, <3>1, <4>1, <4>2
    <3> QED
      BY <3>2, <3>3
  <2> QED
    BY <2>2, <2>3
<1>4. ASSUME NEW h \in Harbor, NEW id \in Nat \ {0}, RemoveRefused(a, h, id) PROVE Goal
  <2>1. /\ hand[a].pc = "remove" /\ hand'[a].todo = hand[a].todo \ {<<h, id>>}
        /\ hand'[a].failed = hand[a].failed /\ harbor' = [harbor EXCEPT ![h].told = TRUE]
    BY <1>4, <1>a DEF RemoveRefused, Hand
  <2>2. CASE x = h
    BY <1>a, <1>n, <2>1, <2>2 DEF HarborProject
  <2>3. CASE x # h
    <3>1. harbor'[x] = harbor[x]
      BY <1>a, <2>1, <2>3
    <3>2. <<x, harbor[x].id>> # <<h, id>>
      BY <2>3
    <3> QED
      BY <1>i, <1>s, <2>1, <3>1, <3>2
  <2> QED
    BY <2>2, <2>3
<1>5. ASSUME NEW h \in Harbor, NEW id \in Nat \ {0}, RemoveFailed(a, h, id) PROVE Goal
  <2>1. /\ hand[a].pc = "remove" /\ hand'[a].todo = hand[a].todo \ {<<h, id>>}
        /\ hand'[a].failed = hand[a].failed \union {<<h, id>>} /\ harbor' = harbor
    BY <1>5, <1>a DEF RemoveFailed, Hand
  <2> QED
    BY <1>i, <1>s, <2>1
<1>6. ASSUME NEW h \in Harbor, NEW id \in Nat \ {0}, EnqueueDelete(a, h, id) PROVE Goal
  <2>1. /\ hand[a].pc = "remove" /\ hand'[a].todo = hand[a].todo
        /\ hand'[a].failed = hand[a].failed \ {<<h, id>>} /\ harbor' = harbor
        /\ Row(nextId, h, "PROJECT_DELETE", id) \in queue'
    BY <1>6, <1>a DEF EnqueueDelete, Hand
  <2>2. CASE x = h /\ harbor[x].id = id
    BY <2>1, <2>2 DEF Settled, Owes, Subject, Row
  <2>3. CASE ~(x = h /\ harbor[x].id = id)
    <3>1. <<x, harbor[x].id>> # <<h, id>>
      BY <2>3
    <3> QED
      BY <1>i, <1>s, <2>1, <3>1
  <2> QED
    BY <2>2, <2>3
<1> QED
  BY <1>1, <1>2, <1>3, <1>4, <1>5, <1>6, RemovingStep DEF DeletedInv, ApartInv

\* A handler's step loses sight of nothing.
LEMMA DeletedHandler ==
  ASSUME Sorts, Apart, ~AnswersLost, DeletedInv, NEW a \in Admin,
         Activation(a) \/ Removal(a) \/ Crash(a)
  PROVE  DeletedInv'
<1>i. TypeInv /\ ApartInv /\ OneAtATime /\ SettledOrKnown
  BY DEF DeletedInv, ApartInv
<1>p. ApartInv'
  BY <1>i, ApartHandler
<1>h. \A b \in Admin : b # a => hand'[b] = hand[b]
  BY <1>i, HandStep
<1>q. \A op \in queue : op.kind = "PROJECT_DELETE" => op \in queue'
  BY <1>i, QueueStep DEF QueueChanges, Subject
<1>1. ASSUME NEW x \in Harbor PROVE Settled(x)' \/ placement'[x].id = harbor'[x].id
  <2>1. CASE Unrow(a) /\ hand[a].pc = "unrow" /\ harbor'[x] = harbor[x]
    <3>1. Settled(x)
      BY <1>i, <2>1 DEF SettledOrKnown, Pending
    <3> QED
      BY <1>q, <2>1, <3>1, SettledStays
  <2>2. CASE placement'[x].id = placement[x].id /\ harbor'[x] = harbor[x]
    <3>1. Settled(x) \/ placement[x].id = harbor[x].id
      BY <1>i DEF SettledOrKnown
    <3>2. Settled(x) => Settled(x)'
      BY <1>q, <2>2, SettledStays
    <3> QED
      BY <2>2, <3>1, <3>2
  <2>3. CASE ~harbor'[x].there \/ harbor'[x].told
    BY <2>3 DEF Settled
  <2> QED
    BY <1>i, <2>1, <2>2, <2>3, KnownStep
<1>2. ASSUME NEW b \in Admin, NEW x \in Harbor, hand'[b].pc \in {"remove", "unrow"}
      PROVE  Settled(x)' \/ <<x, harbor'[x].id>> \in hand'[b].todo \union hand'[b].failed
  <2>1. CASE b = a
    BY <1>2, <2>1, RemovingKeeps
  <2>2. CASE b # a
    <3>1. hand'[b] = hand[b] /\ hand[a].pc \notin Working
      BY <1>h, <1>i, <1>2, <2>2 DEF OneAtATime, Working, Deleting
    <3>2. harbor'[x] = harbor[x]
      BY <1>i, <3>1, HarborStep DEF Working, Deleting
    <3>3. Settled(x) \/ <<x, harbor[x].id>> \in hand[b].todo \union hand[b].failed
      BY <1>i, <1>2, <3>1 DEF SettledOrKnown, Pending
    <3>4. Settled(x) => Settled(x)'
      BY <1>q, <3>2, SettledStays
    <3> QED
      BY <3>1, <3>2, <3>3, <3>4
  <2> QED
    BY <2>1, <2>2
<1>3. ASSUME NEW b \in Admin, hand'[b].pc = "unrow"
      PROVE  hand'[b].todo = {} /\ hand'[b].failed = {}
  <2>1. CASE b = a
    <3>1. Forget(a) /\ hand \in [Admin -> Hand]
      BY <1>i, <1>3, <2>1, HandStep DEF TypeInv, TypeOK
    <3> QED
      BY <2>1, <3>1 DEF Forget, Called, Hand
  <2>2. CASE b # a
    BY <1>h, <1>i, <1>3, <2>2 DEF SettledOrKnown
  <2> QED
    BY <2>1, <2>2
<1>4. SettledOrKnown'
  BY <1>1, <1>2, <1>3 DEF SettledOrKnown, Pending
<1> QED
  BY <1>p, <1>4 DEF DeletedInv

\* A step of the pass, or of the people, loses sight of nothing.
LEMMA DeletedOthers ==
  ASSUME Sorts, Apart, ~AnswersLost, DeletedInv,
         RequestByUser \/ (\E h \in Harbor : PassStart(h) \/ Push(h)) \/ Replay
  PROVE  DeletedInv'
<1>i. TypeInv /\ ApartInv /\ OneAtATime /\ IdsAreTrue /\ SettledOrKnown
  BY DEF DeletedInv, ApartInv
<1>p. ApartInv'
  BY <1>i, ApartOthers
<1>s. /\ harbor \in [Harbor -> HarborProject] /\ placement \in [Harbor -> Placement]
      /\ PassOK(pass) /\ pass \in Pass
  BY <1>i DEF TypeInv, TypeOK
<1> DEFINE Stays == (\A x \in Harbor : Settled(x) => Settled(x)') /\ hand' = hand
                    /\ \A x \in Harbor : harbor'[x].id = harbor[x].id
                                         /\ placement'[x].id = placement[x].id
           AtRest == (\A a \in Admin : hand[a].pc \notin Working) /\ hand' = hand
                    /\ \A x \in Harbor : Settled(x)' \/ placement'[x].id = harbor'[x].id
<1>l. AtRest => SettledOrKnown'
  BY DEF SettledOrKnown, Working, Deleting
<1>e. Stays => SettledOrKnown'
  <2> SUFFICES ASSUME Stays PROVE SettledOrKnown'
    OBVIOUS
  <2>1. \A x \in Harbor : Settled(x)' \/ placement'[x].id = harbor'[x].id
    BY <1>i DEF SettledOrKnown
  <2>2. ASSUME NEW a \in Admin, NEW x \in Harbor, hand'[a].pc \in {"remove", "unrow"}
        PROVE  Settled(x)' \/ <<x, harbor'[x].id>> \in hand'[a].todo \union hand'[a].failed
    BY <1>i, <2>2 DEF SettledOrKnown, Pending
  <2>3. \A a \in Admin : hand'[a].pc = "unrow" => hand'[a].todo = {} /\ hand'[a].failed = {}
    BY <1>i DEF SettledOrKnown
  <2> QED
    BY <2>1, <2>2, <2>3 DEF SettledOrKnown, Pending
<1>w. pass.at # None => \A a \in Admin : hand[a].pc \notin Working
  BY <1>i DEF OneAtATime
<1>k. \A x \in Harbor : Settled(x) \/ placement[x].id = harbor[x].id
  BY <1>i DEF SettledOrKnown
<1>u. harbor' = harbor /\ queue' = queue => \A x \in Harbor : Settled(x) => Settled(x)'
  BY DEF Settled, Owes, Subject
<1>1. CASE RequestByUser
  <2>1. harbor' = harbor /\ placement' = placement /\ hand' = hand /\ queue' = queue
    BY <1>1 DEF RequestByUser, Request
  <2> QED
    BY <1>e, <1>p, <1>u, <2>1 DEF DeletedInv
<1>2. ASSUME NEW h \in Harbor, PassStart(h) PROVE SettledOrKnown'
  <2>1. harbor' = harbor /\ placement' = placement /\ hand' = hand /\ queue' = queue
    BY <1>2 DEF PassStart
  <2> QED
    BY <1>e, <1>u, <2>1
<1>3. ASSUME NEW h \in Harbor, Push(h) PROVE SettledOrKnown'
  <2>1. /\ placement' = placement /\ hand' = hand /\ queue' = queue
        /\ harbor' = [harbor EXCEPT ![h] = [harbor[h] EXCEPT !.filled = ~harbor[h].filled]]
    BY <1>3 DEF Push
  <2>2. ASSUME NEW x \in Harbor
        PROVE  /\ harbor'[x].id = harbor[x].id /\ harbor'[x].there = harbor[x].there
               /\ harbor'[x].ours = harbor[x].ours /\ harbor'[x].told = harbor[x].told
    BY <1>s, <2>1 DEF HarborProject
  <2>3. ASSUME NEW x \in Harbor, Settled(x) PROVE Settled(x)'
    BY <2>1, <2>2, <2>3 DEF Settled, Owes, Subject
  <2> QED
    BY <1>e, <2>1, <2>2, <2>3
<1>4. ASSUME NEW op \in pass.ops, PassTake(op) PROVE SettledOrKnown'
  <2>1. harbor' = harbor /\ placement' = placement /\ hand' = hand /\ queue' = queue
    BY <1>4 DEF PassTake
  <2> QED
    BY <1>e, <1>u, <2>1
<1>5. ASSUME PassCreate PROVE SettledOrKnown'
  <2>1. /\ pass.at # None /\ Alive(pass.at.key) /\ pass.registry \in Harbor
        /\ harbor' = [harbor EXCEPT ![pass.registry] = Created(pass.registry)]
    BY <1>5, <1>i, <1>s DEF PassCreate, PassOK, OneAtATime
  <2>2. /\ placement' = [placement EXCEPT ![pass.registry] =
                           [id |-> harbor'[pass.registry].id, status |-> "ACTIVE"]]
        /\ hand' = hand /\ queue' = queue
    BY <1>5, <2>1 DEF PassCreate, Placed
  <2>3. ASSUME NEW x \in Harbor PROVE Settled(x)' \/ placement'[x].id = harbor'[x].id
    <3>1. CASE x = pass.registry
      BY <1>s, <2>1, <2>2, <3>1
    <3>2. CASE x # pass.registry
      <4>1. harbor'[x] = harbor[x] /\ placement'[x] = placement[x]
        BY <1>s, <2>1, <2>2, <3>2
      <4>2. Settled(x) => Settled(x)'
        BY <2>2, <4>1, SettledStays
      <4> QED
        BY <1>k, <4>1, <4>2
    <3> QED
      BY <3>1, <3>2
  <2> QED
    BY <1>l, <1>w, <2>1, <2>2, <2>3
<1>6. ASSUME PassCreateFails PROVE SettledOrKnown'
  <2>1. /\ harbor' = harbor /\ hand' = hand /\ queue' = queue
        /\ placement' = placement \/ placement' = [placement EXCEPT ![pass.registry].status = "FAILED"]
    BY <1>6 DEF PassCreateFails
  <2>2. \A x \in Harbor : placement'[x].id = placement[x].id
    BY <1>s, <2>1 DEF Placement
  <2> QED
    BY <1>e, <1>u, <2>1, <2>2
<1>7. ASSUME PassRemove PROVE SettledOrKnown'
  <2>1. /\ pass.at # None /\ pass.registry \in Harbor
        /\ harbor' = [harbor EXCEPT ![pass.registry] = Deleted(pass.registry, pass.at.key)]
        /\ placement' = placement /\ hand' = hand /\ queue' = queue
    BY <1>7, <1>s DEF PassRemove, PassOK
  <2>2. ASSUME NEW x \in Harbor PROVE Settled(x)' \/ placement'[x].id = harbor'[x].id
    <3>1. CASE harbor'[x] = harbor[x]
      <4>1. Settled(x) => Settled(x)'
        BY <2>1, <3>1, SettledStays
      <4> QED
        BY <1>k, <2>1, <3>1, <4>1
    <3>2. CASE harbor'[x] # harbor[x]
      <4>1. x = pass.registry /\ harbor'[x] = [NoProject EXCEPT !.id = pass.at.key]
        BY <1>s, <2>1, <3>2 DEF Deleted
      <4>2. ~harbor'[x].there
        BY <4>1 DEF NoProject
      <4> QED
        BY <4>2 DEF Settled
    <3> QED
      BY <3>1, <3>2
  <2> QED
    BY <1>l, <1>w, <2>1, <2>2
<1>8. ASSUME PassDelete PROVE SettledOrKnown'
  <2>1. /\ pass.at # None /\ pass.registry \in Harbor /\ pass.at \in pass.ops
        /\ pass.at.registry = pass.registry
        /\ harbor' = harbor /\ placement' = placement /\ hand' = hand /\ queue' = queue \ {pass.at}
    BY <1>8, <1>s DEF PassDelete, PassOK
  <2>2. pass.at.kind = "PROJECT_DELETE" =>
          ~(harbor[pass.registry].there /\ harbor[pass.registry].id = pass.at.key)
    BY <1>8, <1>i DEF PassDelete, IdsAreTrue
  <2>3. ASSUME NEW x \in Harbor, Settled(x) PROVE Settled(x)'
    <3>1. SUFFICES ASSUME harbor[x].there, harbor[x].ours, ~harbor[x].told
                   PROVE  \E op \in queue' : /\ op.registry = x /\ op.key = harbor[x].id
                                             /\ op.kind = "PROJECT_DELETE"
      BY <2>1 DEF Settled, Owes, Subject
    <3>2. PICK op \in queue : /\ op.registry = x /\ op.key = harbor[x].id
                              /\ op.kind = "PROJECT_DELETE"
      BY <2>3, <3>1 DEF Settled, Owes, Subject
    <3>3. op # pass.at
      BY <2>1, <2>2, <3>1, <3>2
    <3> QED
      BY <2>1, <3>2, <3>3
  <2> QED
    BY <1>e, <2>1, <2>3
<1>9. ASSUME PassEnds PROVE SettledOrKnown'
  <2>1. harbor' = harbor /\ placement' = placement /\ hand' = hand /\ queue' = queue
    BY <1>9 DEF PassEnds
  <2> QED
    BY <1>e, <1>u, <2>1
<1> HIDE DEF Stays, AtRest
<1> QED
  BY <1>p, <1>1, <1>2, <1>3, <1>4, <1>5, <1>6, <1>7, <1>8, <1>9 DEF Replay, DeletedInv

\* A deleted project is on no Harbor but those owed its deletion and those reported
\* as not empty, and no Harbor is owed its creation: when activations, deletions and
\* replays do not overlap and answers are not lost (delete.ts, projects.ts,
\* reconcile.ts).  DeletedInv needs only that the placements of a row know, and a
\* deletion under way still holds, every project that is not settled.
THEOREM DeletedHolds ==
  ASSUME Sorts, Apart, ~AnswersLost
  PROVE  Spec => []DeletedIsOwed
<1>1. Init => DeletedInv
  <2> SUFFICES ASSUME Init PROVE DeletedInv
    OBVIOUS
  <2>1. ApartInv
    BY ApartInit
  <2>2. \A a \in Admin : hand[a].pc = "idle"
    BY DEF Init, IdleHand
  <2>3. ASSUME NEW h \in Harbor PROVE Settled(h)
    <3>1. CASE harbor[h] = NoProject
      BY <3>1 DEF NoProject, Settled
    <3>2. CASE harbor[h] = [NoProject EXCEPT !.id = 1, !.there = TRUE]
      BY <3>2 DEF NoProject, Settled
    <3> QED
      BY <3>1, <3>2 DEF Init
  <2> QED
    BY <2>1, <2>2, <2>3 DEF DeletedInv, SettledOrKnown
<1>2. DeletedInv /\ [Next]_vars => DeletedInv'
  <2> SUFFICES ASSUME DeletedInv, [Next]_vars PROVE DeletedInv'
    OBVIOUS
  <2>1. CASE UNCHANGED vars
    <3>1. ApartInv'
      BY <2>1, ApartStep DEF DeletedInv
    <3>2. SettledOrKnown'
      BY <2>1 DEF DeletedInv, vars, SettledOrKnown, Settled, Pending, Owes, Subject
    <3> QED
      BY <3>1, <3>2 DEF DeletedInv
  <2> QED
    BY <2>1, DeletedHandler, DeletedOthers DEF Next
<1>3. DeletedInv => DeletedIsOwed
  <2> SUFFICES ASSUME DeletedInv, project.status = "GONE", NEW h \in Harbor
               PROVE  /\ Settled(h)
                      /\ \A op \in Owed(queue, h) : op.kind = "PROJECT_DELETE"
    BY DEF DeletedIsOwed, Settled
  <2>1. placement[h].id = 0
    BY DEF DeletedInv, ApartInv, IdsAreTrue, NoPlacement
  <2>2. Settled(h) \/ placement[h].id = harbor[h].id
    BY DEF DeletedInv, SettledOrKnown
  <2>3. harbor[h].there => harbor[h].id # 0
    BY DEF DeletedInv, ApartInv, IdsAreTrue
  <2>4. Settled(h)
    BY <2>1, <2>2, <2>3 DEF Settled
  <2>5. ASSUME NEW op \in queue PROVE op.kind = "PROJECT_DELETE"
    <3>1. op.kind # "PROJECT_CREATE"
      BY DEF DeletedInv, ApartInv, CreationsAreTrue, Alive
    <3>2. op.kind \in Kind
      BY DEF DeletedInv, ApartInv, TypeInv, TypeOK, Op
    <3> QED
      BY <3>1, <3>2 DEF Kind
  <2> QED
    BY <2>4, <2>5 DEF Owed
<1> QED
  BY <1>1, <1>2, <1>3, PTL DEF Spec

-----------------------------------------------------------------------------
(* Activity, in every interleaving.                                        *)

Holds(h) == harbor[h].there /\ harbor[h].id = placement[h].id

\* The row there is has not begun to be deleted.
Whole ==
  /\ project.status # "GONE" /\ ~torn
  /\ \A a \in Admin : hand[a].pc \notin {"remove", "unrow"}

OwesCreation(h) == Owes(h, "PROJECT_CREATE", project.gen)
HeldOrOwed(h) == Holds(h) \/ OwesCreation(h)

\* An activation has still to call the Harbor, to mark it, or to queue for it.
OnItsWay(a, h) ==
  \/ hand[a].pc = "enqueue" /\ h = hand[a].at
  \/ <<h, 0>> \in hand[a].todo \union hand[a].failed

\* Nobody is ahead of the row there is, and one that has gone has no placement.
KeysArePast ==
  /\ \A op \in queue \union pass.ops : op.kind = "PROJECT_CREATE" => op.key <= project.gen
  /\ \A a \in Admin : hand[a].pc \in {"sync", "enqueue"} => hand[a].gen <= project.gen
  /\ project.status = "GONE" => \A h \in Harbor : placement[h].id = 0

\* No deletion is owed to a Harbor: the name has waited for it.
OnlyCreations == \A op \in queue : op.kind = "PROJECT_CREATE"

PlacedIsHeld == \A h \in Harbor : placement[h].id # 0 => Holds(h)

\* However many activate the row, each of them accounts for every Harbor.
ActivationIsHeld ==
  \A a \in Admin : hand[a].pc \in {"sync", "enqueue"} /\ hand[a].gen = project.gen =>
    /\ hand[a].reached => \E h \in Harbor : Holds(h)
    /\ \A h \in Harbor : HeldOrOwed(h) \/ OnItsWay(a, h)

ActiveIsThere ==
  project.status = "ACTIVE" => (\E h \in Harbor : Holds(h)) /\ \A h \in Harbor : HeldOrOwed(h)

\* A creation whose replay is done is held.
ReplayIsHeld ==
  pass.pc = "delete" /\ pass.at.kind = "PROJECT_CREATE" /\ pass.at.key = project.gen =>
    Holds(pass.registry)

HeldSoFar ==
  OnlyCreations /\ PlacedIsHeld /\ ActivationIsHeld /\ ActiveIsThere /\ ReplayIsHeld

PastInv == TypeInv /\ DeletionsAreQueued /\ KeysArePast

HeldInv == PastInv /\ (Whole => HeldSoFar)

\* A row is whole once it is asked for, and until a deletion removes it somewhere.
LEMMA WholeStep ==
  ASSUME TypeInv, NEW a \in Admin, Activation(a) \/ Removal(a) \/ Crash(a), Whole'
  PROVE  Whole \/ RequestByAdmin(a)
<1>a. hand \in [Admin -> Hand] /\ hand[a] \in Hand
  BY DEF TypeInv, TypeOK
<1> DEFINE Under == {"remove", "unrow"}
           Goal == \/ Unrow(a)
                   \/ Crash(a) /\ torn' = (torn \/ hand[a].pc \in Under)
                   \/ torn' = torn /\ (hand[a].pc \in Under => hand'[a].pc \in Under)
<1>g. Goal
  <2> SUFFICES Goal
    OBVIOUS
  <2> HIDE DEF Goal
  <2>1. CASE RequestByAdmin(a)
    BY <2>1 DEF RequestByAdmin, Request, Goal
  <2>2. CASE Approve(a)
    BY <2>2 DEF Approve, Goal
  <2>3. CASE Enqueue(a)
    BY <2>3 DEF Enqueue, Goal
  <2>4. CASE Activated(a)
    BY <2>4 DEF Activated, Goal
  <2>5. CASE Reject(a)
    BY <2>5 DEF Reject, Goal
  <2>6. CASE RejectWrite(a)
    BY <2>6 DEF RejectWrite, Goal
  <2>7. CASE Delete(a)
    BY <2>7 DEF Delete, Goal
  <2>8. CASE Inspected(a)
    BY <2>8, <1>a DEF Inspected, Goal, Hand
  <2>9. CASE Forget(a)
    BY <2>9, <1>a DEF Forget, Goal, Hand
  <2>10. CASE Unrow(a)
    BY <2>10 DEF Unrow, Goal
  <2>11. CASE Crash(a)
    BY <2>11 DEF Crash, Goal
  <2>12. ASSUME NEW h \in Harbor, SyncReached(a, h) PROVE Goal
    BY <2>12 DEF SyncReached, Goal
  <2>13. ASSUME NEW h \in Harbor, SyncFailed(a, h) PROVE Goal
    BY <2>13 DEF SyncFailed, Goal
  <2>14. ASSUME NEW h \in Harbor, MarkFailed(a, h) PROVE Goal
    BY <2>14 DEF MarkFailed, Goal
  <2>15. ASSUME NEW h \in Harbor, NEW id \in Nat \ {0}, Inspect(a, h, id) PROVE Goal
    BY <2>15 DEF Inspect, Goal
  <2>16. ASSUME NEW h \in Harbor, NEW id \in Nat \ {0}, InspectRefused(a, h, id) PROVE Goal
    BY <2>16 DEF InspectRefused, Goal
  <2>17. ASSUME NEW h \in Harbor, NEW id \in Nat \ {0}, RemoveReached(a, h, id) PROVE Goal
    BY <2>17, <1>a DEF RemoveReached, Goal, Hand
  <2>18. ASSUME NEW h \in Harbor, NEW id \in Nat \ {0}, RemoveRefused(a, h, id) PROVE Goal
    BY <2>18, <1>a DEF RemoveRefused, Goal, Hand
  <2>19. ASSUME NEW h \in Harbor, NEW id \in Nat \ {0}, RemoveFailed(a, h, id) PROVE Goal
    BY <2>19, <1>a DEF RemoveFailed, Goal, Hand
  <2>20. ASSUME NEW h \in Harbor, NEW id \in Nat \ {0}, EnqueueDelete(a, h, id) PROVE Goal
    BY <2>20, <1>a DEF EnqueueDelete, Goal, Hand
  <2> QED
    BY <2>1, <2>2, <2>3, <2>4, <2>5, <2>6, <2>7, <2>8, <2>9, <2>10, <2>11, <2>12, <2>13, <2>14,
       <2>15, <2>16, <2>17, <2>18, <2>19, <2>20, RemovalCases DEF Activation
<1>p. \/ project' = project
      \/ project.status = "GONE" /\ RequestByAdmin(a)
      \/ project.status # "GONE"
      \/ Unrow(a) /\ project'.status = "GONE"
  BY ProjectStep
<1>w. project'.status # "GONE" /\ ~torn' /\ \A b \in Admin : hand'[b].pc \notin Under
  BY DEF Whole
<1>h. \A b \in Admin : b # a => hand'[b] = hand[b]
  BY HandStep
<1>1. ~Unrow(a)
  BY <1>w DEF Unrow, TypeInv, TypeOK
<1>2. ~torn /\ hand[a].pc \notin Under
  <2>1. CASE torn' = (torn \/ hand[a].pc \in Under)
    BY <1>w, <2>1
  <2>2. CASE torn' = torn /\ (hand[a].pc \in Under => hand'[a].pc \in Under)
    BY <1>w, <2>2
  <2> QED
    BY <1>1, <1>g, <2>1, <2>2
<1> HIDE DEF Goal
<1> QED
  BY <1>1, <1>2, <1>h, <1>p, <1>w DEF Whole

\* The steps of an activation.
LEMMA SyncStep ==
  ASSUME NEW a \in Admin, Activation(a) \/ Removal(a) \/ Crash(a),
         TypeInv, hand[a].pc \in {"sync", "enqueue"}
  PROVE  \/ Enqueue(a) \/ Activated(a) \/ Crash(a)
         \/ \E h \in Harbor : SyncReached(a, h) \/ SyncFailed(a, h) \/ MarkFailed(a, h)
<1>1. ~RequestByAdmin(a) /\ ~Approve(a) /\ ~Reject(a) /\ ~RejectWrite(a) /\ ~Delete(a)
      /\ ~Inspected(a) /\ ~Forget(a) /\ ~Unrow(a)
  BY DEF RequestByAdmin, Approve, Reject, RejectWrite, Delete, Inspected, Forget, Unrow
<1>2. ASSUME NEW h \in Harbor, NEW id \in Nat \ {0}
      PROVE  /\ ~Inspect(a, h, id) /\ ~InspectRefused(a, h, id) /\ ~RemoveReached(a, h, id)
             /\ ~RemoveRefused(a, h, id) /\ ~RemoveFailed(a, h, id) /\ ~EnqueueDelete(a, h, id)
  BY DEF Inspect, InspectRefused, RemoveReached, RemoveRefused, RemoveFailed, EnqueueDelete
<1> QED
  BY <1>1, <1>2, RemovalCases DEF Activation

\* Once queued, a creation is owed.
LEMMA CreationQueued ==
  ASSUME NEW h, NEW key, queue' = EnqueueOnce(queue, nextId, h, "PROJECT_CREATE", key)
  PROVE  /\ queue \subseteq queue'
         /\ \E op \in queue' : op.registry = h /\ op.kind = "PROJECT_CREATE" /\ op.key = key
<1>1. CASE Subject(queue, h, {"PROJECT_CREATE"}, key) # {}
  BY <1>1 DEF EnqueueOnce, Subject
<1>2. CASE Subject(queue, h, {"PROJECT_CREATE"}, key) = {}
  <2>1. queue' = queue \union {Row(nextId, h, "PROJECT_CREATE", key)}
    BY <1>2 DEF EnqueueOnce
  <2>2. /\ Row(nextId, h, "PROJECT_CREATE", key).registry = h
        /\ Row(nextId, h, "PROJECT_CREATE", key).kind = "PROJECT_CREATE"
        /\ Row(nextId, h, "PROJECT_CREATE", key).key = key
    BY DEF Row
  <2> QED
    BY <2>1, <2>2
<1> QED
  BY <1>1, <1>2

\* A handler queues nothing for a row to come, takes no deletion off the queue, and
\* leaves a row that has gone no placement.
LEMMA PastHandler ==
  ASSUME Sorts, PastInv, NEW a \in Admin, Activation(a) \/ Removal(a) \/ Crash(a)
  PROVE  PastInv'
<1>i. TypeInv /\ TypeInv' /\ DeletionsAreQueued /\ KeysArePast
  BY TypeHandler DEF PastInv
<1>s. /\ project \in [gen : 0..MaxProjects, status : Status] /\ project.gen \in Nat
      /\ hand \in [Admin -> Hand] /\ queue \subseteq Op /\ pass \in Pass
      /\ \A op \in queue \union pass.ops : op.key \in Nat
  BY <1>i DEF TypeInv, TypeOK, Pass, Op
<1>h. pass' = pass /\ \A b \in Admin : b # a => hand'[b] = hand[b]
  BY <1>i, HandStep
<1>p. project'.gen = project.gen \/ project'.gen = project.gen + 1
  BY <1>i, ProjectStep
<1>q. QueueChanges(a)
  BY <1>i, QueueStep
<1>1. DeletionsAreQueued'
  <2>1. ASSUME NEW op \in queue, op.kind = "PROJECT_DELETE" PROVE op \in queue'
    BY <1>q, <2>1 DEF QueueChanges, Subject
  <2> QED
    BY <1>h, <1>i, <2>1 DEF DeletionsAreQueued
<1>2. ASSUME NEW n \in Nat, n <= project.gen PROVE n <= project'.gen
  BY <1>p, <1>s, <1>2
<1>3. ASSUME NEW op \in queue' \union pass'.ops, op.kind = "PROJECT_CREATE"
      PROVE  op.key <= project'.gen
  <2>1. CASE op \in queue \union pass.ops
    BY <1>2, <1>3, <1>i, <1>s, <2>1 DEF KeysArePast
  <2>2. CASE op \notin queue \union pass.ops
    <3>1. hand[a].pc = "enqueue" /\ op.key = hand[a].gen
      BY <1>3, <1>h, <1>q, <2>2 DEF QueueChanges, Row
    <3>2. op.key <= project.gen /\ op.key \in Nat
      BY <1>i, <1>s, <3>1 DEF KeysArePast, Hand
    <3> QED
      BY <1>2, <3>2
  <2> QED
    BY <2>1, <2>2
<1>4. ASSUME NEW b \in Admin, hand'[b].pc \in {"sync", "enqueue"} PROVE hand'[b].gen <= project'.gen
  <2>1. CASE hand'[b].gen = hand[b].gen /\ hand[b].pc \in {"sync", "enqueue"}
    <3>1. hand[b].gen \in Nat
      BY <1>s DEF Hand
    <3> QED
      BY <1>2, <1>i, <2>1, <3>1 DEF KeysArePast
  <2>2. CASE ~(hand'[b].gen = hand[b].gen /\ hand[b].pc \in {"sync", "enqueue"})
    <3>1. b = a
      BY <1>4, <1>h, <2>2
    <3>2. Alive(hand[a].gen)'
      BY <1>4, <1>i, <2>2, <3>1, HandStep DEF Working
    <3>3. hand'[a].gen = project'.gen /\ project'.gen \in Nat
      BY <1>p, <1>s, <3>2 DEF Alive
    <3> QED
      BY <3>1, <3>3
  <2> QED
    BY <2>1, <2>2
<1>5. ASSUME project'.status = "GONE", NEW h \in Harbor PROVE placement'[h].id = 0
  <2>1. CASE Unrow(a)
    BY <2>1 DEF Unrow, NoPlacement
  <2>2. CASE ~Unrow(a)
    <3>1. project.status = "GONE"
      BY <1>i, <1>5, <2>2, ProjectStep
    <3>2. placement' = placement
      BY <1>i, <2>2, <3>1, PlacementStep DEF Alive
    <3> QED
      BY <1>i, <3>1, <3>2 DEF KeysArePast
  <2> QED
    BY <2>1, <2>2
<1> QED
  BY <1>i, <1>1, <1>3, <1>4, <1>5 DEF PastInv, KeysArePast

\* Nobody gets ahead of the row there is.
LEMMA PastStep == ASSUME Sorts PROVE PastInv /\ [Next]_vars => PastInv'
<1> SUFFICES ASSUME PastInv, [Next]_vars PROVE PastInv'
  OBVIOUS
<1>i. TypeInv /\ TypeInv' /\ DeletionsAreQueued /\ KeysArePast
  BY TypeStep DEF PastInv
<1>s. /\ project.gen \in Nat /\ queue \subseteq Op
      /\ \A op \in queue \union pass.ops : op.key \in Nat
      /\ \A a \in Admin : hand[a].gen \in Nat
  BY <1>i DEF TypeInv, TypeOK, Pass, Op, Hand
<1>1. CASE UNCHANGED vars
  BY <1>1, <1>i DEF vars, PastInv, DeletionsAreQueued, KeysArePast
<1>2. CASE RequestByUser
  <2>1. /\ project' = [gen |-> project.gen + 1, status |-> "PENDING"]
        /\ UNCHANGED <<placement, queue, hand, pass>>
    BY <1>2, <1>i, RequestIs
  <2>2. \A n \in Nat : n <= project.gen => n <= project'.gen
    BY <1>s, <2>1
  <2>3. KeysArePast'
    BY <1>i, <1>s, <2>1, <2>2 DEF KeysArePast
  <2> QED
    BY <1>i, <2>1, <2>3 DEF PastInv, DeletionsAreQueued
<1>3. ASSUME NEW a \in Admin, Activation(a) \/ Removal(a) \/ Crash(a) PROVE PastInv'
  BY <1>3, PastHandler
<1>4. CASE (\E h \in Harbor : PassStart(h) \/ Push(h)) \/ Replay
  <2>1. /\ UNCHANGED <<project, hand, torn>>
        /\ pass'.ops \subseteq pass.ops \union queue
        /\ \/ queue' = queue
           \/ queue' = queue \ {pass.at} /\ pass'.ops \subseteq pass.ops \ {pass.at}
        /\ project.status = "GONE" => placement' = placement
    BY <1>4, <1>i, OthersStep
  <2>2. KeysArePast'
    BY <1>i, <2>1 DEF KeysArePast
  <2>3. DeletionsAreQueued'
    BY <1>4, <1>i, <2>1 DEF DeletionsAreQueued
  <2> QED
    BY <1>i, <2>2, <2>3 DEF PastInv
<1> QED
  BY <1>1, <1>2, <1>3, <1>4 DEF Next

\* A Harbor holds what it held, unless a deletion takes it.
LEMMA HoldsStays ==
  ASSUME NEW x \in Harbor, harbor[x] \in HarborProject, Holds(x),
         harbor'[x] = harbor[x] \/ harbor'[x] = Created(x), placement'[x].id = placement[x].id
  PROVE  Holds(x)'
  BY DEF Holds, Created, HarborProject

\* What a Harbor created and was placed with is held there.
LEMMA PlacedHolds ==
  ASSUME TypeInv, NEW h \in Harbor, harbor' = [harbor EXCEPT ![h] = Created(h)],
         placement' = Placed(h, harbor'[h].id)
  PROVE  /\ Holds(h)'
         /\ \A x \in Harbor : x # h => harbor'[x] = harbor[x] /\ placement'[x] = placement[x]
<1>1. harbor \in [Harbor -> HarborProject] /\ placement \in [Harbor -> Placement]
  BY DEF TypeInv, TypeOK
<1>2. Created(h).there
  BY <1>1 DEF Created, HarborProject, NoProject
<1>3. placement' = [placement EXCEPT ![h] = [id |-> harbor'[h].id, status |-> "ACTIVE"]]
  BY DEF Placed
<1> QED
  BY <1>1, <1>2, <1>3 DEF Holds

\* Nothing is taken from a Harbor, and what is placed there is held.
Keeps ==
  \A x \in Harbor :
    /\ Holds(x) => Holds(x)'
    /\ HeldOrOwed(x) => HeldOrOwed(x)'
    /\ placement'[x].id # 0 => placement[x].id # 0 \/ Holds(x)'

\* Handlers take nothing from the Harbors, nor off the queue, while the row is whole.
LEMMA HandlerKeeps ==
  ASSUME Sorts, PastInv, NEW a \in Admin, Activation(a) \/ Removal(a) \/ Crash(a), Whole, Whole'
  PROVE  project'.gen = project.gen /\ queue \subseteq queue' /\ Keeps
<1>i. TypeInv
  BY DEF PastInv
<1>s. /\ harbor \in [Harbor -> HarborProject] /\ placement \in [Harbor -> Placement]
  BY <1>i DEF TypeInv, TypeOK
<1>w. hand[a].pc \notin {"remove", "unrow"} /\ project.status # "GONE"
  BY DEF Whole
<1>u. ~Unrow(a)
  BY <1>w DEF Unrow
<1>1. project'.gen = project.gen
  BY <1>i, <1>u, <1>w, ProjectStep
<1>2. queue \subseteq queue'
  BY <1>i, <1>w, QueueStep DEF QueueChanges
<1>3. \A x \in Harbor : OwesCreation(x) => OwesCreation(x)'
  BY <1>1, <1>2 DEF OwesCreation, Owes, Subject
<1>4. ASSUME NEW x \in Harbor
      PROVE  (Holds(x) => Holds(x)') /\ (placement'[x].id # 0 => placement[x].id # 0 \/ Holds(x)')
  <2>1. harbor'[x] = harbor[x] \/ harbor'[x] = Created(x)
    BY <1>i, <1>w, HarborStep
  <2>2. CASE placement'[x].id = placement[x].id
    BY <1>s, <2>1, <2>2, HoldsStays
  <2>3. CASE placement'[x].id # placement[x].id
    <3>1. hand[a].pc = "sync"
      BY <1>i, <1>u, <2>3, PlacementStep
    <3>2. ~Enqueue(a) /\ ~Activated(a) /\ ~Crash(a)
      BY <2>3 DEF Enqueue, Activated, Crash
    <3>3. ASSUME NEW h \in Harbor PROVE ~SyncFailed(a, h) /\ ~MarkFailed(a, h)
      <4>1. [placement EXCEPT ![h].status = "FAILED"][x].id = placement[x].id
        BY <1>s DEF Placement
      <4> QED
        BY <2>3, <4>1 DEF SyncFailed, MarkFailed
    <3>4. PICK h \in Harbor : SyncReached(a, h)
      BY <1>i, <3>1, <3>2, <3>3, SyncStep
    <3>5. harbor' = [harbor EXCEPT ![h] = Created(h)] /\ placement' = Placed(h, harbor'[h].id)
      BY <2>3, <3>4 DEF SyncReached
    <3>6. x = h /\ Holds(h)'
      BY <1>i, <2>3, <3>5, PlacedHolds
    <3> QED
      BY <3>6
  <2> QED
    BY <2>2, <2>3
<1> QED
  BY <1>1, <1>2, <1>3, <1>4 DEF Keeps, HeldOrOwed

\* Nor does the pass, for which there are only creations to replay.
LEMMA OthersKeep ==
  ASSUME Sorts, HeldInv, Whole, (\E h \in Harbor : PassStart(h) \/ Push(h)) \/ Replay
  PROVE  Keeps /\ ReplayIsHeld'
<1>i. /\ TypeInv /\ DeletionsAreQueued
      /\ OnlyCreations /\ PlacedIsHeld /\ ReplayIsHeld
  BY DEF HeldInv, PastInv, HeldSoFar
<1>s. /\ harbor \in [Harbor -> HarborProject] /\ placement \in [Harbor -> Placement]
      /\ pass \in Pass /\ PassOK(pass)
  BY <1>i DEF TypeInv, TypeOK
<1>p. project' = project
  BY <1>i, OthersStep
<1>d. IdlePass.pc # "delete"
  BY DEF IdlePass
<1> DEFINE Goal == Keeps /\ ReplayIsHeld'
\* A step that moves no placement, and takes nothing off the queue.
<1>1. ASSUME queue' = queue,
             \A x \in Harbor : /\ harbor'[x] = harbor[x] \/ harbor'[x] = Created(x)
                               /\ placement'[x].id = placement[x].id
      PROVE  Keeps
  <2>1. ASSUME NEW x \in Harbor PROVE Holds(x) => Holds(x)'
    BY <1>1, <1>s, HoldsStays
  <2>2. \A x \in Harbor : OwesCreation(x) => OwesCreation(x)'
    BY <1>1, <1>p DEF OwesCreation, Owes, Subject
  <2> QED
    BY <1>1, <2>1, <2>2 DEF Keeps, HeldOrOwed
<1>2. pass'.pc # "delete" => ReplayIsHeld'
  BY DEF ReplayIsHeld
<1>11. ASSUME NEW h \in Harbor, PassStart(h) PROVE Goal
  BY <1>1, <1>2, <1>11 DEF PassStart, IdlePass
<1>12. ASSUME NEW h \in Harbor, Push(h) PROVE Goal
  <2>1. /\ placement' = placement /\ queue' = queue /\ pass' = pass
        /\ harbor' = [harbor EXCEPT ![h] = [harbor[h] EXCEPT !.filled = ~harbor[h].filled]]
    BY <1>12 DEF Push
  <2>2. ASSUME NEW x \in Harbor PROVE Holds(x)' <=> Holds(x)
    <3>1. harbor'[x].id = harbor[x].id /\ harbor'[x].there = harbor[x].there
      BY <1>s, <2>1 DEF HarborProject
    <3> QED
      BY <2>1, <3>1 DEF Holds
  <2>3. Keeps
    BY <1>p, <2>1, <2>2 DEF Keeps, HeldOrOwed, OwesCreation, Owes, Subject
  <2>4. ReplayIsHeld'
    BY <1>i, <1>s, <1>p, <2>1, <2>2 DEF ReplayIsHeld, PassOK
  <2> QED
    BY <2>3, <2>4
<1>13. ASSUME NEW op \in pass.ops, PassTake(op) PROVE Goal
  <2>1. /\ harbor' = harbor /\ placement' = placement /\ queue' = queue /\ pass'.at = op
        /\ pass'.pc = "delete" => op.kind # "PROJECT_DELETE" /\ ~Alive(op.key)
    BY <1>13, <1>s DEF PassTake, Pass
  <2>2. ReplayIsHeld'
    BY <1>p, <2>1 DEF ReplayIsHeld, Alive, Whole
  <2> QED
    BY <1>1, <2>1, <2>2
<1>14. ASSUME PassCreate PROVE Goal
  <2>h. PICK h \in Harbor : h = pass.registry
    BY <1>14, <1>s DEF PassCreate, PassOK
  <2>1. harbor' = [harbor EXCEPT ![h] = Created(h)] /\ queue' = queue
    BY <1>14, <2>h DEF PassCreate
  <2>2. CASE Alive(pass.at.key)
    <3>1. placement' = Placed(h, harbor'[h].id) /\ pass' = [pass EXCEPT !.pc = "delete"]
      BY <1>14, <2>2, <2>h DEF PassCreate
    <3>2. /\ Holds(h)'
          /\ \A x \in Harbor : x # h => harbor'[x] = harbor[x] /\ placement'[x] = placement[x]
      BY <1>i, <2>1, <3>1, PlacedHolds
    <3>3. ASSUME NEW x \in Harbor, x # h
          PROVE (Holds(x)' <=> Holds(x)) /\ (OwesCreation(x)' <=> OwesCreation(x))
      BY <1>p, <2>1, <3>2, <3>3 DEF Holds, OwesCreation, Owes, Subject
    <3>4. Keeps
      BY <3>2, <3>3 DEF Keeps, HeldOrOwed
    <3>5. pass'.registry = h
      BY <1>s, <2>h, <3>1 DEF Pass
    <3> QED
      BY <3>2, <3>4, <3>5 DEF ReplayIsHeld
  <2>3. CASE ~Alive(pass.at.key)
    <3>1. placement' = placement /\ pass' = IdlePass
      BY <1>14, <2>3 DEF PassCreate
    <3> QED
      BY <1>1, <1>2, <1>d, <1>s, <2>1, <3>1
  <2> QED
    BY <2>2, <2>3
<1>15. ASSUME PassCreateFails PROVE Goal
  <2>h. PICK h \in Harbor : h = pass.registry
    BY <1>15, <1>s DEF PassCreateFails, PassOK
  <2>1. /\ queue' = queue /\ pass' = IdlePass
        /\ placement' = [placement EXCEPT ![h] = [placement[h] EXCEPT !.status = "FAILED"]]
             \/ placement' = placement
        /\ harbor' = harbor \/ harbor' = [harbor EXCEPT ![h] = Created(h)]
    BY <1>15, <2>h DEF PassCreateFails
  <2>2. ASSUME NEW x \in Harbor PROVE placement'[x].id = placement[x].id
    BY <1>s, <2>1 DEF Placement
  <2> QED
    BY <1>1, <1>2, <1>d, <1>s, <2>1, <2>2
<1>16. ASSUME PassRemove PROVE Goal
  <2>1. pass.at \in pass.ops /\ pass.at.kind = "PROJECT_DELETE"
    BY <1>16, <1>s DEF PassRemove, PassOK
  <2> QED
    BY <1>i, <2>1 DEF DeletionsAreQueued, OnlyCreations
<1>17. ASSUME PassDelete PROVE Goal
  <2>0. /\ pass.at # None /\ pass.registry \in Harbor
        /\ pass.at.registry = pass.registry /\ pass.pc = "delete"
    BY <1>17, <1>s DEF PassDelete, PassOK
  <2>1. /\ harbor' = harbor /\ placement' = placement /\ queue' = queue \ {pass.at}
        /\ pass'.pc # "delete"
    BY <1>17 DEF PassDelete, IdlePass
  <2>2. \A x \in Harbor : Holds(x)' <=> Holds(x)
    BY <2>1 DEF Holds
  <2>3. ASSUME NEW x \in Harbor PROVE HeldOrOwed(x) => HeldOrOwed(x)'
    <3>1. CASE pass.at.kind = "PROJECT_CREATE" /\ pass.at.key = project.gen /\ x = pass.registry
      BY <1>i, <2>0, <2>2, <3>1 DEF ReplayIsHeld, HeldOrOwed
    <3>2. CASE ~(pass.at.kind = "PROJECT_CREATE" /\ pass.at.key = project.gen /\ x = pass.registry)
      <4>1. OwesCreation(x) => OwesCreation(x)'
        BY <1>p, <2>0, <2>1, <3>2 DEF OwesCreation, Owes, Subject
      <4> QED
        BY <2>2, <4>1 DEF HeldOrOwed
    <3> QED
      BY <3>1, <3>2
  <2> QED
    BY <1>2, <2>1, <2>2, <2>3 DEF Keeps
<1>18. ASSUME PassEnds PROVE Goal
  BY <1>1, <1>2, <1>d, <1>18 DEF PassEnds
<1> QED
  <2> HIDE DEF Goal
  <2>1. Goal
    BY <1>11, <1>12, <1>13, <1>14, <1>15, <1>16, <1>17, <1>18 DEF Replay
  <2> QED
    BY <2>1 DEF Goal

\* A row just asked for: no handler serves it but the one that asked, and nothing of an
\* earlier one is left.
LEMMA AskedFor ==
  ASSUME PastInv, Patient, Request, pass' = pass,
         \A a \in Admin : hand'[a] = hand[a] \/ (~hand'[a].reached /\ hand'[a].todo = Harbor \X {0})
  PROVE  HeldSoFar'
<1>1. /\ project.status = "GONE" /\ project' = [gen |-> project.gen + 1, status |-> "PENDING"]
      /\ placement' = placement /\ harbor' = harbor /\ queue' = queue
      /\ \A op \in queue : op.kind # "PROJECT_DELETE"
  BY DEF Request
<1>2. /\ project.gen \in Nat /\ queue \subseteq Op
      /\ \A op \in pass.ops : op.key \in Nat
      /\ \A a \in Admin : hand[a].gen \in Nat
      /\ pass.pc = "delete" => pass.at \in pass.ops
  BY DEF PastInv, TypeInv, TypeOK, Pass, Op, PassOK, Hand
<1>3. KeysArePast
  BY DEF PastInv
<1>4. OnlyCreations'
  BY <1>1, <1>2 DEF OnlyCreations, Op, Kind
<1>5. PlacedIsHeld'
  BY <1>1, <1>3 DEF PlacedIsHeld, KeysArePast
<1>6. ActivationIsHeld'
  <2>1. ASSUME NEW a \in Admin, hand'[a].pc \in {"sync", "enqueue"}, hand'[a].gen = project'.gen,
               NEW h \in Harbor
        PROVE  ~hand'[a].reached /\ OnItsWay(a, h)'
    <3>1. hand'[a] # hand[a]
      <4>1. hand[a].pc \in {"sync", "enqueue"} => hand[a].gen <= project.gen
        BY <1>3 DEF KeysArePast
      <4> QED
        BY <1>1, <1>2, <2>1, <4>1
    <3>2. ~hand'[a].reached /\ <<h, 0>> \in hand'[a].todo
      BY <3>1
    <3> QED
      BY <3>2 DEF OnItsWay
  <2>2. ASSUME NEW a \in Admin, hand'[a].pc \in {"sync", "enqueue"}, hand'[a].gen = project'.gen
        PROVE  ~hand'[a].reached
    <3>1. hand[a].pc \in {"sync", "enqueue"} => hand[a].gen <= project.gen
      BY <1>3 DEF KeysArePast
    <3> QED
      BY <1>1, <1>2, <2>2, <3>1
  <2> QED
    BY <2>1, <2>2 DEF ActivationIsHeld
<1>7. ActiveIsThere'
  BY <1>1 DEF ActiveIsThere
<1>8. ReplayIsHeld'
  <2>1. ASSUME pass.pc = "delete", pass.at.kind = "PROJECT_CREATE" PROVE pass.at.key # project.gen + 1
    <3>1. pass.at.key <= project.gen /\ pass.at.key \in Nat
      BY <1>2, <1>3, <2>1 DEF KeysArePast
    <3> QED
      BY <1>2, <3>1
  <2> QED
    BY <1>1, <2>1 DEF ReplayIsHeld
<1> QED
  BY <1>4, <1>5, <1>6, <1>7, <1>8 DEF HeldSoFar

\* An activation of the row there is leaves a Harbor with the project, owed it, or on
\* its way.
LEMMA ActivationKeeps ==
  ASSUME Sorts, HeldInv, NEW a \in Admin, Activation(a) \/ Removal(a) \/ Crash(a), Whole, Whole',
         hand[a].pc \in {"sync", "enqueue"}, hand[a].gen = project.gen,
         hand'[a].pc \in {"sync", "enqueue"}
  PROVE  /\ hand'[a].reached => \E h \in Harbor : Holds(h)'
         /\ \A h \in Harbor : HeldOrOwed(h)' \/ OnItsWay(a, h)'
<1>i. TypeInv /\ PastInv /\ ActivationIsHeld
  BY DEF HeldInv, PastInv, HeldSoFar
<1>s. hand \in [Admin -> Hand] /\ hand[a] \in Hand
  BY <1>i DEF TypeInv, TypeOK
<1>1. /\ hand[a].reached => \E h \in Harbor : Holds(h)
      /\ \A h \in Harbor : HeldOrOwed(h) \/ OnItsWay(a, h)
  BY <1>i DEF ActivationIsHeld
<1>2. project'.gen = project.gen /\ Keeps
  BY <1>i, HandlerKeeps
<1>3. Alive(hand[a].gen)
  BY DEF Alive, Whole
<1>4. ~Activated(a) /\ ~Crash(a)
  BY <1>s DEF Activated, Crash, Answer, IdleHand
<1> DEFINE Goal == /\ hand'[a].reached => \E h \in Harbor : Holds(h)'
                   /\ \A h \in Harbor : HeldOrOwed(h)' \/ OnItsWay(a, h)'
<1>5. ASSUME hand'[a].reached = hand[a].reached,
             \A x \in Harbor : OnItsWay(a, x) => HeldOrOwed(x)' \/ OnItsWay(a, x)'
      PROVE  Goal
  BY <1>1, <1>2, <1>5 DEF Keeps
<1>6. ASSUME NEW h \in Harbor, SyncReached(a, h) PROVE Goal
  <2>1. /\ harbor' = [harbor EXCEPT ![h] = Created(h)] /\ placement' = Placed(h, harbor'[h].id)
        /\ hand' = [hand EXCEPT ![a] = [hand[a] EXCEPT !.todo = hand[a].todo \ {<<h, 0>>},
                                                       !.reached = TRUE]]
        /\ hand[a].pc = "sync"
    BY <1>3, <1>6 DEF SyncReached
  <2>2. Holds(h)'
    BY <1>i, <2>1, PlacedHolds
  <2>3. hand'[a].todo = hand[a].todo \ {<<h, 0>>} /\ hand'[a].failed = hand[a].failed
    BY <1>s, <2>1 DEF Hand
  <2>4. ASSUME NEW x \in Harbor, x # h, OnItsWay(a, x) PROVE OnItsWay(a, x)'
    BY <2>1, <2>3, <2>4 DEF OnItsWay
  <2> QED
    BY <1>1, <1>2, <2>2, <2>4 DEF Keeps, HeldOrOwed
<1>7. ASSUME NEW h \in Harbor, SyncFailed(a, h) PROVE Goal
  <2>1. /\ <<h, 0>> \in hand[a].todo /\ hand[a].pc = "sync"
        /\ hand' = [hand EXCEPT ![a] = [hand[a] EXCEPT !.todo = hand[a].todo \ {<<h, 0>>},
                                                       !.failed = hand[a].failed \union {<<h, 0>>}]]
    BY <1>7 DEF SyncFailed
  <2>2. /\ hand'[a].todo \union hand'[a].failed = hand[a].todo \union hand[a].failed
        /\ hand'[a].reached = hand[a].reached
    BY <1>s, <2>1 DEF Hand
  <2>3. \A x \in Harbor : OnItsWay(a, x) => OnItsWay(a, x)'
    BY <2>1, <2>2 DEF OnItsWay
  <2> QED
    BY <1>5, <2>2, <2>3
<1>8. ASSUME NEW h \in Harbor, MarkFailed(a, h) PROVE Goal
  <2>1. /\ hand[a].pc = "sync"
        /\ hand' = [hand EXCEPT ![a] = [hand[a] EXCEPT !.pc = "enqueue", !.at = h,
                                                       !.failed = hand[a].failed \ {<<h, 0>>}]]
    BY <1>3, <1>8 DEF MarkFailed
  <2>2. /\ hand'[a].pc = "enqueue" /\ hand'[a].at = h /\ hand'[a].todo = hand[a].todo
        /\ hand'[a].failed = hand[a].failed \ {<<h, 0>>} /\ hand'[a].reached = hand[a].reached
    BY <1>s, <2>1 DEF Hand
  <2>3. \A x \in Harbor : OnItsWay(a, x) => OnItsWay(a, x)'
    BY <2>1, <2>2 DEF OnItsWay
  <2> QED
    BY <1>5, <2>2, <2>3
<1>9. ASSUME Enqueue(a) PROVE Goal
  <2>1. /\ queue' = EnqueueOnce(queue, nextId, hand[a].at, "PROJECT_CREATE", hand[a].gen)
        /\ hand' = [hand EXCEPT ![a] = [hand[a] EXCEPT !.pc = "sync", !.at = None]]
    BY <1>9 DEF Enqueue
  <2>2. /\ hand'[a].todo = hand[a].todo /\ hand'[a].failed = hand[a].failed
        /\ hand'[a].reached = hand[a].reached
    BY <1>s, <2>1 DEF Hand
  <2>h. PICK h : h = hand[a].at
    OBVIOUS
  <2>3. OwesCreation(h)'
    <3>1. \E op \in queue' : /\ op.registry = hand[a].at /\ op.kind = "PROJECT_CREATE"
                             /\ op.key = hand[a].gen
      BY <2>1, CreationQueued
    <3> QED
      BY <1>2, <2>h, <3>1 DEF OwesCreation, Owes, Subject
  <2>4. \A x \in Harbor : OnItsWay(a, x) => x = h \/ OnItsWay(a, x)'
    BY <2>2, <2>h DEF OnItsWay
  <2> QED
    BY <1>5, <2>2, <2>3, <2>4 DEF HeldOrOwed
<1> QED
  BY <1>4, <1>6, <1>7, <1>8, <1>9, <1>i, SyncStep

\* A handler keeps the project where it is while the row is whole.
LEMMA HeldHandler ==
  ASSUME Sorts, HeldInv, NEW a \in Admin, Activation(a) \/ Removal(a) \/ Crash(a),
         ~RequestByAdmin(a), Whole, Whole'
  PROVE  HeldSoFar'
<1>i. /\ TypeInv /\ PastInv
      /\ OnlyCreations /\ PlacedIsHeld /\ ActivationIsHeld /\ ActiveIsThere /\ ReplayIsHeld
  BY DEF HeldInv, PastInv, HeldSoFar
<1>s. hand \in [Admin -> Hand] /\ PassOK(pass)
  BY <1>i DEF TypeInv, TypeOK
<1>k. project'.gen = project.gen /\ Keeps
  BY <1>i, HandlerKeeps
<1>h. pass' = pass /\ \A b \in Admin : b # a => hand'[b] = hand[b]
  BY <1>i, HandStep
<1>1. OnlyCreations'
  BY <1>i, QueueStep DEF QueueChanges, OnlyCreations, Row, Whole
<1>2. PlacedIsHeld'
  BY <1>i, <1>k DEF PlacedIsHeld, Keeps
<1>3. ASSUME NEW b \in Admin, hand'[b].pc \in {"sync", "enqueue"}, hand'[b].gen = project'.gen
      PROVE  /\ hand'[b].reached => \E h \in Harbor : Holds(h)'
             /\ \A h \in Harbor : HeldOrOwed(h)' \/ OnItsWay(b, h)'
  <2>1. CASE b # a
    <3>1. hand'[b] = hand[b] /\ hand[b].pc \in {"sync", "enqueue"} /\ hand[b].gen = project.gen
      BY <1>3, <1>h, <1>k, <2>1
    <3>2. \A h \in Harbor : OnItsWay(b, h)' <=> OnItsWay(b, h)
      BY <3>1 DEF OnItsWay
    <3> QED
      BY <1>i, <1>k, <3>1, <3>2 DEF ActivationIsHeld, Keeps
  <2>2. CASE b = a /\ hand[a].pc \in {"sync", "enqueue"}
    <3>1. hand'[a].gen = hand[a].gen
      BY <1>3, <1>i, <2>2, HandStep DEF Working, RequestByAdmin, Approve, Delete
    <3> QED
      BY <1>3, <1>k, <2>2, <3>1, ActivationKeeps
  <2>3. CASE b = a /\ hand[a].pc \notin {"sync", "enqueue"}
    <3>1. ~Delete(a)
      BY <1>3, <1>s, <2>3 DEF Delete, IdleHand
    <3>2. Approve(a)
      BY <1>3, <1>i, <2>3, <3>1, HandStep DEF Working
    <3>3. ~hand'[a].reached /\ hand'[a].todo = Harbor \X {0}
      BY <1>s, <3>2 DEF Approve, Activate, IdleHand
    <3>4. \A h \in Harbor : <<h, 0>> \in hand'[a].todo
      BY <3>3
    <3> QED
      BY <2>3, <3>3, <3>4 DEF OnItsWay
  <2> QED
    BY <2>1, <2>2, <2>3
<1>4. ActiveIsThere'
  <2>1. ASSUME project'.status = "ACTIVE"
        PROVE  (\E h \in Harbor : Holds(h)) /\ \A h \in Harbor : HeldOrOwed(h)
    <3>1. CASE project.status = "ACTIVE"
      BY <1>i, <3>1 DEF ActiveIsThere
    <3>2. CASE project.status # "ACTIVE"
      <4>1. Activated(a) /\ project' # project
        BY <1>i, <2>1, <3>2, ProjectStep
      <4>2. hand[a].pc = "sync" /\ hand[a].reached /\ Alive(hand[a].gen) /\ Called(a)
        BY <4>1 DEF Activated
      <4>3. \A h \in Harbor : ~OnItsWay(a, h)
        BY <4>2 DEF OnItsWay, Called
      <4> QED
        BY <1>i, <4>2, <4>3 DEF ActivationIsHeld, Alive
    <3> QED
      BY <3>1, <3>2
  <2> QED
    BY <1>k, <2>1 DEF ActiveIsThere, Keeps
<1>5. ReplayIsHeld'
  BY <1>h, <1>i, <1>k, <1>s DEF ReplayIsHeld, Keeps, PassOK
<1> QED
  BY <1>1, <1>2, <1>3, <1>4, <1>5 DEF HeldSoFar, ActivationIsHeld

\* A step keeps the project where it is, from the row asked for to its deletion.
LEMMA HeldStep == ASSUME Sorts, Patient PROVE HeldInv /\ [Next]_vars => HeldInv'
<1> SUFFICES ASSUME HeldInv, [Next]_vars, Whole' PROVE HeldSoFar'
  BY PastStep DEF HeldInv
<1>i. PastInv /\ TypeInv
  BY DEF HeldInv, PastInv
<1>s. hand \in [Admin -> Hand]
  BY <1>i DEF TypeInv, TypeOK
<1>1. CASE UNCHANGED vars
  <2>1. HeldSoFar
    BY <1>1 DEF HeldInv, Whole, vars
  <2>2. \A h \in Harbor : (Holds(h)' <=> Holds(h)) /\ (HeldOrOwed(h)' <=> HeldOrOwed(h))
    BY <1>1 DEF vars, Holds, HeldOrOwed, OwesCreation, Owes, Subject
  <2>3. \A a \in Admin, h \in Harbor : OnItsWay(a, h)' <=> OnItsWay(a, h)
    BY <1>1 DEF vars, OnItsWay
  <2>4. ActivationIsHeld' /\ ActiveIsThere'
    BY <1>1, <2>1, <2>2, <2>3 DEF HeldSoFar, vars, ActivationIsHeld, ActiveIsThere
  <2>5. OnlyCreations' /\ PlacedIsHeld' /\ ReplayIsHeld'
    BY <1>1, <2>1 DEF HeldSoFar, vars, OnlyCreations, PlacedIsHeld, ReplayIsHeld, Holds
  <2> QED
    BY <2>4, <2>5 DEF HeldSoFar
<1>2. CASE RequestByUser
  BY <1>2, <1>i, AskedFor, RequestIs DEF RequestByUser
<1>3. ASSUME NEW a \in Admin, Activation(a) \/ Removal(a) \/ Crash(a) PROVE HeldSoFar'
  <2>1. CASE RequestByAdmin(a)
    <3>1. Request /\ pass' = pass
          /\ hand' = [hand EXCEPT ![a] = [IdleHand EXCEPT !.pc = "sync", !.gen = project.gen + 1,
                                            !.todo = Harbor \X {0}]]
      BY <2>1 DEF RequestByAdmin, Request, Activate
    <3>2. ~hand'[a].reached /\ hand'[a].todo = Harbor \X {0}
      BY <1>s, <3>1 DEF IdleHand
    <3>3. \A b \in Admin : b # a => hand'[b] = hand[b]
      BY <1>s, <3>1
    <3> QED
      BY <1>i, <3>1, <3>2, <3>3, AskedFor
  <2>2. CASE ~RequestByAdmin(a)
    BY <1>3, <1>i, <2>2, WholeStep, HeldHandler
  <2> QED
    BY <2>1, <2>2
<1>4. CASE (\E h \in Harbor : PassStart(h) \/ Push(h)) \/ Replay
  <2>1. UNCHANGED <<project, hand, torn>> /\ queue' \subseteq queue
    BY <1>4, <1>i, OthersStep
  <2>2. Whole
    BY <2>1 DEF Whole
  <2>3. Keeps /\ ReplayIsHeld'
    BY <1>4, <2>2, OthersKeep
  <2>4. OnlyCreations /\ PlacedIsHeld /\ ActivationIsHeld /\ ActiveIsThere
    BY <2>2 DEF HeldInv, HeldSoFar
  <2>5. \A a \in Admin, h \in Harbor : OnItsWay(a, h)' <=> OnItsWay(a, h)
    BY <2>1 DEF OnItsWay
  <2>6. OnlyCreations' /\ PlacedIsHeld'
    BY <2>1, <2>3, <2>4 DEF OnlyCreations, PlacedIsHeld, Keeps
  <2>7. ActivationIsHeld' /\ ActiveIsThere'
    BY <2>1, <2>3, <2>4, <2>5 DEF ActivationIsHeld, ActiveIsThere, Keeps
  <2> QED
    BY <2>3, <2>6, <2>7 DEF HeldSoFar
<1> QED
  BY <1>1, <1>2, <1>3, <1>4 DEF Next

\* No row is asked for at first, and nobody is at work.
LEMMA HeldInit == ASSUME Sorts PROVE Init => HeldInv
<1> SUFFICES ASSUME Init PROVE HeldInv
  OBVIOUS
<1>1. ~Whole
  BY DEF Init, Whole
<1>2. /\ \A a \in Admin : hand[a].pc = "idle"
      /\ \A h \in Harbor : placement[h].id = 0
      /\ pass.ops = {} /\ queue = {}
  BY DEF Init, IdleHand, IdlePass, NoPlacement
<1> QED
  BY <1>1, <1>2, TypeInit DEF HeldInv, PastInv, DeletionsAreQueued, KeysArePast

\* An active project is on every Harbor of its cluster or the Harbor is owed its
\* creation, and some Harbor holds it: in every interleaving of approvals, deletions
\* and replays, whatever answers are lost and whoever dies, as long as nobody asks for
\* a name whose deletion is owed (activate.ts, delete.ts, projects.ts).
THEOREM ActiveHolds ==
  ASSUME Sorts, Patient
  PROVE  Spec => []ActiveIsHeld
<1>1. HeldInv => ActiveIsHeld
  <2> SUFFICES ASSUME HeldInv, project.status = "ACTIVE", ~Removing, ~torn
               PROVE  /\ \A h \in Harbor : Holds(h) \/ Owes(h, "PROJECT_CREATE", project.gen)
                      /\ \E h \in Harbor : Holds(h)
    BY DEF ActiveIsHeld, Holds
  <2>1. Whole
    BY DEF Whole, Removing, Deleting
  <2> QED
    BY <2>1 DEF HeldInv, HeldSoFar, ActiveIsThere, HeldOrOwed, OwesCreation
<1> QED
  BY <1>1, HeldInit, HeldStep, PTL DEF Spec

-----------------------------------------------------------------------------
(* Placements that failed.                                                 *)

\* A placement marked as failed is owed its creation.
Marked(h) == placement[h].status = "FAILED" => OwesCreation(h)

\* The creations a pass has read are still owed.
CreationsAreQueued ==
  \A op \in pass.ops : op.kind = "PROJECT_CREATE" /\ op.key = project.gen => op \in queue

ActivationMarks ==
  \A a \in Admin : hand[a].pc \in {"sync", "enqueue"} =>
    /\ project.status # "ACTIVE"
    /\ \A h \in Harbor : Marked(h) \/ OnItsWay(a, h)

ActiveIsMarked == project.status = "ACTIVE" => \A h \in Harbor : Marked(h)

\* A creation whose replay is done leaves no mark.
ReplayIsDone ==
  pass.pc = "delete" /\ pass.at.kind = "PROJECT_CREATE" /\ pass.at.key = project.gen =>
    placement[pass.registry].status # "FAILED"

MarkedSoFar == CreationsAreQueued /\ ActivationMarks /\ ActiveIsMarked /\ ReplayIsDone

FailedInv == ApartInv /\ (Whole => MarkedSoFar)

\* A row just asked for: nothing of an earlier one is left.
LEMMA NothingMarked ==
  ASSUME ApartInv, Request, pass' = pass,
         \A a \in Admin : hand'[a].pc \in {"sync", "enqueue"} => hand'[a].todo = Harbor \X {0}
  PROVE  MarkedSoFar'
<1>1. project.status = "GONE" /\ project' = [gen |-> project.gen + 1, status |-> "PENDING"]
  BY DEF Request
<1>2. /\ project.gen \in Nat
      /\ \A op \in pass.ops : op.key \in Nat
      /\ pass.pc = "delete" => pass.at \in pass.ops
  BY DEF ApartInv, TypeInv, TypeOK, Pass, Op, PassOK
<1>3. ASSUME NEW op \in pass.ops, op.kind = "PROJECT_CREATE" PROVE op.key # project.gen + 1
  <2>1. op.key <= project.gen
    BY <1>3 DEF ApartInv, CreationsAreTrue
  <2> QED
    BY <1>2, <2>1
<1>4. CreationsAreQueued'
  BY <1>1, <1>3 DEF CreationsAreQueued
<1>5. ActivationMarks'
  <2>1. ASSUME NEW a \in Admin, hand'[a].pc \in {"sync", "enqueue"}, NEW h \in Harbor
        PROVE  OnItsWay(a, h)'
    <3>1. <<h, 0>> \in hand'[a].todo
      BY <2>1
    <3> QED
      BY <2>1, <3>1 DEF OnItsWay
  <2> QED
    BY <1>1, <2>1 DEF ActivationMarks
<1>6. ActiveIsMarked' /\ ReplayIsDone'
  BY <1>1, <1>2, <1>3 DEF ActiveIsMarked, ReplayIsDone
<1> QED
  BY <1>4, <1>5, <1>6 DEF MarkedSoFar

\* A handler that is not activating marks nothing, and takes nothing off the queue, while
\* the row is whole.
LEMMA FailedIdle ==
  ASSUME Sorts, Apart, FailedInv, NEW a \in Admin,
         Activation(a) \/ Removal(a) \/ Crash(a),
         Whole, Whole', hand[a].pc \notin {"sync", "enqueue"}
  PROVE  MarkedSoFar'
<1>i. /\ TypeInv /\ ApartInv
      /\ CreationsAreQueued /\ ActivationMarks /\ ActiveIsMarked /\ ReplayIsDone
  BY DEF FailedInv, ApartInv, MarkedSoFar
<1>s. hand \in [Admin -> Hand]
  BY <1>i DEF TypeInv, TypeOK
<1>1. hand[a].pc \notin {"sync", "enqueue", "remove", "unrow"}
  BY DEF Whole
<1>2. queue' = queue
  BY <1>i, <1>1, QueueStep DEF QueueChanges
<1>3. placement' = placement
  <2>1. ~Unrow(a)
    BY <1>1 DEF Unrow
  <2> QED
    BY <1>i, <1>1, <2>1, PlacementStep
<1>4. /\ project'.gen = project.gen /\ project.status # "GONE"
      /\ project'.status = "ACTIVE" => project.status = "ACTIVE"
  <2>1. ~Activated(a) /\ ~Unrow(a)
    BY <1>1 DEF Activated, Unrow
  <2> QED
    BY <1>i, <2>1, ProjectStep DEF Whole
<1>5. pass' = pass /\ \A b \in Admin : b # a => hand'[b] = hand[b]
  BY <1>i, HandStep
<1>6. \A h \in Harbor : Marked(h)' <=> Marked(h)
  BY <1>2, <1>3, <1>4 DEF Marked, OwesCreation, Owes, Subject
<1>7. CreationsAreQueued'
  BY <1>i, <1>2, <1>4, <1>5 DEF CreationsAreQueued
<1>8. ActivationMarks'
  <2>1. ASSUME NEW b \in Admin, hand'[b].pc \in {"sync", "enqueue"}
        PROVE  /\ project'.status # "ACTIVE"
               /\ \A h \in Harbor : Marked(h)' \/ OnItsWay(b, h)'
    <3>1. CASE b # a
      <4>1. hand'[b] = hand[b] /\ hand[b].pc \in {"sync", "enqueue"}
        BY <1>5, <2>1, <3>1
      <4>2. \A h \in Harbor : OnItsWay(b, h)' <=> OnItsWay(b, h)
        BY <4>1 DEF OnItsWay
      <4> QED
        BY <1>i, <1>4, <1>6, <4>1, <4>2 DEF ActivationMarks
    <3>2. CASE b = a
      <4>1. Approve(a)
        <5>1. ~Delete(a)
          BY <1>s, <2>1, <3>2 DEF Delete, IdleHand
        <5>2. ~RequestByAdmin(a)
          BY <1>4 DEF RequestByAdmin, Request
        <5> QED
          BY <1>i, <1>1, <2>1, <3>2, <5>1, <5>2, HandStep DEF Working
      <4>2. project'.status # "ACTIVE" /\ hand'[a].todo = Harbor \X {0}
        BY <1>s, <4>1 DEF Approve, Activate, IdleHand
      <4>3. \A h \in Harbor : <<h, 0>> \in hand'[a].todo
        BY <4>2
      <4> QED
        BY <3>2, <4>2, <4>3 DEF OnItsWay
    <3> QED
      BY <3>1, <3>2
  <2> QED
    BY <2>1 DEF ActivationMarks
<1>9. ActiveIsMarked'
  BY <1>i, <1>4, <1>6 DEF ActiveIsMarked
<1>10. ReplayIsDone'
  BY <1>i, <1>3, <1>4, <1>5 DEF ReplayIsDone
<1> QED
  BY <1>7, <1>8, <1>9, <1>10 DEF MarkedSoFar

\* An activation owes what it marks, or has still to queue it.
LEMMA FailedSync ==
  ASSUME Sorts, Apart, FailedInv, NEW a \in Admin,
         Activation(a) \/ Removal(a) \/ Crash(a),
         Whole, Whole', hand[a].pc \in {"sync", "enqueue"}
  PROVE  MarkedSoFar'
<1>i. /\ TypeInv /\ ApartInv /\ OneAtATime
      /\ CreationsAreQueued /\ ActivationMarks /\ ActiveIsMarked /\ ReplayIsDone
  BY DEF FailedInv, ApartInv, MarkedSoFar
<1>s. /\ hand \in [Admin -> Hand] /\ hand[a] \in Hand /\ placement \in [Harbor -> Placement]
  BY <1>i DEF TypeInv, TypeOK
<1>1. /\ hand[a].pc \in Working /\ Alive(hand[a].gen) /\ hand[a].gen = project.gen
      /\ pass.at = None /\ project.status # "ACTIVE"
      /\ \A h \in Harbor : Marked(h) \/ OnItsWay(a, h)
      /\ \A b \in Admin : b # a => hand[b].pc \notin Working
  BY <1>i DEF OneAtATime, Working, Alive, ActivationMarks
<1>2. pass' = pass /\ \A b \in Admin : b # a => hand'[b].pc \notin {"sync", "enqueue"}
  BY <1>i, <1>1, HandStep DEF Working
<1>3. ReplayIsDone'
  BY <1>1, <1>2, <1>i DEF ReplayIsDone, TypeInv, PassOK
<1>4. project'.gen = project.gen
  <2>1. ~Unrow(a)
    BY DEF Unrow
  <2> QED
    BY <1>i, <2>1, ProjectStep DEF Whole
<1>5. queue \subseteq queue'
  BY <1>i, QueueStep DEF QueueChanges
<1>6. CreationsAreQueued'
  BY <1>i, <1>2, <1>4, <1>5 DEF CreationsAreQueued
<1>7. \A x \in Harbor : OwesCreation(x) => OwesCreation(x)'
  BY <1>4, <1>5 DEF OwesCreation, Owes, Subject
<1> DEFINE Going == /\ project'.status = "ACTIVE" => ActiveIsMarked'
                    /\ hand'[a].pc \in {"sync", "enqueue"} =>
                         /\ project' = project
                         /\ \A h \in Harbor : Marked(h)' \/ OnItsWay(a, h)'
<1>8. ASSUME Going PROVE MarkedSoFar'
  <2>1. ActivationMarks'
    BY <1>1, <1>2, <1>8 DEF ActivationMarks
  <2>2. ActiveIsMarked'
    BY <1>8 DEF ActiveIsMarked
  <2> QED
    BY <1>3, <1>6, <2>1, <2>2 DEF MarkedSoFar
<1>9. ASSUME project' = project, NEW h \in Harbor, Marked(h)' \/ OnItsWay(a, h)',
             \A x \in Harbor : x # h => placement'[x] = placement[x]
                                        /\ (OnItsWay(a, x) => OnItsWay(a, x)')
      PROVE  Going
  BY <1>1, <1>7, <1>9 DEF Marked
<1>10. ASSUME NEW h \in Harbor, SyncReached(a, h) PROVE Going
  <2>1. /\ project' = project /\ hand[a].pc = "sync"
        /\ placement' = [placement EXCEPT ![h] = [id |-> harbor'[h].id, status |-> "ACTIVE"]]
        /\ hand' = [hand EXCEPT ![a] = [hand[a] EXCEPT !.todo = hand[a].todo \ {<<h, 0>>},
                                                       !.reached = TRUE]]
    BY <1>10, <1>1 DEF SyncReached, Placed
  <2>2. hand'[a].todo = hand[a].todo \ {<<h, 0>>} /\ hand'[a].failed = hand[a].failed
    BY <1>s, <2>1 DEF Hand
  <2>3. placement'[h].status # "FAILED" /\ \A x \in Harbor : x # h => placement'[x] = placement[x]
    BY <1>s, <2>1
  <2>4. \A x \in Harbor : x # h /\ OnItsWay(a, x) => OnItsWay(a, x)'
    BY <2>1, <2>2 DEF OnItsWay
  <2> QED
    BY <1>9, <2>1, <2>3, <2>4 DEF Marked
<1>11. ASSUME NEW h \in Harbor, SyncFailed(a, h) PROVE Going
  <2>1. /\ project' = project /\ placement' = placement /\ hand[a].pc = "sync"
        /\ hand' = [hand EXCEPT ![a] = [hand[a] EXCEPT !.todo = hand[a].todo \ {<<h, 0>>},
                                                       !.failed = hand[a].failed \union {<<h, 0>>}]]
        /\ <<h, 0>> \in hand[a].todo
    BY <1>11 DEF SyncFailed
  <2>2. hand'[a].todo \union hand'[a].failed = hand[a].todo \union hand[a].failed
        /\ <<h, 0>> \in hand'[a].failed
    BY <1>s, <2>1 DEF Hand
  <2>3. OnItsWay(a, h)' /\ \A x \in Harbor : OnItsWay(a, x) => OnItsWay(a, x)'
    BY <2>1, <2>2 DEF OnItsWay
  <2> QED
    BY <1>9, <2>1, <2>3
<1>12. ASSUME NEW h \in Harbor, MarkFailed(a, h) PROVE Going
  <2>1. /\ project' = project /\ hand[a].pc = "sync"
        /\ placement' = [placement EXCEPT ![h] = [placement[h] EXCEPT !.status = "FAILED"]]
        /\ hand' = [hand EXCEPT ![a] = [hand[a] EXCEPT !.pc = "enqueue", !.at = h,
                                                       !.failed = hand[a].failed \ {<<h, 0>>}]]
    BY <1>12, <1>1 DEF MarkFailed
  <2>2. /\ hand'[a].pc = "enqueue" /\ hand'[a].todo = hand[a].todo /\ hand'[a].at = h
        /\ hand'[a].failed = hand[a].failed \ {<<h, 0>>}
    BY <1>s, <2>1 DEF Hand
  <2>3. OnItsWay(a, h)' /\ \A x \in Harbor : OnItsWay(a, x) => OnItsWay(a, x)'
    BY <2>1, <2>2 DEF OnItsWay
  <2>4. \A x \in Harbor : x # h => placement'[x] = placement[x]
    BY <1>s, <2>1
  <2> QED
    BY <1>9, <2>1, <2>3, <2>4
<1>13. ASSUME Enqueue(a) PROVE Going
  <2>1. /\ project' = project /\ placement' = placement /\ hand[a].pc = "enqueue"
        /\ queue' = EnqueueOnce(queue, nextId, hand[a].at, "PROJECT_CREATE", hand[a].gen)
        /\ hand' = [hand EXCEPT ![a] = [hand[a] EXCEPT !.pc = "sync", !.at = None]]
    BY <1>13 DEF Enqueue
  <2>h. PICK h \in Harbor : h = hand[a].at
    BY <1>i, <2>1 DEF TypeInv, HandOK
  <2>2. /\ hand'[a].todo = hand[a].todo /\ hand'[a].failed = hand[a].failed
    BY <1>s, <2>1 DEF Hand
  <2>3. OwesCreation(h)'
    <3>1. \E op \in queue' : /\ op.registry = h /\ op.kind = "PROJECT_CREATE"
                             /\ op.key = hand[a].gen
      BY <2>1, <2>h, CreationQueued
    <3> QED
      BY <1>1, <1>4, <3>1 DEF OwesCreation, Owes, Subject
  <2>4. \A x \in Harbor : x # h /\ OnItsWay(a, x) => OnItsWay(a, x)'
    BY <2>2, <2>h DEF OnItsWay
  <2> QED
    BY <1>9, <2>1, <2>3, <2>4 DEF Marked
<1>14. ASSUME Activated(a) PROVE Going
  <2>1. /\ placement' = placement /\ hand[a].todo = {} /\ hand[a].failed = {}
        /\ hand[a].pc = "sync" /\ hand' = [hand EXCEPT ![a] = IdleHand]
    BY <1>14 DEF Activated, Called, Answer
  <2>2. hand'[a].pc = "idle"
    BY <1>s, <2>1 DEF IdleHand
  <2>3. \A h \in Harbor : Marked(h)'
    BY <1>1, <1>7, <2>1 DEF OnItsWay, Marked
  <2> QED
    BY <2>2, <2>3 DEF ActiveIsMarked
<1>15. ASSUME Crash(a) PROVE Going
  <2>1. project' = project /\ hand'[a].pc = "idle"
    BY <1>15, <1>s DEF Crash, Answer, IdleHand
  <2> QED
    BY <1>1, <2>1
<1> HIDE DEF Going
<1> QED
  BY <1>i, <1>8, <1>10, <1>11, <1>12, <1>13, <1>14, <1>15, SyncStep

\* A step of the pass, or of the people, owes what it marks.
LEMMA FailedOthers ==
  ASSUME Sorts, Apart, FailedInv, Whole,
         (\E h \in Harbor : PassStart(h) \/ Push(h)) \/ Replay
  PROVE  MarkedSoFar'
<1>i. /\ TypeInv /\ ApartInv /\ OneAtATime
      /\ CreationsAreQueued /\ ActivationMarks /\ ActiveIsMarked /\ ReplayIsDone
  BY DEF FailedInv, ApartInv, MarkedSoFar
<1>s. /\ placement \in [Harbor -> Placement] /\ PassOK(pass) /\ pass \in Pass
  BY <1>i DEF TypeInv, TypeOK
<1>r. /\ project' = project /\ hand' = hand
      /\ pass'.ops \subseteq pass.ops \union queue
      /\ queue' = queue \/ (queue' = queue \ {pass.at} /\ pass'.ops \subseteq pass.ops \ {pass.at})
  BY <1>i, OthersStep
<1>1. CreationsAreQueued'
  BY <1>i, <1>r DEF CreationsAreQueued
\* A step that unmarks nothing it is not rid of.
<1> DEFINE Still == \A x \in Harbor : Marked(x) => Marked(x)'
           Parts == ActivationMarks' /\ ActiveIsMarked'
           Goal == Parts /\ ReplayIsDone'
<1>2. ASSUME Still PROVE Parts
  <2>1. \A a \in Admin, x \in Harbor : OnItsWay(a, x)' <=> OnItsWay(a, x)
    BY <1>r DEF OnItsWay
  <2> QED
    BY <1>i, <1>r, <1>2, <2>1 DEF ActivationMarks, ActiveIsMarked
<1>3. placement' = placement /\ queue' = queue => Still
  BY <1>r DEF Marked, OwesCreation, Owes, Subject
<1>4. pass'.pc # "delete" => ReplayIsDone'
  BY DEF ReplayIsDone
<1>11. ASSUME NEW h \in Harbor, PassStart(h) PROVE Goal
  BY <1>2, <1>3, <1>4, <1>11 DEF PassStart, IdlePass
<1>12. ASSUME NEW h \in Harbor, Push(h) PROVE Goal
  <2>1. placement' = placement /\ queue' = queue /\ pass' = pass
    BY <1>12 DEF Push
  <2> QED
    BY <1>i, <1>r, <1>2, <1>3, <2>1 DEF ReplayIsDone
<1>13. ASSUME NEW op \in pass.ops, PassTake(op) PROVE Goal
  <2>1. /\ placement' = placement /\ queue' = queue /\ pass'.at = op
        /\ pass'.pc = "delete" => op.kind # "PROJECT_DELETE" /\ ~Alive(op.key)
    BY <1>13, <1>s DEF PassTake, Pass
  <2>2. ReplayIsDone'
    BY <1>r, <2>1 DEF ReplayIsDone, Alive, Whole
  <2> QED
    BY <1>2, <1>3, <2>1, <2>2
<1>14. ASSUME PassCreate PROVE Goal
  <2>0. Alive(pass.at.key) /\ pass.registry \in Harbor
    BY <1>14, <1>i, <1>s DEF PassCreate, PassOK, OneAtATime
  <2>h. PICK h \in Harbor : h = pass.registry
    BY <2>0
  <2>1. /\ queue' = queue /\ pass' = [pass EXCEPT !.pc = "delete"]
        /\ placement' = [placement EXCEPT ![h] = [id |-> harbor'[h].id, status |-> "ACTIVE"]]
    BY <1>14, <2>0, <2>h DEF PassCreate, Placed
  <2>2. placement'[h].status # "FAILED" /\ \A x \in Harbor : x # h => placement'[x] = placement[x]
    BY <1>s, <2>1
  <2>3. Still
    BY <1>r, <2>1, <2>2 DEF Marked, OwesCreation, Owes, Subject
  <2>4. pass'.registry = h
    BY <1>s, <2>h, <2>1 DEF Pass
  <2> QED
    BY <1>2, <2>2, <2>3, <2>4 DEF ReplayIsDone
<1>15. ASSUME PassCreateFails PROVE Goal
  <2>0. /\ Alive(pass.at.key) /\ pass.registry \in Harbor
        /\ pass.at \in pass.ops /\ pass.at.kind = "PROJECT_CREATE" /\ pass.at.registry = pass.registry
    BY <1>15, <1>i, <1>s DEF PassCreateFails, PassOK, OneAtATime
  <2>h. PICK h \in Harbor : h = pass.registry
    BY <2>0
  <2>1. /\ queue' = queue /\ pass' = IdlePass
        /\ placement' = [placement EXCEPT ![h] = [placement[h] EXCEPT !.status = "FAILED"]]
    BY <1>15, <2>0, <2>h DEF PassCreateFails
  <2>2. OwesCreation(h)'
    BY <1>i, <1>r, <2>0, <2>h, <2>1 DEF CreationsAreQueued, Alive, OwesCreation, Owes, Subject
  <2>3. \A x \in Harbor : x # h => placement'[x] = placement[x]
    BY <1>s, <2>1
  <2>4. Still
    BY <1>r, <2>1, <2>2, <2>3 DEF Marked, OwesCreation, Owes, Subject
  <2>5. pass'.pc # "delete"
    BY <2>1 DEF IdlePass
  <2> QED
    BY <1>2, <1>4, <2>4, <2>5
<1>16. ASSUME PassRemove PROVE Goal
  <2>1. /\ pass.at.kind = "PROJECT_DELETE" /\ placement' = placement /\ queue' = queue
        /\ pass'.at = pass.at
    BY <1>16, <1>s DEF PassRemove, PassOK, Pass
  <2>2. ReplayIsDone'
    BY <2>1 DEF ReplayIsDone
  <2> QED
    BY <1>2, <1>3, <2>1, <2>2
<1>17. ASSUME PassDelete PROVE Goal
  <2>0. pass.registry \in Harbor /\ pass.at.registry = pass.registry /\ pass.pc = "delete"
    BY <1>17, <1>s DEF PassDelete, PassOK
  <2>1. placement' = placement /\ queue' = queue \ {pass.at} /\ pass'.pc # "delete"
    BY <1>17 DEF PassDelete, IdlePass
  <2>2. ASSUME NEW x \in Harbor, Marked(x) PROVE Marked(x)'
    <3>1. CASE pass.at.kind = "PROJECT_CREATE" /\ pass.at.key = project.gen /\ x = pass.registry
      BY <1>i, <2>0, <2>1, <3>1 DEF ReplayIsDone, Marked
    <3>2. CASE ~(pass.at.kind = "PROJECT_CREATE" /\ pass.at.key = project.gen /\ x = pass.registry)
      <4>1. OwesCreation(x) => OwesCreation(x)'
        BY <1>r, <2>0, <2>1, <3>2 DEF OwesCreation, Owes, Subject
      <4> QED
        BY <2>1, <2>2, <4>1 DEF Marked
    <3> QED
      BY <3>1, <3>2
  <2> QED
    BY <1>2, <1>4, <2>1, <2>2
<1>18. ASSUME PassEnds PROVE Goal
  BY <1>2, <1>3, <1>4, <1>18 DEF PassEnds, IdlePass
<1>19. Goal
  <2> HIDE DEF Goal
  <2> QED
    BY <1>11, <1>12, <1>13, <1>14, <1>15, <1>16, <1>17, <1>18 DEF Replay
<1> QED
  BY <1>1, <1>19 DEF MarkedSoFar

\* A step owes what it marks, from the row asked for to its deletion.
LEMMA FailedStep == ASSUME Sorts, Apart PROVE FailedInv /\ [Next]_vars => FailedInv'
<1> SUFFICES ASSUME FailedInv, [Next]_vars, Whole' PROVE MarkedSoFar'
  BY ApartStep DEF FailedInv
<1>i. ApartInv /\ TypeInv
  BY DEF FailedInv, ApartInv
<1>s. hand \in [Admin -> Hand]
  BY <1>i DEF TypeInv, TypeOK
<1>1. CASE UNCHANGED vars
  <2>1. MarkedSoFar
    BY <1>1 DEF FailedInv, Whole, vars
  <2>2. \A h \in Harbor : Marked(h)' <=> Marked(h)
    BY <1>1 DEF vars, Marked, OwesCreation, Owes, Subject
  <2>3. \A a \in Admin, h \in Harbor : OnItsWay(a, h)' <=> OnItsWay(a, h)
    BY <1>1 DEF vars, OnItsWay
  <2>4. ActivationMarks' /\ ActiveIsMarked'
    BY <1>1, <2>1, <2>2, <2>3 DEF MarkedSoFar, vars, ActivationMarks, ActiveIsMarked
  <2> QED
    BY <1>1, <2>1, <2>4 DEF MarkedSoFar, vars, CreationsAreQueued, ReplayIsDone
<1>2. CASE RequestByUser
  <2>1. \A a \in Admin : hand[a].pc \notin {"sync", "enqueue"}
    BY <1>2, <1>i, RequestIs DEF ApartInv, OneAtATime, Working, Alive
  <2> QED
    BY <1>2, <1>i, <2>1, NothingMarked, RequestIs DEF RequestByUser
<1>3. ASSUME NEW a \in Admin, Activation(a) \/ Removal(a) \/ Crash(a) PROVE MarkedSoFar'
  <2>1. CASE RequestByAdmin(a)
    <3>1. Request /\ pass' = pass /\ project.status = "GONE"
          /\ hand' = [hand EXCEPT ![a] = [IdleHand EXCEPT !.pc = "sync", !.gen = project.gen + 1,
                                            !.todo = Harbor \X {0}]]
      BY <2>1 DEF RequestByAdmin, Request, Activate
    <3>2. \A b \in Admin : hand[b].pc \notin {"sync", "enqueue"}
      BY <1>i, <3>1 DEF ApartInv, OneAtATime, Working, Alive
    <3>3. hand'[a].todo = Harbor \X {0} /\ \A b \in Admin : b # a => hand'[b] = hand[b]
      BY <1>s, <3>1 DEF IdleHand
    <3>4. \A b \in Admin : hand'[b].pc \in {"sync", "enqueue"} => hand'[b].todo = Harbor \X {0}
      BY <3>2, <3>3
    <3> QED
      BY <1>i, <3>1, <3>4, NothingMarked
  <2>2. CASE ~RequestByAdmin(a)
    <3>1. Whole
      BY <1>3, <1>i, <2>2, WholeStep
    <3> QED
      BY <1>3, <3>1, FailedIdle, FailedSync
  <2> QED
    BY <2>1, <2>2
<1>4. CASE (\E h \in Harbor : PassStart(h) \/ Push(h)) \/ Replay
  <2>1. Whole
    BY <1>4, <1>i, OthersStep DEF Whole
  <2> QED
    BY <1>4, <2>1, FailedOthers
<1> QED
  BY <1>1, <1>2, <1>3, <1>4 DEF Next

\* A placement shown as failed is owed a replay (schema.prisma: FAILED rows are
\* what the reconciler retries), whoever asks again for a name too soon.
THEOREM FailedHolds ==
  ASSUME Sorts, Apart
  PROVE  Spec => []FailedIsOwed
<1>1. Init => FailedInv
  <2>1. Init => ~Whole
    BY DEF Init, Whole
  <2> QED
    BY <2>1, ApartInit DEF FailedInv
<1>2. FailedInv => FailedIsOwed
  <2> SUFFICES ASSUME FailedInv, project.status = "ACTIVE", ~Removing, ~torn
               PROVE  \A h \in Harbor : placement[h].status = "FAILED" =>
                        Owes(h, "PROJECT_CREATE", project.gen)
    BY DEF FailedIsOwed
  <2>1. Whole
    BY DEF Whole, Removing, Deleting
  <2> QED
    BY <2>1 DEF FailedInv, MarkedSoFar, ActiveIsMarked, Marked, OwesCreation
<1> QED
  BY <1>1, <1>2, FailedStep, PTL DEF Spec

=============================================================================
