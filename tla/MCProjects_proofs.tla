------------------------- MODULE MCProjects_proofs -------------------------
(***************************************************************************)
(* What holds of what happens to a project, in MCProjects.  Of a project   *)
(* requested, approved, deleted and requested again it follows from the    *)
(* theorems about ProjectLifecycle, in the two instances of it that        *)
(* MCProjects follows; of the images of a project, of the accounts its     *)
(* members go by, and of the clusters that Harbors and projects change,    *)
(* from invariants of ArtifactRemoval, Identities and ClusterComposition,  *)
(* for any instance of each.                                               *)
(***************************************************************************)
EXTENDS MCProjects, Naturals, FiniteSetTheorems, TLAPS

LifeProof == INSTANCE ProjectLifecycle_proofs WITH
  Apart <- TRUE, Patient <- TRUE, AnswersLost <- FALSE,
  MaxProjects <- 1, MaxRequests <- 3, MaxCrashes <- 1

NameProof == INSTANCE ProjectLifecycle_proofs WITH
  Admin <- {a1},
  Apart <- TRUE, Patient <- TRUE, AnswersLost <- FALSE,
  MaxProjects <- 2, MaxRequests <- 3, MaxCrashes <- 0

\* The instance of a project that is requested and deleted is the one the theorems are about.
LEMMA SameLife ==
  /\ Life!Init <=> LifeProof!Init
  /\ Life!Next <=> LifeProof!Next
  /\ Life!vars = LifeProof!vars
  /\ Life!TypeOK <=> LifeProof!TypeOK
  /\ Life!ActiveIsHeld <=> LifeProof!ActiveIsHeld
  /\ Life!FailedIsOwed <=> LifeProof!FailedIsOwed
  /\ Life!DeletedIsOwed <=> LifeProof!DeletedIsOwed
  BY DEF
     Life!Activate, LifeProof!Activate, Life!Activated, LifeProof!Activated,
     Life!Activating, LifeProof!Activating, Life!Activation, LifeProof!Activation,
     Life!ActiveIsHeld, LifeProof!ActiveIsHeld, Life!Alive, LifeProof!Alive, Life!Alone,
     LifeProof!Alone, Life!Answer, LifeProof!Answer, Life!Approve, LifeProof!Approve,
     Life!Called, LifeProof!Called, Life!Crash, LifeProof!Crash, Life!Created,
     LifeProof!Created, Life!Delete, LifeProof!Delete, Life!Deleted, LifeProof!Deleted,
     Life!DeletedIsOwed, LifeProof!DeletedIsOwed, Life!Deleting, LifeProof!Deleting,
     Life!Emptied, LifeProof!Emptied, Life!Enqueue, LifeProof!Enqueue, Life!EnqueueDelete,
     LifeProof!EnqueueDelete, Life!EnqueueGrant, LifeProof!EnqueueGrant, Life!EnqueueOnce,
     LifeProof!EnqueueOnce, Life!EnqueueRemoval, LifeProof!EnqueueRemoval,
     Life!FailedIsOwed, LifeProof!FailedIsOwed, Life!Forget, LifeProof!Forget, Life!Hand,
     LifeProof!Hand, Life!HarborProject, LifeProof!HarborProject, Life!IdleHand,
     LifeProof!IdleHand, Life!IdlePass, LifeProof!IdlePass, Life!Init, LifeProof!Init,
     Life!Inspect, LifeProof!Inspect, Life!InspectRefused, LifeProof!InspectRefused,
     Life!Inspected, LifeProof!Inspected, Life!IsOldest, LifeProof!IsOldest, Life!Kind,
     LifeProof!Kind, Life!Known, LifeProof!Known, Life!MarkFailed, LifeProof!MarkFailed,
     Life!Next, LifeProof!Next, Life!NoPlacement, LifeProof!NoPlacement, Life!NoProject,
     LifeProof!NoProject, Life!Op, LifeProof!Op, Life!Owed, LifeProof!Owed, Life!Owes,
     LifeProof!Owes, Life!Pass, LifeProof!Pass, Life!PassCreate, LifeProof!PassCreate,
     Life!PassCreateFails, LifeProof!PassCreateFails, Life!PassDelete, LifeProof!PassDelete,
     Life!PassEnds, LifeProof!PassEnds, Life!PassRemove, LifeProof!PassRemove,
     Life!PassStart, LifeProof!PassStart, Life!PassTake, LifeProof!PassTake, Life!Placed,
     LifeProof!Placed, Life!Placement, LifeProof!Placement, Life!Push, LifeProof!Push,
     Life!Reject, LifeProof!Reject, Life!RejectWrite, LifeProof!RejectWrite, Life!Removal,
     LifeProof!Removal, Life!RemoveFailed, LifeProof!RemoveFailed, Life!RemoveReached,
     LifeProof!RemoveReached, Life!RemoveRefused, LifeProof!RemoveRefused, Life!Removing,
     LifeProof!Removing, Life!Replay, LifeProof!Replay, Life!Replaying, LifeProof!Replaying,
     Life!Request, LifeProof!Request, Life!RequestByAdmin, LifeProof!RequestByAdmin,
     Life!RequestByUser, LifeProof!RequestByUser, Life!Row, LifeProof!Row, Life!Status,
     LifeProof!Status, Life!Subject, LifeProof!Subject, Life!SyncFailed,
     LifeProof!SyncFailed, Life!SyncReached, LifeProof!SyncReached, Life!TypeOK,
     LifeProof!TypeOK, Life!Unrow, LifeProof!Unrow, Life!vars, LifeProof!vars

\* The instance of two projects of one name is the one the theorems are about.
LEMMA SameName ==
  /\ Name!Init <=> NameProof!Init
  /\ Name!Next <=> NameProof!Next
  /\ Name!vars = NameProof!vars
  /\ Name!TypeOK <=> NameProof!TypeOK
  /\ Name!ActiveIsHeld <=> NameProof!ActiveIsHeld
  /\ Name!FailedIsOwed <=> NameProof!FailedIsOwed
  /\ Name!DeletedIsOwed <=> NameProof!DeletedIsOwed
  BY DEF
     Name!Activate, NameProof!Activate, Name!Activated, NameProof!Activated,
     Name!Activating, NameProof!Activating, Name!Activation, NameProof!Activation,
     Name!ActiveIsHeld, NameProof!ActiveIsHeld, Name!Alive, NameProof!Alive, Name!Alone,
     NameProof!Alone, Name!Answer, NameProof!Answer, Name!Approve, NameProof!Approve,
     Name!Called, NameProof!Called, Name!Crash, NameProof!Crash, Name!Created,
     NameProof!Created, Name!Delete, NameProof!Delete, Name!Deleted, NameProof!Deleted,
     Name!DeletedIsOwed, NameProof!DeletedIsOwed, Name!Deleting, NameProof!Deleting,
     Name!Emptied, NameProof!Emptied, Name!Enqueue, NameProof!Enqueue, Name!EnqueueDelete,
     NameProof!EnqueueDelete, Name!EnqueueGrant, NameProof!EnqueueGrant, Name!EnqueueOnce,
     NameProof!EnqueueOnce, Name!EnqueueRemoval, NameProof!EnqueueRemoval,
     Name!FailedIsOwed, NameProof!FailedIsOwed, Name!Forget, NameProof!Forget, Name!Hand,
     NameProof!Hand, Name!HarborProject, NameProof!HarborProject, Name!IdleHand,
     NameProof!IdleHand, Name!IdlePass, NameProof!IdlePass, Name!Init, NameProof!Init,
     Name!Inspect, NameProof!Inspect, Name!InspectRefused, NameProof!InspectRefused,
     Name!Inspected, NameProof!Inspected, Name!IsOldest, NameProof!IsOldest, Name!Kind,
     NameProof!Kind, Name!Known, NameProof!Known, Name!MarkFailed, NameProof!MarkFailed,
     Name!Next, NameProof!Next, Name!NoPlacement, NameProof!NoPlacement, Name!NoProject,
     NameProof!NoProject, Name!Op, NameProof!Op, Name!Owed, NameProof!Owed, Name!Owes,
     NameProof!Owes, Name!Pass, NameProof!Pass, Name!PassCreate, NameProof!PassCreate,
     Name!PassCreateFails, NameProof!PassCreateFails, Name!PassDelete, NameProof!PassDelete,
     Name!PassEnds, NameProof!PassEnds, Name!PassRemove, NameProof!PassRemove,
     Name!PassStart, NameProof!PassStart, Name!PassTake, NameProof!PassTake, Name!Placed,
     NameProof!Placed, Name!Placement, NameProof!Placement, Name!Push, NameProof!Push,
     Name!Reject, NameProof!Reject, Name!RejectWrite, NameProof!RejectWrite, Name!Removal,
     NameProof!Removal, Name!RemoveFailed, NameProof!RemoveFailed, Name!RemoveReached,
     NameProof!RemoveReached, Name!RemoveRefused, NameProof!RemoveRefused, Name!Removing,
     NameProof!Removing, Name!Replay, NameProof!Replay, Name!Replaying, NameProof!Replaying,
     Name!Request, NameProof!Request, Name!RequestByAdmin, NameProof!RequestByAdmin,
     Name!RequestByUser, NameProof!RequestByUser, Name!Row, NameProof!Row, Name!Status,
     NameProof!Status, Name!Subject, NameProof!Subject, Name!SyncFailed,
     NameProof!SyncFailed, Name!SyncReached, NameProof!SyncReached, Name!TypeOK,
     NameProof!TypeOK, Name!Unrow, NameProof!Unrow, Name!vars, NameProof!vars

-----------------------------------------------------------------------------
(* The images of a project: what was removed stays removed.                *)

\* What the constants have to be: no reference and no row is None; the repository is no image.
ArtSorts(how) ==
  /\ None \notin Removal(how)!Reference /\ None \notin Removal(how)!Op
  /\ how.modes \subseteq {"none", "event_based", "scheduled"}
  /\ how.removals \in Nat /\ how.pushes \in Nat

\* A handler that serves nothing has nothing to call; what the pass has in hand is queued.
ArtTyped(how) ==
  /\ Removal(how)!TypeOK
  /\ \A p \in how.people : hand[p].ref = None => hand[p] = Removal(how)!IdleHand
  /\ pass.ops \subseteq queue
  /\ pass.pc \in {"call", "delete"} => pass.at \in pass.ops
  /\ mode # "event_based" => flight = {}

\* An image whose removal is under way, or owed, is not one that is to be kept.
Condemned(how) == \A i \in Image : Removal(how)!Removing(i) => i \notin live

\* The pass has removed ref from Harbor h, and is about to forget the row.
Spent(how, h, ref) == pass.pc = "delete" /\ pass.at.registry = h /\ pass.at.key = ref

\* Image i is going to be removed from Harbor h.
Due(how, h, i) ==
  \/ \E p \in how.people : /\ hand[p].ref # None /\ i \in Removal(how)!Named(hand[p].ref)
                           /\ h \in hand[p].todo \union hand[p].failed
                           /\ ~Spent(how, h, hand[p].ref)
  \/ \E op \in queue : /\ op.registry = h /\ i \in Removal(how)!Named(op.key)
                       /\ ~(pass.pc = "delete" /\ op = pass.at)
  \/ \E x \in flight : x.what = "delete" /\ x.image = i /\ x.to = h

\* Without a mesh each Harbor is due every removal; with one, a Harbor that is carries
\* it to the others.
EachIsDue(how) ==
  mode = "none" => \A i \in Image \ live, h \in Harbor : i \in holds[h] => Due(how, h, i)
OneIsDue(how) ==
  mode = "event_based" =>
    \A i \in Image \ live, h \in Harbor :
      i \in holds[h] => \E g \in Harbor : i \in holds[g] /\ Due(how, g, i)

ArtInv(how) == ArtTyped(how) /\ Condemned(how) /\ Removal(how)!KeptIsServed /\ EachIsDue(how) /\ OneIsDue(how)

\* What a removal from one Harbor changes: it has lost the images, and carries that on.
LEMMA DeletedIs ==
  ASSUME NEW how, ArtSorts(how), ArtTyped(how), NEW h \in Harbor,
         NEW ref \in Removal(how)!Reference, Removal(how)!Deleted(h, ref)
  PROVE  /\ holds' \in [Harbor -> SUBSET Image] /\ flight' \subseteq Removal(how)!Execution /\ flight \subseteq flight'
         /\ holds'[h] = holds[h] \ Removal(how)!Named(ref) /\ \A g \in Harbor \ {h} : holds'[g] = holds[g]
         /\ \A x \in flight' \ flight : x.what = "delete" /\ x.image \in Removal(how)!Named(ref)
         /\ mode # "event_based" => flight' = flight
         /\ mode = "event_based" =>
              \A i \in holds[h] \intersect Removal(how)!Named(ref), g \in Harbor \ {h} :
                \E x \in flight' : x.what = "delete" /\ x.image = i /\ x.to = g
<1>0. holds \in [Harbor -> SUBSET Image] /\ flight \subseteq Removal(how)!Execution
  BY DEF ArtTyped, Removal!TypeOK
<1>1. /\ holds' = [holds EXCEPT ![h] = @ \ Removal(how)!Named(ref)]
      /\ flight' = flight \union Removal(how)!Carried(h, holds[h] \intersect Removal(how)!Named(ref), "delete")
  BY DEF Removal!Deleted
<1>2. Removal(how)!Carried(h, holds[h] \intersect Removal(how)!Named(ref), "delete") \subseteq Removal(how)!Execution
  BY DEF Removal!Carried
<1>3. ASSUME
             NEW x \in Removal(how)!Carried(h, holds[h] \intersect Removal(how)!Named(ref), "delete")
      PROVE  x.what = "delete" /\ x.image \in Removal(how)!Named(ref)
  BY <1>3 DEF Removal!Carried
<1>4. mode # "event_based" =>
        Removal(how)!Carried(h, holds[h] \intersect Removal(how)!Named(ref), "delete") = {}
  BY DEF Removal!Carried
<1>5. ASSUME mode = "event_based", NEW i \in holds[h] \intersect Removal(how)!Named(ref),
             NEW g \in Harbor \ {h}
      PROVE  \E x \in flight' : x.what = "delete" /\ x.image = i /\ x.to = g
  <2> DEFINE x == [from |-> h, to |-> g, image |-> i, what |-> "delete"]
  <2>1. x \in Removal(how)!Execution
    BY <1>0, <1>5 DEF Removal!Execution
  <2>2. x \in Removal(how)!Carried(h, holds[h] \intersect Removal(how)!Named(ref), "delete")
    BY <1>5, <2>1 DEF Removal!Carried
  <2> QED
    BY <1>1, <2>2
<1> QED
  BY <1>0, <1>1, <1>2, <1>3, <1>4, <1>5

\* Removing what nobody is to keep from Harbor h leaves every other Harbor due what it was,
\* or more, as long as whoever is due something but h stays so.
LEMMA RemovalKeeps ==
  ASSUME NEW how, ArtSorts(how), ArtInv(how), NEW h \in Harbor, NEW ref \in Removal(how)!Reference,
         Removal(how)!Deleted(h, ref),
         \A i \in Image : i \in Removal(how)!Named(ref) => i \notin live,
         UNCHANGED <<mode, live, queue>>,
         \A g \in Harbor, i \in Image : Due(how, g, i) /\ (g = h => i \notin Removal(how)!Named(ref)) =>
                                          Due(how, g, i)'
  PROVE  Removal(how)!KeptIsServed' /\ EachIsDue(how)' /\ OneIsDue(how)'
<1>1. Removal(how)!KeptIsServed'
  <2> SUFFICES ASSUME NEW i \in live PROVE \E g \in Harbor : i \in holds'[g]
    BY DEF Removal!KeptIsServed
  <2>1. PICK g \in Harbor : i \in holds[g]
    BY DEF ArtInv, Removal!KeptIsServed
  <2>2. i \notin Removal(how)!Named(ref)
    BY DEF ArtInv, ArtTyped, Removal!TypeOK
  <2> QED
    BY <2>1, <2>2, DeletedIs DEF ArtInv
<1>2. EachIsDue(how)'
  BY DeletedIs DEF ArtInv, EachIsDue
<1>3. OneIsDue(how)'
  <2> SUFFICES ASSUME mode = "event_based", NEW i \in Image \ live, NEW k \in Harbor, i \in holds'[k]
               PROVE  \E g \in Harbor : i \in holds'[g] /\ Due(how, g, i)'
    BY DEF OneIsDue
  <2>1. i \in holds[k] /\ (k = h => i \notin Removal(how)!Named(ref))
    BY DeletedIs DEF ArtInv
  <2>2. PICK g \in Harbor : i \in holds[g] /\ Due(how, g, i)
    BY <2>1 DEF ArtInv, OneIsDue
  <2>3. CASE g = h /\ i \in Removal(how)!Named(ref)
    <3>1. k \in Harbor \ {h}
      BY <2>1, <2>3
    <3>2. \E x \in flight' : x.what = "delete" /\ x.image = i /\ x.to = k
      BY <2>2, <2>3, <3>1, DeletedIs DEF ArtInv
    <3>3. Due(how, k, i)'
      BY <3>2 DEF Due
    <3> QED
      BY <3>3
  <2>4. CASE ~(g = h /\ i \in Removal(how)!Named(ref))
    <3>1. i \in holds'[g]
      BY <2>2, <2>4, DeletedIs DEF ArtInv
    <3>2. Due(how, g, i)'
      BY <2>2, <2>4
    <3> QED
      BY <3>1, <3>2
  <2> QED
    BY <2>3, <2>4
<1> QED
  BY <1>1, <1>2, <1>3

\* A step that leaves the Harbors and what is to be kept alone, and everyone due what they were.
LEMMA StillDue ==
  ASSUME NEW how, ArtInv(how), UNCHANGED <<mode, live, holds>>,
         \A g \in Harbor, i \in Image \ live : i \in holds[g] /\ Due(how, g, i) => Due(how, g, i)'
  PROVE  Removal(how)!KeptIsServed' /\ EachIsDue(how)' /\ OneIsDue(how)'
<1>1. Removal(how)!KeptIsServed'
  BY DEF ArtInv, Removal!KeptIsServed
<1>2. EachIsDue(how)'
  BY DEF ArtInv, EachIsDue
<1>3. OneIsDue(how)'
  BY DEF ArtInv, OneIsDue
<1> QED
  BY <1>1, <1>2, <1>3

\* An image is pushed.
LEMMA PushKeeps ==
  ASSUME NEW how, ArtSorts(how), ArtInv(how), NEW h \in Harbor, NEW i \in Image,
         Removal(how)!Push(h, i)
  PROVE  ArtInv(how)'
<1>1. /\ holds' = [holds EXCEPT ![h] = @ \union {i}] /\ live' = live \union {i}
      /\ ~Removal(how)!Removing(i)
      /\ flight' = flight \union Removal(how)!Carried(h, {i}, "copy") /\ pushes < how.pushes
      /\ pushes' = pushes + 1
      /\ UNCHANGED <<mode, queue, nextId, hand, pass, removals>>
  BY DEF Removal!Push, ArtSorts
<1>2. /\ Removal(how)!Carried(h, {i}, "copy") \subseteq Removal(how)!Execution /\ (mode # "event_based" => Removal(how)!Carried(h, {i}, "copy") = {})
      /\ \A x \in Removal(how)!Carried(h, {i}, "copy") : x.what = "copy"
  BY DEF Removal!Carried
<1>3. holds \in [Harbor -> SUBSET Image] /\ live \subseteq Image /\ pushes \in Nat
  BY DEF ArtInv, ArtTyped, Removal!TypeOK
<1>4. ArtTyped(how)'
  <2>1. /\ holds' \in [Harbor -> SUBSET Image] /\ live' \subseteq Image
        /\ flight' \subseteq Removal(how)!Execution
    BY <1>1, <1>2, <1>3 DEF ArtInv, ArtTyped, Removal!TypeOK
  <2>2. pushes' \in 0..how.pushes
    BY <1>1, <1>3 DEF ArtSorts
  <2>3. Removal(how)!TypeOK'
    BY <1>1, <2>1, <2>2 DEF ArtInv, ArtTyped, Removal!TypeOK
  <2> QED
    BY <1>1, <1>2, <2>3 DEF ArtInv, ArtTyped, Removal!IdleHand
<1>5. Condemned(how)'
  BY <1>1, <1>2 DEF ArtInv, Condemned, Removal!Removing, Removal!Named
<1>6. Removal(how)!KeptIsServed'
  BY <1>1, <1>3 DEF ArtInv, Removal!KeptIsServed
<1>7. ASSUME NEW g \in Harbor, NEW j \in Image, Due(how, g, j) PROVE Due(how, g, j)'
  BY <1>1, <1>7 DEF Due, Spent, Removal!Named
<1>8. \A g \in Harbor, j \in Image \ live' : j \in holds'[g] => j \in holds[g] /\ j \in Image \ live
  BY <1>1, <1>3
<1>9. \A g \in Harbor : holds[g] \subseteq holds'[g]
  BY <1>1, <1>3
<1>10. EachIsDue(how)'
  BY <1>1, <1>7, <1>8 DEF ArtInv, EachIsDue
<1>11. OneIsDue(how)'
  BY <1>1, <1>7, <1>8, <1>9 DEF ArtInv, OneIsDue
<1> QED
  BY <1>4, <1>5, <1>6, <1>10, <1>11 DEF ArtInv

\* An execution of the mesh takes place.
LEMMA ExecuteKeeps ==
  ASSUME NEW how, ArtSorts(how), ArtInv(how), NEW x \in flight, Removal(how)!Execute(x)
  PROVE  ArtInv(how)'
<1> DEFINE copied == x.what = "copy" /\ x.image \in holds[x.from] \ holds[x.to]
           deleted == x.what = "delete" /\ x.image \in holds[x.to]
           carried == IF copied \/ deleted THEN Removal(how)!Carried(x.to, {x.image}, x.what) ELSE {}
<1>0. /\ holds \in [Harbor -> SUBSET Image] /\ live \subseteq Image
      /\ flight \subseteq Removal(how)!Execution
      /\ x \in Removal(how)!Execution /\ x.to \in Harbor /\ x.from \in Harbor /\ x.image \in Image
      /\ mode = "event_based"
  BY DEF ArtInv, ArtTyped, Removal!TypeOK, Removal!Execution
<1>1. /\ holds' = [holds EXCEPT ![x.to] =
                     IF copied THEN @ \union {x.image} ELSE IF deleted THEN @ \ {x.image} ELSE @]
      /\ flight' = (flight \ {x}) \union carried
      /\ UNCHANGED <<mode, live, queue, nextId, hand, pass, removals, pushes>>
  BY DEF Removal!Execute
<1>2. /\ carried \subseteq Removal(how)!Execution
      /\ \A y \in carried : y.what = x.what /\ y.image = x.image
      /\ x.what = "copy" => ~deleted
      /\ x.what = "delete" => ~copied
  BY DEF Removal!Carried
<1>3. deleted => \A g \in Harbor \ {x.to} :
        \E y \in carried : y.what = "delete" /\ y.image = x.image /\ y.to = g
  <2> SUFFICES ASSUME deleted, NEW g \in Harbor \ {x.to}
               PROVE  \E y \in carried : y.what = "delete" /\ y.image = x.image /\ y.to = g
    OBVIOUS
  <2> DEFINE y == [from |-> x.to, to |-> g, image |-> x.image, what |-> "delete"]
  <2>1. y \in Removal(how)!Execution
    BY <1>0 DEF Removal!Execution
  <2>2. y \in carried
    BY <1>0, <2>1 DEF Removal!Carried
  <2> QED
    BY <2>2
<1> HIDE DEF carried
<1>4. ArtTyped(how)'
  <2>1. holds' \in [Harbor -> SUBSET Image] /\ flight' \subseteq Removal(how)!Execution
    BY <1>0, <1>1, <1>2
  <2>2. Removal(how)!TypeOK'
    BY <1>1, <2>1 DEF ArtInv, ArtTyped, Removal!TypeOK
  <2> QED
    BY <1>0, <1>1, <2>2 DEF ArtInv, ArtTyped, Removal!IdleHand
<1>5. Condemned(how)'
  <2> SUFFICES ASSUME NEW i \in Image, Removal(how)!Removing(i)' PROVE i \notin live
    BY <1>1 DEF Condemned
  <2>1. Removal(how)!Removing(i)
    BY <1>1, <1>2 DEF Removal!Removing, Removal!Named
  <2> QED
    BY <2>1 DEF ArtInv, Condemned
<1>6. deleted => x.image \notin live
  BY <1>0 DEF ArtInv, Condemned, Removal!Removing
<1>7. Removal(how)!KeptIsServed'
  BY <1>0, <1>1, <1>6 DEF ArtInv, Removal!KeptIsServed
<1>8. OneIsDue(how)'
  <2> SUFFICES ASSUME NEW i \in Image \ live, NEW k \in Harbor, i \in holds'[k]
               PROVE  \E g \in Harbor : i \in holds'[g] /\ Due(how, g, i)'
    BY <1>1 DEF OneIsDue
  <2>1. CASE deleted /\ x.image = i
    <3>1. k # x.to
      BY <1>0, <1>1, <2>1
    <3>2. \E y \in flight' : y.what = "delete" /\ y.image = i /\ y.to = k
      BY <1>1, <1>3, <2>1, <3>1
    <3>3. Due(how, k, i)'
      BY <3>2 DEF Due
    <3> QED
      BY <3>3
  <2>2. CASE ~(deleted /\ x.image = i)
    <3>1. \E h \in Harbor : i \in holds[h]
      BY <1>0, <1>1, <2>2
    <3>2. PICK g \in Harbor : i \in holds[g] /\ Due(how, g, i)
      BY <1>0, <3>1 DEF ArtInv, OneIsDue
    <3>3. i \in holds'[g]
      BY <1>0, <1>1, <2>2, <3>2
    <3>4. ASSUME NEW y \in flight, y.what = "delete", y.image = i, y.to = g PROVE y \in flight'
      BY <1>1, <2>2, <3>2, <3>4
    <3>5. Due(how, g, i)'
      BY <1>1, <3>2, <3>4 DEF Due, Spent, Removal!Named
    <3> QED
      BY <3>3, <3>5
  <2> QED
    BY <2>1, <2>2
<1>9. EachIsDue(how)'
  BY <1>0, <1>1 DEF EachIsDue
<1> QED
  BY <1>4, <1>5, <1>7, <1>8, <1>9 DEF ArtInv

\* A scheduled copy only adds; nothing is claimed of where images stay with it.
LEMMA ScheduledKeeps ==
  ASSUME NEW how, ArtSorts(how), ArtInv(how), NEW from \in Harbor, NEW to \in Harbor,
         Removal(how)!Scheduled(from, to)
  PROVE  ArtInv(how)'
<1>1. /\ mode = "scheduled" /\ holds' = [holds EXCEPT ![to] = @ \union holds[from]]
      /\ UNCHANGED <<mode, flight, live, queue, nextId, hand, pass, removals, pushes>>
  BY DEF Removal!Scheduled
<1>2. holds \in [Harbor -> SUBSET Image]
  BY DEF ArtInv, ArtTyped, Removal!TypeOK
<1>3. ArtTyped(how)'
  <2>1. Removal(how)!TypeOK'
    BY <1>1, <1>2 DEF ArtInv, ArtTyped, Removal!TypeOK
  <2> QED
    BY <1>1, <2>1 DEF ArtInv, ArtTyped, Removal!IdleHand
<1>4. Condemned(how)'
  BY <1>1 DEF ArtInv, Condemned, Removal!Removing, Removal!Named
<1>5. Removal(how)!KeptIsServed'
  BY <1>1, <1>2 DEF ArtInv, Removal!KeptIsServed
<1> QED
  BY <1>1, <1>3, <1>4, <1>5 DEF ArtInv, EachIsDue, OneIsDue

\* A removal is asked for.
LEMMA RemoveKeeps ==
  ASSUME NEW how, ArtSorts(how), ArtInv(how), NEW p \in how.people,
         NEW ref \in Removal(how)!Reference, Removal(how)!Remove(p, ref)
  PROVE  ArtInv(how)'
<1>1. /\ hand[p].ref = None /\ removals < how.removals /\ removals' = removals + 1
      /\ live' = live \ Removal(how)!Named(ref)
      /\ hand' = [hand EXCEPT ![p] = [Removal(how)!IdleHand EXCEPT !.ref = ref, !.todo = Harbor]]
      /\ UNCHANGED <<mode, holds, flight, queue, nextId, pass, pushes>>
  BY DEF Removal!Remove
<1>2. /\ hand \in [how.people -> [ref : Removal(how)!Reference \union {None}, todo : SUBSET Harbor, failed : SUBSET Harbor]]
      /\ removals \in Nat /\ ref # None
  BY DEF ArtInv, ArtTyped, Removal!TypeOK, ArtSorts
<1>3. /\ hand' \in [how.people -> [ref : Removal(how)!Reference \union {None}, todo : SUBSET Harbor, failed : SUBSET Harbor]]
      /\ hand'[p].ref = ref /\ hand'[p].todo = Harbor
      /\ \A q \in how.people \ {p} : hand'[q] = hand[q]
  BY <1>1, <1>2 DEF Removal!IdleHand
<1>4. ArtTyped(how)'
  <2>1. Removal(how)!TypeOK'
    BY <1>1, <1>2, <1>3 DEF ArtSorts, ArtInv, ArtTyped, Removal!TypeOK
  <2> QED
    BY <1>1, <1>2, <1>3, <2>1 DEF ArtInv, ArtTyped, Removal!IdleHand
<1>5. Condemned(how)'
  <2> SUFFICES ASSUME NEW i \in Image, Removal(how)!Removing(i)', i \in live' PROVE FALSE
    BY DEF Condemned
  <2>1. i \notin Removal(how)!Named(ref) /\ i \in live
    BY <1>1
  <2>2. Removal(how)!Removing(i)
    BY <1>1, <1>3, <2>1 DEF Removal!Removing, Removal!Named
  <2> QED
    BY <2>1, <2>2 DEF ArtInv, Condemned
<1>6. Removal(how)!KeptIsServed'
  BY <1>1 DEF ArtInv, Removal!KeptIsServed
<1>7. ASSUME NEW g \in Harbor, NEW i \in Image \ live, Due(how, g, i) PROVE Due(how, g, i)'
  BY <1>1, <1>3, <1>7 DEF Due, Spent, Removal!Named
<1>8. ASSUME NEW g \in Harbor, NEW i \in Image, i \in live, i \notin live' PROVE Due(how, g, i)'
  <2>1. i \in Removal(how)!Named(ref)
    BY <1>1, <1>8
  <2>2. ~Spent(how, g, ref)
    <3> SUFFICES ASSUME Spent(how, g, ref) PROVE FALSE
      OBVIOUS
    <3>1. pass.at \in queue /\ pass.at.key = ref
      BY DEF Spent, ArtInv, ArtTyped
    <3>2. Removal(how)!Removing(i)
      BY <2>1, <3>1 DEF Removal!Removing
    <3> QED
      BY <1>8, <3>2 DEF ArtInv, Condemned
  <2>3. ~Spent(how, g, ref)'
    BY <1>1, <2>2 DEF Spent
  <2> QED
    BY <1>2, <1>3, <2>1, <2>3 DEF Due, Removal!Named
<1>9. EachIsDue(how)'
  BY <1>1, <1>7, <1>8 DEF ArtInv, EachIsDue
<1>10. OneIsDue(how)'
  BY <1>1, <1>7, <1>8 DEF ArtInv, OneIsDue
<1> QED
  BY <1>4, <1>5, <1>6, <1>9, <1>10 DEF ArtInv

\* A Harbor is called about a removal: it is carried out, or not, or its answer is lost.
LEMMA FanOutKeeps ==
  ASSUME NEW how, ArtSorts(how), ArtInv(how), NEW p \in how.people, NEW h \in Harbor,
         Removal(how)!FanOutReached(p, h) \/ Removal(how)!FanOutFailed(p, h)
  PROVE  ArtInv(how)'
<1>0. /\ hand \in [how.people -> [ref : Removal(how)!Reference \union {None}, todo : SUBSET Harbor, failed : SUBSET Harbor]]
      /\ h \in hand[p].todo
  BY DEF ArtInv, ArtTyped, Removal!TypeOK, Removal!FanOutReached, Removal!FanOutFailed
<1>1. hand[p].ref # None /\ hand[p].ref \in Removal(how)!Reference
  BY <1>0 DEF ArtInv, ArtTyped, Removal!IdleHand
<1>2. \A i \in Image : i \in Removal(how)!Named(hand[p].ref) => i \notin live
  BY <1>1 DEF ArtInv, Condemned, Removal!Removing
<1>3. /\ Removal(how)!Deleted(h, hand[p].ref) \/ UNCHANGED <<holds, flight>>
      /\ UNCHANGED <<mode, live, queue, nextId, pass, removals, pushes>>
      /\ \/ hand' = [hand EXCEPT ![p].todo = @ \ {h}] /\ Removal(how)!Deleted(h, hand[p].ref)
         \/ hand' = [hand EXCEPT ![p].todo = @ \ {h}, ![p].failed = @ \union {h}]
  BY DEF Removal!FanOutReached, Removal!FanOutFailed
<1>4. /\ hand' \in [how.people -> [ref : Removal(how)!Reference \union {None}, todo : SUBSET Harbor, failed : SUBSET Harbor]]
      /\ \A q \in how.people \ {p} : hand'[q] = hand[q]
      /\ hand'[p].ref = hand[p].ref
      /\ hand[p].todo \union hand[p].failed \subseteq hand'[p].todo \union hand'[p].failed \union {h}
      /\ ~Removal(how)!Deleted(h, hand[p].ref) => h \in hand'[p].failed
  BY <1>0, <1>3
<1>5. ArtTyped(how)'
  <2>1. /\ holds' \in [Harbor -> SUBSET Image] /\ flight' \subseteq Removal(how)!Execution
        /\ mode # "event_based" => flight' = flight
    BY <1>1, <1>3, DeletedIs DEF ArtInv, ArtTyped, Removal!TypeOK
  <2>2. Removal(how)!TypeOK'
    BY <1>3, <1>4, <2>1 DEF ArtInv, ArtTyped, Removal!TypeOK
  <2> QED
    BY <1>1, <1>3, <1>4, <2>1, <2>2 DEF ArtInv, ArtTyped, Removal!IdleHand
<1>6. Condemned(how)'
  <2> SUFFICES ASSUME NEW i \in Image, Removal(how)!Removing(i)', i \in live PROVE FALSE
    BY <1>3 DEF Condemned
  <2>1. \A x \in flight' \ flight : x.image \in Removal(how)!Named(hand[p].ref)
    BY <1>1, <1>3, DeletedIs DEF ArtInv
  <2>2. Removal(how)!Removing(i) \/ i \in Removal(how)!Named(hand[p].ref)
    BY <1>3, <1>4, <2>1 DEF Removal!Removing, Removal!Named
  <2> QED
    BY <1>2, <2>2 DEF ArtInv, Condemned
<1>7. CASE Removal(how)!Deleted(h, hand[p].ref)
  <2>1. ASSUME NEW g \in Harbor, NEW i \in Image, Due(how, g, i), g = h => i \notin Removal(how)!Named(hand[p].ref)
        PROVE  Due(how, g, i)'
    <3>1. flight \subseteq flight'
      BY <1>1, <1>7, DeletedIs DEF ArtInv
    <3> QED
      BY <1>3, <1>4, <2>1, <3>1 DEF Due, Spent, Removal!Named
  <2>2. Removal(how)!KeptIsServed' /\ EachIsDue(how)' /\ OneIsDue(how)'
    BY <1>1, <1>2, <1>3, <1>7, <2>1, RemovalKeeps
  <2> QED
    BY <1>5, <1>6, <2>2 DEF ArtInv
<1>8. CASE ~Removal(how)!Deleted(h, hand[p].ref)
  <2>1. UNCHANGED <<holds, flight>>
    BY <1>3, <1>8
  <2>2. ASSUME NEW g \in Harbor, NEW i \in Image, Due(how, g, i) PROVE Due(how, g, i)'
    BY <1>3, <1>4, <1>8, <2>1, <2>2 DEF Due, Spent, Removal!Named
  <2>3. Removal(how)!KeptIsServed' /\ EachIsDue(how)' /\ OneIsDue(how)'
    BY <1>3, <2>1, <2>2, StillDue
  <2> QED
    BY <1>5, <1>6, <2>3 DEF ArtInv
<1> QED
  BY <1>7, <1>8

\* A failed removal is queued, unless it is.
LEMMA EnqueueKeeps ==
  ASSUME NEW how, ArtSorts(how), ArtInv(how), NEW p \in how.people, NEW h \in Harbor,
         Removal(how)!Enqueue(p, h)
  PROVE  ArtInv(how)'
<1>0. /\ hand \in [how.people -> [ref : Removal(how)!Reference \union {None}, todo : SUBSET Harbor, failed : SUBSET Harbor]]
      /\ h \in hand[p].failed /\ nextId \in Nat /\ queue \subseteq Removal(how)!Op
  BY DEF ArtInv, ArtTyped, Removal!TypeOK, Removal!Enqueue
<1>1. hand[p].ref # None /\ hand[p].ref \in Removal(how)!Reference
  BY <1>0 DEF ArtInv, ArtTyped, Removal!IdleHand
<1> DEFINE entry == Removal(how)!Row(nextId, h, "ARTIFACT_DELETE", hand[p].ref)
<1>2. /\ entry \in Removal(how)!Op /\ entry.registry = h /\ entry.key = hand[p].ref
  BY <1>0, <1>1 DEF Removal!Row, Removal!Op
<1>3. /\ queue' = queue \/ queue' = queue \union {entry}
      /\ \E op \in queue' : op.registry = h /\ op.key = hand[p].ref
      /\ nextId' \in Nat
      /\ hand' = [hand EXCEPT ![p].failed = @ \ {h}]
      /\ UNCHANGED <<mode, holds, flight, live, pass, removals, pushes>>
  <2>1. /\ queue' = Removal(how)!EnqueueOnce(queue, nextId, h, "ARTIFACT_DELETE", hand[p].ref)
        /\ nextId' = IF queue' = queue THEN nextId ELSE nextId + 1
        /\ hand' = [hand EXCEPT ![p].failed = @ \ {h}]
        /\ UNCHANGED <<mode, holds, flight, live, pass, removals, pushes>>
    BY DEF Removal!Enqueue
  <2>2. CASE Removal(how)!Subject(queue, h, {"ARTIFACT_DELETE"}, hand[p].ref) # {}
    BY <1>0, <2>1, <2>2 DEF Removal!EnqueueOnce, Removal!Subject
  <2>3. CASE Removal(how)!Subject(queue, h, {"ARTIFACT_DELETE"}, hand[p].ref) = {}
    BY <1>0, <1>2, <2>1, <2>3 DEF Removal!EnqueueOnce
  <2> QED
    BY <2>2, <2>3
<1>4. /\ hand' \in [how.people -> [ref : Removal(how)!Reference \union {None}, todo : SUBSET Harbor, failed : SUBSET Harbor]]
      /\ \A q \in how.people \ {p} : hand'[q] = hand[q]
      /\ hand'[p].ref = hand[p].ref
      /\ hand[p].todo \union hand[p].failed \subseteq hand'[p].todo \union hand'[p].failed \union {h}
  BY <1>0, <1>3
<1> HIDE DEF entry
<1>5. ArtTyped(how)'
  <2>1. Removal(how)!TypeOK'
    BY <1>0, <1>2, <1>3, <1>4 DEF ArtInv, ArtTyped, Removal!TypeOK
  <2> QED
    BY <1>1, <1>3, <1>4, <2>1 DEF ArtInv, ArtTyped, Removal!IdleHand
<1>6. Condemned(how)'
  BY <1>1, <1>2, <1>3, <1>4 DEF ArtInv, Condemned, Removal!Removing, Removal!Named
<1>7. ASSUME NEW g \in Harbor, NEW i \in Image, Due(how, g, i) PROVE Due(how, g, i)'
  <2>1. CASE /\ g = h /\ i \in Removal(how)!Named(hand[p].ref) /\ ~Spent(how, h, hand[p].ref)
    <3>1. PICK op \in queue' : op.registry = h /\ op.key = hand[p].ref
      BY <1>3
    <3>2. ~(pass.pc = "delete" /\ op = pass.at)
      BY <2>1, <3>1 DEF Spent
    <3>3. i \in Removal(how)!Named(op.key) /\ op.registry = g
      BY <2>1, <3>1
    <3> QED
      BY <1>3, <3>2, <3>3 DEF Due, Removal!Named
  <2>2. CASE ~(g = h /\ i \in Removal(how)!Named(hand[p].ref) /\ ~Spent(how, h, hand[p].ref))
    BY <1>3, <1>4, <1>7, <2>2 DEF Due, Spent, Removal!Named
  <2> QED
    BY <2>1, <2>2
<1>8. Removal(how)!KeptIsServed' /\ EachIsDue(how)' /\ OneIsDue(how)'
  BY <1>3, <1>7, StillDue
<1> QED
  BY <1>5, <1>6, <1>8 DEF ArtInv

\* A handler answers, when every Harbor was called and what failed is queued.
LEMMA AnswerKeeps ==
  ASSUME NEW how, ArtSorts(how), ArtInv(how), NEW p \in how.people, Removal(how)!Answer(p)
  PROVE  ArtInv(how)'
<1>1. /\ hand[p].todo = {} /\ hand[p].failed = {}
      /\ hand' = [hand EXCEPT ![p] = Removal(how)!IdleHand]
      /\ UNCHANGED <<mode, holds, flight, live, queue, nextId, pass, removals, pushes>>
  BY DEF Removal!Answer
<1>2. hand \in [how.people -> [ref : Removal(how)!Reference \union {None}, todo : SUBSET Harbor, failed : SUBSET Harbor]]
  BY DEF ArtInv, ArtTyped, Removal!TypeOK
<1>3. /\ hand' \in [how.people -> [ref : Removal(how)!Reference \union {None}, todo : SUBSET Harbor, failed : SUBSET Harbor]]
      /\ hand'[p] = Removal(how)!IdleHand /\ Removal(how)!IdleHand.ref = None /\ \A q \in how.people \ {p} : hand'[q] = hand[q]
  BY <1>1, <1>2 DEF Removal!IdleHand
<1>4. ArtTyped(how)'
  <2>1. Removal(how)!TypeOK'
    BY <1>1, <1>3 DEF ArtInv, ArtTyped, Removal!TypeOK
  <2> QED
    BY <1>1, <1>3, <2>1 DEF ArtInv, ArtTyped, Removal!IdleHand
<1>5. Condemned(how)'
  BY <1>1, <1>3 DEF ArtInv, Condemned, Removal!Removing, Removal!Named
<1>6. ASSUME NEW g \in Harbor, NEW i \in Image, Due(how, g, i) PROVE Due(how, g, i)'
  BY <1>1, <1>3, <1>6 DEF Due, Spent, Removal!Named
<1>7. Removal(how)!KeptIsServed' /\ EachIsDue(how)' /\ OneIsDue(how)'
  BY <1>1, <1>6, StillDue
<1> QED
  BY <1>4, <1>5, <1>7 DEF ArtInv

\* The pass begins, takes a row, or ends.
LEMMA PassMoves ==
  ASSUME NEW how, ArtSorts(how), ArtInv(how),
         \/ \E h \in Harbor : Removal(how)!PassStart(h)
         \/ \E op \in pass.ops : Removal(how)!PassTake(op)
         \/ Removal(how)!PassEnds
  PROVE  ArtInv(how)'
<1>0. /\ pass \in [pc : {"idle", "next", "call", "delete"}, ops : SUBSET Removal(how)!Op, at : Removal(how)!Op \union {None}]
      /\ queue \subseteq Removal(how)!Op /\ pass.ops \subseteq queue
  BY DEF ArtInv, ArtTyped, Removal!TypeOK
<1>1. /\ UNCHANGED <<mode, holds, flight, live, queue, nextId, hand, removals, pushes>>
      /\ pass' \in [pc : {"idle", "next", "call", "delete"}, ops : SUBSET Removal(how)!Op, at : Removal(how)!Op \union {None}]
      /\ pass'.pc # "delete" /\ pass'.ops \subseteq queue
      /\ pass'.pc = "call" => pass'.at \in pass'.ops
  <2>1. CASE \E h \in Harbor : Removal(how)!PassStart(h)
    BY <1>0, <2>1 DEF Removal!PassStart, Removal!IdlePass, Removal!Owed
  <2>2. CASE \E op \in pass.ops : Removal(how)!PassTake(op)
    BY <1>0, <2>2 DEF Removal!PassTake
  <2>3. CASE Removal(how)!PassEnds
    BY <2>3 DEF Removal!PassEnds, Removal!IdlePass
  <2> QED
    BY <2>1, <2>2, <2>3
<1>2. ArtTyped(how)'
  <2>1. Removal(how)!TypeOK'
    BY <1>1 DEF ArtInv, ArtTyped, Removal!TypeOK
  <2> QED
    BY <1>1, <2>1 DEF ArtInv, ArtTyped, Removal!IdleHand
<1>3. Condemned(how)'
  BY <1>1 DEF ArtInv, Condemned, Removal!Removing, Removal!Named
<1>4. ASSUME NEW g \in Harbor, NEW i \in Image, Due(how, g, i) PROVE Due(how, g, i)'
  BY <1>1, <1>4 DEF Due, Spent, Removal!Named
<1>5. Removal(how)!KeptIsServed' /\ EachIsDue(how)' /\ OneIsDue(how)'
  BY <1>1, <1>4, StillDue
<1> QED
  BY <1>2, <1>3, <1>5 DEF ArtInv

\* The pass calls the Harbor about the row.
LEMMA PassCallKeeps ==
  ASSUME NEW how, ArtSorts(how), ArtInv(how), Removal(how)!PassCall
  PROVE  ArtInv(how)'
<1>0. /\ pass \in [pc : {"idle", "next", "call", "delete"}, ops : SUBSET Removal(how)!Op, at : Removal(how)!Op \union {None}]
      /\ queue \subseteq Removal(how)!Op /\ pass.ops \subseteq queue /\ pass.at \in pass.ops
  BY DEF ArtInv, ArtTyped, Removal!TypeOK, Removal!PassCall
<1>1. pass.at \in queue /\ pass.at.registry \in Harbor /\ pass.at.key \in Removal(how)!Reference
  BY <1>0 DEF Removal!Op
<1>2. /\ Removal(how)!Deleted(pass.at.registry, pass.at.key) /\ pass.pc = "call"
      /\ pass' = [pass EXCEPT !.pc = "delete"]
      /\ UNCHANGED <<mode, live, queue, nextId, hand, removals, pushes>>
  BY DEF Removal!PassCall
<1>3. pass'.pc = "delete" /\ pass'.at = pass.at /\ pass'.ops = pass.ops
      /\ pass' \in [pc : {"idle", "next", "call", "delete"}, ops : SUBSET Removal(how)!Op, at : Removal(how)!Op \union {None}]
  BY <1>0, <1>2
<1>4. \A i \in Image : i \in Removal(how)!Named(pass.at.key) => i \notin live
  BY <1>1 DEF ArtInv, Condemned, Removal!Removing
<1>5. ArtTyped(how)'
  <2>1. /\ holds' \in [Harbor -> SUBSET Image] /\ flight' \subseteq Removal(how)!Execution
        /\ mode # "event_based" => flight' = flight
    BY <1>1, <1>2, DeletedIs DEF ArtInv
  <2>2. Removal(how)!TypeOK'
    BY <1>2, <1>3, <2>1 DEF ArtInv, ArtTyped, Removal!TypeOK
  <2> QED
    BY <1>0, <1>2, <1>3, <2>1, <2>2 DEF ArtInv, ArtTyped, Removal!IdleHand
<1>6. Condemned(how)'
  <2> SUFFICES ASSUME NEW i \in Image, Removal(how)!Removing(i)', i \in live PROVE FALSE
    BY <1>2 DEF Condemned
  <2>1. \A x \in flight' \ flight : x.image \in Removal(how)!Named(pass.at.key)
    BY <1>1, <1>2, DeletedIs DEF ArtInv
  <2>2. Removal(how)!Removing(i) \/ i \in Removal(how)!Named(pass.at.key)
    BY <1>2, <2>1 DEF Removal!Removing, Removal!Named
  <2> QED
    BY <1>4, <2>2 DEF ArtInv, Condemned
<1>7. ASSUME NEW g \in Harbor, NEW i \in Image, Due(how, g, i),
             g = pass.at.registry => i \notin Removal(how)!Named(pass.at.key)
      PROVE  Due(how, g, i)'
  <2>1. flight \subseteq flight'
    BY <1>1, <1>2, DeletedIs DEF ArtInv
  <2> QED
    BY <1>2, <1>3, <1>7, <2>1 DEF Due, Spent, Removal!Named
<1>8. Removal(how)!KeptIsServed' /\ EachIsDue(how)' /\ OneIsDue(how)'
  BY <1>1, <1>2, <1>4, <1>7, RemovalKeeps
<1> QED
  BY <1>5, <1>6, <1>8 DEF ArtInv

\* The row is forgotten: it stood for nothing any more.
LEMMA PassDeleteKeeps ==
  ASSUME NEW how, ArtSorts(how), ArtInv(how), Removal(how)!PassDelete
  PROVE  ArtInv(how)'
<1>0. /\ pass \in [pc : {"idle", "next", "call", "delete"}, ops : SUBSET Removal(how)!Op, at : Removal(how)!Op \union {None}]
      /\ queue \subseteq Removal(how)!Op /\ pass.ops \subseteq queue
  BY DEF ArtInv, ArtTyped, Removal!TypeOK
<1>1. /\ pass.pc = "delete" /\ queue' = queue \ {pass.at}
      /\ pass' = [Removal(how)!IdlePass EXCEPT !.pc = "next", !.ops = pass.ops \ {pass.at}]
      /\ UNCHANGED <<mode, holds, flight, live, nextId, hand, removals, pushes>>
  BY DEF Removal!PassDelete
<1>2. /\ pass'.pc = "next" /\ pass'.ops = pass.ops \ {pass.at}
      /\ pass' \in [pc : {"idle", "next", "call", "delete"}, ops : SUBSET Removal(how)!Op, at : Removal(how)!Op \union {None}]
  BY <1>0, <1>1 DEF Removal!IdlePass
<1>3. ArtTyped(how)'
  <2>1. Removal(how)!TypeOK'
    BY <1>0, <1>1, <1>2 DEF ArtInv, ArtTyped, Removal!TypeOK
  <2> QED
    BY <1>0, <1>1, <1>2, <2>1 DEF ArtInv, ArtTyped, Removal!IdleHand
<1>4. Condemned(how)'
  BY <1>1 DEF ArtInv, Condemned, Removal!Removing, Removal!Named
<1>5. ASSUME NEW g \in Harbor, NEW i \in Image, Due(how, g, i) PROVE Due(how, g, i)'
  BY <1>1, <1>2, <1>5 DEF Due, Spent, Removal!Named
<1>6. Removal(how)!KeptIsServed' /\ EachIsDue(how)' /\ OneIsDue(how)'
  BY <1>1, <1>5, StillDue
<1> QED
  BY <1>3, <1>4, <1>6 DEF ArtInv

\* At first every image there is is to be kept.
LEMMA ArtStarts == ASSUME NEW how, ArtSorts(how), Removal(how)!Init PROVE ArtInv(how)
<1>1. holds \in [Harbor -> SUBSET Image] /\ live = UNION {holds[h] : h \in Harbor}
  BY DEF Removal!Init
<1>2. live \subseteq Image /\ \A h \in Harbor : holds[h] \subseteq live
  BY <1>1
<1>3. ArtTyped(how)
  BY <1>1, <1>2
     DEF Removal!Init, ArtSorts, ArtTyped, Removal!TypeOK, Removal!IdleHand, Removal!IdlePass
<1>4. \A i \in Image : ~Removal(how)!Removing(i)
  BY DEF Removal!Init, Removal!Removing, Removal!IdleHand
<1>5. Removal(how)!KeptIsServed
  BY <1>1 DEF Removal!KeptIsServed
<1> QED
  BY <1>2, <1>3, <1>4, <1>5 DEF ArtInv, Condemned, EachIsDue, OneIsDue

\* Any step keeps the invariant.
LEMMA ArtNext ==
  ASSUME NEW how, ArtSorts(how), ArtInv(how), [Removal(how)!Next]_(Removal(how)!vars)
  PROVE  ArtInv(how)'
<1>1. CASE UNCHANGED Removal(how)!vars
  <2>1. UNCHANGED <<mode, holds, flight, live, queue, nextId, hand, pass, removals, pushes>>
    BY <1>1 DEF Removal!vars
  <2>2. Removal(how)!TypeOK'
    BY <2>1 DEF ArtInv, ArtTyped, Removal!TypeOK, Removal!Op, Removal!Reference, Removal!Execution
  <2>3. ArtTyped(how)'
    BY <2>1, <2>2 DEF ArtInv, ArtTyped, Removal!IdleHand
  <2>4. Condemned(how)' /\ Removal(how)!KeptIsServed'
    BY <2>1 DEF ArtInv, Condemned, Removal!Removing, Removal!Named, Removal!KeptIsServed
  <2>5. \A h, i : Due(how, h, i)' <=> Due(how, h, i)
    BY <2>1 DEF Due, Spent, Removal!Named
  <2>6. EachIsDue(how)' /\ OneIsDue(how)'
    BY <2>1, <2>5 DEF ArtInv, EachIsDue, OneIsDue
  <2> QED
    BY <2>3, <2>4, <2>6 DEF ArtInv
<1>2. ASSUME NEW p \in how.people, Removal(how)!Handler(p) PROVE ArtInv(how)'
  BY <1>2, RemoveKeeps, FanOutKeeps, EnqueueKeeps, AnswerKeeps DEF Removal!Handler
<1>3. CASE Removal(how)!Replay
  BY <1>3, PassMoves, PassCallKeeps, PassDeleteKeeps DEF Removal!Replay
<1>4. CASE Removal(how)!Mesh
  BY <1>4, PushKeeps, ExecuteKeeps, ScheduledKeeps DEF Removal!Mesh
<1> QED
  BY <1>1, <1>2, <1>3, <1>4 DEF Removal!Next

\* At rest nothing is due, so nothing that was removed is left.
LEMMA RemovedShown ==
  ASSUME NEW how, ArtSorts(how), ArtInv(how), mode # "scheduled"
  PROVE  Removal(how)!StaysRemoved
<1> SUFFICES ASSUME Removal(how)!AtRest, NEW h \in Harbor, NEW i \in holds[h], i \notin live PROVE FALSE
  BY DEF Removal!StaysRemoved
<1>1. i \in Image /\ mode \in {"none", "event_based"}
  BY DEF ArtInv, ArtTyped, Removal!TypeOK
<1>2. \A g \in Harbor : ~Due(how, g, i)
  BY DEF Removal!AtRest, Due
<1> QED
  BY <1>1, <1>2 DEF ArtInv, EachIsDue, OneIsDue

-----------------------------------------------------------------------------
(* The accounts people go by: every grant is somebody's, every member is   *)
(* let in.                                                                 *)

\* What the constants have to be.  Accounts are spelt in one way, and nobody is
\* mapped to an account of the directory.
IdSorts(how) ==
  /\ how.fold \in [Naming(how)!Account -> Naming(how)!Account]
  /\ \A a, b \in Naming(how)!Account : how.fold[a] = how.fold[b] => a = b
  /\ \A u, v \in how.users : how.usernames[u] = how.usernames[v] => u = v
  /\ \A u \in how.users : how.usernames[u] \notin how.mappable
  /\ None \notin Naming(how)!Account /\ None \notin how.users /\ None \notin how.projects
  /\ None \notin Naming(how)!Op
  /\ how.requests \in Nat

Busy(how, m) == hand[m].pc # "idle"

\* One handler at a time, and none while the pass has a row in hand.
Alone(how) ==
  /\ \A m, n \in how.admins : Busy(how, m) /\ Busy(how, n) => m = n
  /\ pass.at # None => \A m \in how.admins : ~Busy(how, m)
  /\ (pass.at # None) <=> (pass.pc \in {"call", "delete"})
  /\ pass.pc = "idle" => pass = Naming(how)!IdlePass
  /\ \A m \in how.admins : ~Busy(how, m) => hand[m] = Naming(how)!IdleHand

\* Nobody goes by the account of somebody else.
Distinct(how) ==
  \A u, v \in how.users : mapping[u] # None /\ mapping[u] = mapping[v] => u = v

\* Rows have an id, a subject, and a person each; a removal the pass has in its snapshot
\* is still owed.
Rows(how) ==
  /\ \A o \in queue \union pass.ops : o.id < nextId
  /\ \A o, r \in queue \union pass.ops : o.id = r.id => o = r
  /\ \A o, r \in queue : o.registry = r.registry /\ o.key.project = r.key.project
                         /\ o.key.account = r.key.account => o = r
  /\ \A o, r \in pass.ops : o.registry = r.registry /\ o.key.project = r.key.project
                            /\ o.key.account = r.key.account => o = r
  /\ pass.at # None => pass.at \in pass.ops
  /\ \A o \in pass.ops : o.kind = "MEMBER_REMOVE" =>
       \E r \in queue : /\ r.registry = o.registry /\ r.kind = "MEMBER_REMOVE"
                        /\ r.key.project = o.key.project /\ r.key.account = o.key.account
  /\ \A o \in queue \union pass.ops, u \in how.users : o.key.account = how.usernames[u] =>
                                                         o.key.user = u
  /\ \A o \in queue, u \in how.users :
       o.kind = "MEMBER_ADD" /\ Naming(how)!Resolved(u) # None /\ o.key.account = Naming(how)!Resolved(u) =>
         o.key.user = u

\* On a cluster with a directory of its own, whoever has no account was granted nothing.
Directory(how) ==
  mode = "MAPPED" =>
    \A p \in how.projects, u \in how.users : <<p, u>> \in row /\ mapping[u] = None =>
                                               <<p, u>> \in withdrawn

\* What a handler has in hand.
Serves(how, m) ==
  LET h == hand[m] IN
  /\ Busy(how, m) => h.user \in how.users
  /\ Busy(how, m) /\ h.kind \in {"add", "drop"} => h.project \in how.projects
  /\ Busy(how, m) /\ h.kind \in {"add", "map"} => h.name \in Naming(how)!Account
  /\ h.pc = "write" => h.kind \in {"map", "unmap", "add"}
  /\ h.pc = "upsert" => h.kind = "add"
  /\ h.pc = "unrow" => h.kind = "drop"
  /\ h.pc = "revoke" => h.kind \in {"map", "unmap", "drop"}
  /\ h.pc \in {"load", "grant"} => h.kind \in {"map", "add"}
  /\ h.todo # {} => h.pc \in {"revoke", "grant"}
  /\ h.pc = "write" /\ h.kind = "map" => h.old = mapping[h.user] /\ h.name \in how.mappable
  /\ h.pc = "write" /\ h.kind = "unmap" => h.old = mapping[h.user] /\ h.old # None
  /\ h.pc = "write" /\ h.kind = "add" =>
       h.name \in how.mappable /\ (Naming(how)!Held(h.user) = {} \/ h.name = mapping[h.user])
  /\ h.pc = "write" /\ h.kind \in {"map", "add"} => ~Naming(how)!Taken(h.name, h.user)
  /\ h.kind = "add" /\ h.pc \in {"upsert", "load", "grant"} => h.name = Naming(how)!Resolved(h.user)
  /\ h.kind = "add" /\ h.pc \in {"load", "grant"} => <<h.project, h.user>> \in row
  /\ h.kind = "add" /\ h.pc \in {"write", "upsert", "load"} => ~h.reached
  /\ h.kind = "add" /\ h.pc = "grant" => h.todo \subseteq {h.project} \X how.harbors
  /\ h.kind = "map" /\ h.pc \in {"revoke", "load", "grant"} =>
       mapping[h.user] # None /\ Naming(how)!Held(h.user) # {}
  /\ h.kind = "map" /\ h.pc = "grant" => h.name = Naming(how)!Resolved(h.user) /\ h.todo \subseteq Naming(how)!Held(h.user) \X how.harbors
  /\ h.kind = "drop" /\ Busy(how, m) => <<h.project, h.user>> \in row
  /\ h.kind = "drop" /\ h.pc = "revoke" => h.name # None /\ h.name = Naming(how)!Resolved(h.user) /\ h.todo \subseteq {h.project} \X how.harbors
  /\ h.pc = "unrow" => Naming(how)!Resolved(h.user) = None
  /\ h.pc = "revoke" /\ h.kind # "drop" =>
       h.name # None /\ \A u \in how.users : Naming(how)!Resolved(u) # h.name
  /\ h.pc = "revoke" => \A u \in how.users : h.name = how.usernames[u] => u = h.user
  /\ h.pc = "revoke" /\ h.kind = "unmap" => \A p \in how.projects : <<p, h.user>> \in row => <<p, h.user>> \in withdrawn
  /\ h.pc = "revoke" => \A o \in queue : o.kind = "MEMBER_ADD" /\ o.key.account = h.name => o.key.user = h.user

\* The account a handler is going to grant.
Target(how, m) == IF hand[m].kind = "map" /\ hand[m].pc \in {"revoke", "load"} THEN mapping[hand[m].user]
             ELSE hand[m].name
\* It is owed to nobody else, and no removal of it is owed.
Clear(how, m) ==
  Busy(how, m) /\ hand[m].kind \in {"map", "add"} =>
    \A o \in queue : o.key.account = Target(how, m) =>
                       o.kind = "MEMBER_ADD" /\ o.key.user = hand[m].user

\* The removal of an account that a member goes by is owed only after its mapping was dropped.
Leaving(how, p, u) == \E m \in how.admins : hand[m].kind = "drop" /\ hand[m].pc = "revoke" /\ hand[m].project = p /\ hand[m].user = u
Unowed(how) ==
  \A o \in queue, u \in how.users :
    <<o.key.project, u>> \in row /\ o.kind = "MEMBER_REMOVE" /\ Naming(how)!Resolved(u) = o.key.account
      => <<o.key.project, u>> \in withdrawn \/ Leaving(how, o.key.project, u)

\* GrantIsSomebodys, while a request is served.
RemovalOwed(how, h, p, a) ==
  \E o \in queue : o.registry = h /\ o.kind = "MEMBER_REMOVE" /\ o.key.project = p /\ how.fold[o.key.account] = a
Somebodys(how, p, a) == \E u \in how.users : <<p, u>> \in row /\ Naming(how)!Resolved(u) # None /\ how.fold[Naming(how)!Resolved(u)] = a
Revoking(how, h, p, a) ==
  \E m \in how.admins : hand[m].pc = "revoke" /\ <<p, h>> \in hand[m].todo /\ how.fold[hand[m].name] = a
Granted(how) ==
  \A h \in how.harbors, p \in how.projects, a \in Naming(how)!Account :
    <<h, p, a>> \in grant =>
      Somebodys(how, p, a) \/ RemovalOwed(how, h, p, a) \/ Revoking(how, h, p, a)

\* What a handler has revoked, or has not granted yet.
Called(how) ==
  \A m \in how.admins, h \in how.harbors :
    LET p == hand[m].project IN
    /\ hand[m].kind = "drop" /\ hand[m].pc = "revoke" /\ <<p, h>> \notin hand[m].todo =>
         <<h, p, how.fold[hand[m].name]>> \notin grant \/ RemovalOwed(how, h, p, how.fold[hand[m].name])
    /\ hand[m].kind = "add" /\ hand[m].pc \in {"load", "grant"} /\ ~hand[m].had /\ ~hand[m].reached =>
         <<h, p, how.fold[hand[m].name]>> \notin grant

\* MemberIsLetIn, while a request is served.
IsLetIn(how, p, u, h) ==
  \/ <<p, u>> \in withdrawn \/ Naming(how)!Resolved(u) = None
  \/ <<h, p, how.fold[Naming(how)!Resolved(u)]>> \in grant
  \/ \E o \in queue : /\ o.registry = h /\ o.kind = "MEMBER_ADD"
                       /\ o.key.project = p /\ o.key.user = u
Joining(how, p, u, h) ==
  \E m \in how.admins : /\ hand[m].user = u
                        /\ \/ hand[m].kind = "map" /\ hand[m].pc \in {"revoke", "load"}
                           \/ hand[m].kind = "add" /\ hand[m].pc = "load" /\ hand[m].project = p
                           \/ hand[m].pc = "grant" /\ <<p, h>> \in hand[m].todo
LetIn(how) ==
  \A p \in how.projects, u \in how.users, h \in how.harbors :
    <<p, u>> \in row => IsLetIn(how, p, u, h) \/ Leaving(how, p, u) \/ Joining(how, p, u, h)

\* What the pass has in hand.
InPass(how) ==
  LET o == pass.at
      now == IF <<o.key.project, o.key.user>> \in row THEN Naming(how)!Resolved(o.key.user) ELSE None
  IN
  pass.at # None =>
    /\ o.kind = "MEMBER_REMOVE" => pass.name = o.key.account
    /\ o.kind = "MEMBER_ADD" => pass.name = now
    /\ pass.pc = "call" => pass.name # None
    /\ pass.pc = "delete" /\ o.kind = "MEMBER_REMOVE" =>
         <<o.registry, o.key.project, how.fold[pass.name]>> \notin grant
    /\ pass.pc = "delete" /\ o.kind = "MEMBER_ADD" /\ pass.name # None =>
         <<o.registry, o.key.project, how.fold[pass.name]>> \in grant

IdInv(how) ==
  /\ Naming(how)!TypeOK /\ Alone(how) /\ Distinct(how) /\ Rows(how) /\ Directory(how)
  /\ \A m \in how.admins : Serves(how, m) /\ Clear(how, m)
  /\ Unowed(how) /\ Granted(how) /\ Called(how) /\ LetIn(how) /\ InPass(how)

\* What the types say of a name, of the accounts, and of a row.
LEMMA IdFacts ==
  ASSUME NEW how, IdSorts(how), Naming(how)!TypeOK
  PROVE  /\ \A u \in how.users : Naming(how)!Resolved(u) \in Naming(how)!Account \union {None}
         /\ \A a, b \in Naming(how)!Account : how.fold[a] = how.fold[b] => a = b
         /\ how.mappable \subseteq Naming(how)!Account /\ None \notin Naming(how)!Account
         /\ \A u \in how.users : how.usernames[u] \in Naming(how)!Account
         /\ \A o \in queue \union pass.ops :
              /\ o \in Naming(how)!Op /\ o.id \in Nat /\ o.registry \in how.harbors
              /\ o.kind \in {"MEMBER_ADD", "MEMBER_REMOVE"}
              /\ o.key.project \in how.projects /\ o.key.account \in Naming(how)!Account
              /\ o.key.user \in how.users
         /\ nextId \in Nat /\ hand \in [how.admins -> Naming(how)!Hand] /\ pass \in Naming(how)!Pass
         /\ None \notin Naming(how)!Op
<1>1. how.mappable \subseteq Naming(how)!Account /\ \A u \in how.users : how.usernames[u] \in Naming(how)!Account
  BY DEF Naming!Account
<1>2. \A u \in how.users : Naming(how)!Resolved(u) \in Naming(how)!Account \union {None}
  BY <1>1 DEF Naming!TypeOK, Naming!Resolved
<1>3. queue \subseteq Naming(how)!Op /\ pass.ops \subseteq Naming(how)!Op
  BY DEF Naming!TypeOK, Naming!Pass
<1> QED
  BY <1>1, <1>2, <1>3 DEF IdSorts, Naming!TypeOK, Naming!Op

\* Nobody goes by the name of somebody else.
LEMMA ResolvedOne ==
  ASSUME NEW how, IdSorts(how), Naming(how)!TypeOK, Distinct(how)
  PROVE  /\ \A u, v \in how.users : Naming(how)!Resolved(u) = Naming(how)!Resolved(v) /\ Naming(how)!Resolved(u) # None => u = v
         /\ \A u, v \in how.users : Naming(how)!Resolved(u) = how.usernames[v] => u = v
<1>1. /\ \A u \in how.users : mapping[u] \in how.mappable \union {None}
      /\ \A u \in how.users : how.usernames[u] \notin how.mappable /\ how.usernames[u] # None
      /\ \A u, v \in how.users : how.usernames[u] = how.usernames[v] => u = v
  BY DEF IdSorts, Naming!TypeOK, Naming!Account
<1>2. \A u, v \in how.users : Naming(how)!Resolved(u) = how.usernames[v] => u = v
  BY <1>1 DEF Naming!Resolved
<1> QED
  BY <1>1, <1>2 DEF Distinct, Naming!Resolved

\* A handler that serves nothing is as it was at first.
LEMMA IdleServes ==
  ASSUME NEW how, IdSorts(how), NEW m \in how.admins, hand[m] = Naming(how)!IdleHand
  PROVE  Serves(how, m) /\ Clear(how, m)
  BY DEF Serves, Clear, Busy, Naming!IdleHand

\* While a handler serves a request nobody else does, and the pass has no row in hand.
LEMMA OneBusy ==
  ASSUME NEW how, IdSorts(how), Naming(how)!TypeOK, Alone(how), NEW m \in how.admins, Busy(how, m)
  PROVE  pass.at = None /\ \A n \in how.admins \ {m} : hand[n] = Naming(how)!IdleHand /\ ~Busy(how, n)
  BY DEF Alone

\* A step of one handler leaves the others as they are.
LEMMA OthersIdle ==
  ASSUME NEW how, IdSorts(how), Naming(how)!TypeOK, Alone(how), NEW m \in how.admins, Busy(how, m),
         NEW new \in Naming(how)!Hand,
         hand' = [hand EXCEPT ![m] = new], new.pc = "idle" =>
           new = Naming(how)!IdleHand, pass' = pass
  PROVE  /\ hand' \in [how.admins -> Naming(how)!Hand] /\ hand'[m] = new
         /\ \A n \in how.admins \ {m} : hand'[n] = Naming(how)!IdleHand
         /\ Alone(how)'
<1>0. hand \in [how.admins -> Naming(how)!Hand]
  BY DEF Naming!TypeOK
<1>1. /\ pass.at = None /\ \A n \in how.admins \ {m} : hand[n] = Naming(how)!IdleHand
  BY OneBusy
<1>2. hand' \in [how.admins -> Naming(how)!Hand] /\ hand'[m] = new /\ \A n \in how.admins \ {m} : hand'[n] = Naming(how)!IdleHand
  BY <1>0, <1>1
<1>3. Naming(how)!IdleHand.pc = "idle"
  BY DEF Naming!IdleHand
<1>4. \A n \in how.admins : (hand'[n].pc # "idle") => n = m
  BY <1>2, <1>3
<1> QED
  BY <1>1, <1>2, <1>3, <1>4 DEF Alone, Busy, Naming!IdlePass

\* While no handler revokes or grants, what is true of grants and members shows.
LEMMA Quiet ==
  ASSUME NEW how, IdSorts(how), IdInv(how),
         \A n \in how.admins : hand[n].pc \notin {"revoke", "load", "grant"}
  PROVE  /\ \A p \in how.projects, u \in how.users, h \in how.harbors : <<p, u>> \in row => IsLetIn(how, p, u, h)
         /\ \A h \in how.harbors, p \in how.projects, a \in Naming(how)!Account :
              <<h, p, a>> \in grant => Somebodys(how, p, a) \/ RemovalOwed(how, h, p, a)
         /\ \A o \in queue, u \in how.users :
              <<o.key.project, u>> \in row /\ o.kind = "MEMBER_REMOVE" /\ Naming(how)!Resolved(u) = o.key.account
                => <<o.key.project, u>> \in withdrawn
<1>1. /\ \A p, u : ~Leaving(how, p, u)
      /\ \A p, u, h : ~Joining(how, p, u, h) /\ ~Revoking(how, h, p, u)
  BY DEF Leaving, Joining, Revoking
<1>2. LetIn(how) /\ Granted(how) /\ Unowed(how)
  BY DEF IdInv
<1> QED
  BY <1>1, <1>2 DEF LetIn, Granted, Unowed

\* A request is taken up, of which nothing was carried out.
LEMMA StartKeeps ==
  ASSUME NEW how, IdSorts(how), IdInv(how), NEW m \in how.admins, NEW new \in Naming(how)!Hand,
         Naming(how)!Start(m, new), new.pc # "idle",
         new.pc \in {"load", "grant"} => new.kind # "add",
         new.pc = "revoke" => {new.project} \X how.harbors \subseteq new.todo,
         Serves(how, m)', Clear(how, m)'
  PROVE  IdInv(how)'
<1>0. /\ Naming(how)!TypeOK /\ Alone(how) /\ hand \in [how.admins -> Naming(how)!Hand]
      /\ hand[m].pc = "idle" /\ requests < how.requests /\ requests' = requests + 1
      /\ hand' = [hand EXCEPT ![m] = new]
      /\ UNCHANGED <<mode, mapping, row, withdrawn, grant, queue, nextId, pass>>
      /\ pass.at = None /\ \A n \in how.admins : hand[n].pc = "idle"
  BY DEF IdInv, Naming!TypeOK, Naming!Start, Naming!Free, IdSorts
<1>1. /\ hand' \in [how.admins -> Naming(how)!Hand] /\ hand'[m] = new /\ \A n \in how.admins : hand[n] = Naming(how)!IdleHand
      /\ \A n \in how.admins \ {m} : hand'[n] = Naming(how)!IdleHand
  BY <1>0 DEF Alone, Busy
<1>2. Naming(how)!TypeOK'
  BY <1>0, <1>1 DEF Naming!TypeOK, Naming!Account, Naming!Op, Naming!Hand, Naming!Pass, IdSorts
<1>3. Alone(how)'
  BY <1>0, <1>1 DEF Alone, Busy, Naming!IdleHand, Naming!IdlePass
<1>4. /\ \A u : Naming(how)!Resolved(u)' = Naming(how)!Resolved(u)
      /\ \A u : Naming(how)!Held(u)' = Naming(how)!Held(u)
  BY <1>0 DEF Naming!Resolved, Naming!Held
<1>5. Distinct(how)' /\ Rows(how)' /\ Directory(how)'
  BY <1>0, <1>4 DEF IdInv, Distinct, Rows, Directory
<1>6. \A n \in how.admins : Serves(how, n)' /\ Clear(how, n)'
  <2>1. \A n \in how.admins \ {m} : Serves(how, n)' /\ Clear(how, n)'
    BY <1>1 DEF Serves, Clear, Busy, Naming!IdleHand
  <2> QED
    BY <2>1
<1>7. /\ \A p \in how.projects, u \in how.users, h \in how.harbors : <<p, u>> \in row =>
                                                                       IsLetIn(how, p, u, h)
      /\ \A h \in how.harbors, p \in how.projects, a \in Naming(how)!Account :
           <<h, p, a>> \in grant => Somebodys(how, p, a) \/ RemovalOwed(how, h, p, a)
      /\ \A o \in queue, u \in how.users :
           <<o.key.project, u>> \in row /\ o.kind = "MEMBER_REMOVE" /\ Naming(how)!Resolved(u) = o.key.account
             => <<o.key.project, u>> \in withdrawn
  BY <1>0, Quiet
<1>8. Unowed(how)' /\ Granted(how)' /\ LetIn(how)'
  BY <1>0, <1>4, <1>7 DEF Unowed, Granted, LetIn, IsLetIn, Somebodys, RemovalOwed
<1>9. Called(how)'
  BY <1>0, <1>1 DEF Called, Naming!IdleHand
<1>11. InPass(how)'
  BY <1>0 DEF InPass
<1> QED
  BY <1>2, <1>3, <1>5, <1>6, <1>8, <1>9, <1>11 DEF IdInv

\* An administrator maps a person to an account.
LEMMA MapKeeps ==
  ASSUME NEW how, IdSorts(how), IdInv(how), NEW m \in how.admins, NEW u \in how.users,
         NEW a \in how.mappable, Naming(how)!Map(m, u, a)
  PROVE  IdInv(how)'
<1> DEFINE new == [Naming(how)!IdleHand EXCEPT !.pc = "write", !.kind = "map", !.user = u, !.name = a, !.old = mapping[u]]
<1>0. /\ Naming(how)!TypeOK /\ how.mappable \subseteq Naming(how)!Account
      /\ mapping[u] \in Naming(how)!Account \union {None}
  BY IdFacts DEF IdInv, Naming!TypeOK
<1>1. new \in Naming(how)!Hand
  BY <1>0 DEF Naming!Hand, Naming!IdleHand
<1>2. /\ Naming(how)!Start(m, new) /\ ~Naming(how)!Taken(a, u) /\ ~Naming(how)!Owing(a, u)
  BY DEF Naming!Map, IdSorts
<1>3. /\ hand'[m] = new /\ UNCHANGED <<mode, mapping, row, withdrawn, grant, queue, nextId, pass>>
  BY <1>0, <1>2 DEF Naming!TypeOK, Naming!Start
<1>4. /\ new.pc = "write" /\ new.kind = "map" /\ new.user = u /\ new.name = a
      /\ new.old = mapping[u]
      /\ new.todo = {} /\ new.reached = FALSE
  BY DEF Naming!IdleHand
<1> HIDE DEF new
<1>5. Serves(how, m)'
  BY <1>0, <1>2, <1>3, <1>4 DEF Serves, Busy, Naming!Taken
<1>6. Clear(how, m)'
  BY <1>2, <1>3, <1>4, IdFacts, <1>0 DEF Clear, Busy, Target, Naming!Owing
<1> QED
  BY <1>1, <1>2, <1>4, <1>5, <1>6, StartKeeps

\* An administrator drops the mapping of a person.
LEMMA UnmapKeeps ==
  ASSUME NEW how, IdSorts(how), IdInv(how), NEW m \in how.admins, NEW u \in how.users,
         Naming(how)!Unmap(m, u)
  PROVE  IdInv(how)'
<1> DEFINE new == [Naming(how)!IdleHand EXCEPT !.pc = "write", !.kind = "unmap", !.user = u, !.old = mapping[u]]
<1>0. /\ Naming(how)!TypeOK /\ how.mappable \subseteq Naming(how)!Account
      /\ mapping[u] \in Naming(how)!Account \union {None}
  BY IdFacts DEF IdInv, Naming!TypeOK
<1>1. new \in Naming(how)!Hand
  BY <1>0 DEF Naming!Hand, Naming!IdleHand
<1>2. /\ Naming(how)!Start(m, new) /\ mapping[u] # None
  BY DEF Naming!Unmap
<1>3. /\ hand'[m] = new /\ UNCHANGED <<mode, mapping, row, withdrawn, grant, queue, nextId, pass>>
  BY <1>0, <1>2 DEF Naming!TypeOK, Naming!Start
<1>4. /\ new.pc = "write" /\ new.kind = "unmap" /\ new.user = u /\ new.old = mapping[u]
      /\ new.todo = {} /\ new.reached = FALSE
  BY DEF Naming!IdleHand
<1> HIDE DEF new
<1>5. Serves(how, m)' /\ Clear(how, m)'
  BY <1>0, <1>2, <1>3, <1>4 DEF Serves, Clear, Busy
<1> QED
  BY <1>1, <1>2, <1>4, <1>5, StartKeeps

\* A person is added to a project, with an account or without.
LEMMA AddKeeps ==
  ASSUME NEW how, IdSorts(how), IdInv(how), NEW m \in how.admins, NEW p \in how.projects,
         NEW u \in how.users,
         NEW a \in how.mappable \union {None}, Naming(how)!Add(m, p, u, a)
  PROVE  IdInv(how)'
<1> DEFINE name == IF a = None THEN Naming(how)!Resolved(u) ELSE a
           new == [Naming(how)!IdleHand EXCEPT !.pc = IF a = None THEN "upsert" ELSE "write",
                                   !.kind = "add", !.user = u, !.project = p, !.name = name]
<1>0. /\ Naming(how)!TypeOK /\ how.mappable \subseteq Naming(how)!Account
      /\ name \in Naming(how)!Account /\ name # None
  BY IdFacts DEF IdInv, Naming!Add
<1>1. new \in Naming(how)!Hand
  BY <1>0 DEF Naming!Hand, Naming!IdleHand
<1>2. /\ Naming(how)!Start(m, new) /\ ~Naming(how)!Owing(name, u)
      /\ a # None => ~Naming(how)!Taken(a, u) /\ (Naming(how)!Held(u) = {} \/ a = mapping[u])
  BY DEF Naming!Add, IdSorts
<1>3. /\ hand'[m] = new /\ UNCHANGED <<mode, mapping, row, withdrawn, grant, queue, nextId, pass>>
  BY <1>0, <1>2 DEF Naming!TypeOK, Naming!Start
<1>4. /\ new.pc = (IF a = None THEN "upsert" ELSE "write") /\ new.kind = "add" /\ new.user = u
      /\ new.project = p /\ new.name = name /\ new.todo = {} /\ new.reached = FALSE
      /\ a # None => name = a /\ a \in how.mappable
      /\ a = None => name = Naming(how)!Resolved(u)
  BY DEF Naming!IdleHand
<1> HIDE DEF new, name
<1>5. Serves(how, m)'
  BY <1>0, <1>2, <1>3, <1>4 DEF Serves, Busy, Naming!Taken, Naming!Held, Naming!Resolved
<1>6. Clear(how, m)'
  BY <1>2, <1>3, <1>4, IdFacts, <1>0 DEF Clear, Busy, Target, Naming!Owing
<1> QED
  BY <1>1, <1>2, <1>4, <1>5, <1>6, StartKeeps

\* A person is removed from a project.
LEMMA DropKeeps ==
  ASSUME NEW how, IdSorts(how), IdInv(how), NEW m \in how.admins, NEW p \in how.projects,
         NEW u \in how.users, Naming(how)!Drop(m, p, u)
  PROVE  IdInv(how)'
<1> DEFINE new == [Naming(how)!IdleHand EXCEPT !.pc = IF Naming(how)!Resolved(u) = None THEN "unrow" ELSE "revoke",
                     !.kind = "drop", !.user = u, !.project = p, !.name = Naming(how)!Resolved(u),
                     !.todo = IF Naming(how)!Resolved(u) = None THEN {} ELSE {p} \X how.harbors]
<1>0. /\ Naming(how)!TypeOK /\ Naming(how)!Resolved(u) \in Naming(how)!Account \union {None}
      /\ how.mappable \subseteq Naming(how)!Account /\ None \notin Naming(how)!Account
  BY IdFacts DEF IdInv
<1>1. new \in Naming(how)!Hand
  BY <1>0 DEF Naming!Hand, Naming!IdleHand
<1>2. /\ Naming(how)!Start(m, new) /\ <<p, u>> \in row
  BY DEF Naming!Drop
<1>3. /\ hand'[m] = new /\ UNCHANGED <<mode, mapping, row, withdrawn, grant, queue, nextId, pass>>
  BY <1>0, <1>2 DEF Naming!TypeOK, Naming!Start
<1>4. /\ new.pc = (IF Naming(how)!Resolved(u) = None THEN "unrow" ELSE "revoke") /\ new.kind = "drop" /\ new.user = u
      /\ new.project = p /\ new.name = Naming(how)!Resolved(u) /\ new.todo = (IF Naming(how)!Resolved(u) = None THEN {} ELSE {p} \X how.harbors)
      /\ new.reached = FALSE
  BY DEF Naming!IdleHand
<1> HIDE DEF new
<1>5. \A v \in how.users : Naming(how)!Resolved(u) = how.usernames[v] => v = u
  BY <1>0, ResolvedOne DEF IdInv
<1>6. \A o \in queue : o.kind = "MEMBER_ADD" /\ o.key.account = Naming(how)!Resolved(u) =>
                         o.key.user = u
  BY <1>0, IdFacts DEF IdInv, Rows
<1>7. Naming(how)!Resolved(u)' = Naming(how)!Resolved(u)
  BY <1>3 DEF Naming!Resolved
<1>8. Serves(how, m)' /\ Clear(how, m)'
  BY <1>0, <1>2, <1>3, <1>4, <1>5, <1>6, <1>7 DEF Serves, Clear, Busy
<1> QED
  BY <1>1, <1>2, <1>4, <1>8, StartKeeps

\* The mapping of a person is written: whoever else there is goes by the name they went by.
LEMMA Mapped ==
  ASSUME NEW how, IdSorts(how), IdInv(how), NEW u \in how.users,
         NEW a \in how.mappable \union {None},
         mapping' = [mapping EXCEPT ![u] = a], a # None => ~Naming(how)!Taken(a, u),
         UNCHANGED <<mode, row>>
  PROVE  /\ mapping' \in [how.users -> how.mappable \union {None}] /\ mapping'[u] = a
         /\ \A v \in how.users \ {u} : mapping'[v] = mapping[v] /\ Naming(how)!Resolved(v)' = Naming(how)!Resolved(v)
         /\ a # None => Naming(how)!Resolved(u)' = a
         /\ a = None => Naming(how)!Resolved(u)' \in {None, how.usernames[u]}
         /\ \A v : Naming(how)!Held(v)' = Naming(how)!Held(v)
         /\ Distinct(how)'
<1>0. /\ mapping \in [how.users -> how.mappable \union {None}]
      /\ how.mappable \subseteq Naming(how)!Account
  BY IdFacts DEF IdInv, Naming!TypeOK
<1>1. /\ mapping' \in [how.users -> how.mappable \union {None}] /\ mapping'[u] = a
      /\ \A v \in how.users \ {u} : mapping'[v] = mapping[v]
  BY <1>0
<1>2. \A v \in how.users \ {u} : a # None => mapping[v] # a
  BY <1>0 DEF Naming!Taken
<1>3. Distinct(how)'
  BY <1>1, <1>2 DEF IdInv, Distinct
<1> QED
  BY <1>1, <1>3 DEF Naming!Resolved, Naming!Held

\* An administrator's mapping is written: the old name is to be revoked before the new one is granted.
LEMMA MapWriteKeeps ==
  ASSUME NEW how, IdSorts(how), IdInv(how), NEW m \in how.admins, Naming(how)!MapWrite(m)
  PROVE  IdInv(how)'
<1>0. /\ Naming(how)!TypeOK /\ Alone(how) /\ Distinct(how) /\ Serves(how, m) /\ Clear(how, m)
      /\ hand[m] \in Naming(how)!Hand /\ Busy(how, m)
      /\ hand[m].pc = "write" /\ hand[m].kind = "map"
      /\ UNCHANGED <<mode, row, withdrawn, grant, queue, nextId, pass, requests>>
  BY DEF IdInv, Naming!TypeOK, Naming!MapWrite, Busy
<1>a. PICK u \in how.users, a \in how.mappable :
        u = hand[m].user /\ a = hand[m].name /\ hand[m].old = mapping[u] /\ ~Naming(how)!Taken(a, u)
  BY <1>0 DEF Serves
<1>1. /\ a \in Naming(how)!Account /\ a # None /\ Naming(how)!Held(u) \subseteq how.projects
      /\ hand[m].todo = {}
  BY <1>0, IdFacts DEF Serves, Naming!Held
<1>b. PICK stale \in Naming(how)!Account \union {None} : stale = Naming(how)!Stale(u, mapping[u], a)
  BY <1>0, IdFacts DEF Naming!Stale, Naming!TypeOK
<1> DEFINE new == IF Naming(how)!Held(u) = {} THEN Naming(how)!IdleHand
                  ELSE IF stale = None THEN [hand[m] EXCEPT !.pc = "load"]
                  ELSE [hand[m] EXCEPT !.pc = "revoke", !.name = stale, !.todo = Naming(how)!Held(u) \X how.harbors]
<1>2. /\ mapping' = [mapping EXCEPT ![u] = a]
      /\ hand' = [hand EXCEPT ![m] = new]
  <2>1. \A v \in how.users \ {u} : mapping[v] # a
    BY <1>a, <1>1 DEF Naming!Taken
  <2> QED
    BY <1>0, <1>a, <1>b, <2>1 DEF Naming!MapWrite
<1>3. /\ mapping' \in [how.users -> how.mappable \union {None}] /\ mapping'[u] = a
      /\ \A v \in how.users \ {u} : mapping'[v] = mapping[v] /\ Naming(how)!Resolved(v)' = Naming(how)!Resolved(v)
      /\ Naming(how)!Resolved(u)' = a /\ \A v : Naming(how)!Held(v)' = Naming(how)!Held(v)
      /\ Distinct(how)'
  <2>1. /\ a \in how.mappable \union {None} /\ a # None /\ ~Naming(how)!Taken(a, u)
        /\ mapping' = [mapping EXCEPT ![u] = a] /\ mode' = mode /\ row' = row
    BY <1>0, <1>1, <1>2, <1>a
  <2>2. UNCHANGED <<mode, row>>
    BY <2>1
  <2> QED
    BY <2>1, <2>2, Mapped
\* The name to revoke is the one the person went by, and no longer does.
<1>4. /\ stale # a
      /\ stale # None => stale = Naming(how)!Resolved(u)
      /\ stale = None => Naming(how)!Resolved(u) \in {a, None}
  BY <1>0, <1>1, <1>b, IdFacts DEF Naming!Stale, Naming!Resolved, IdSorts, Naming!TypeOK
<1>5. \A v \in how.users : stale # None => Naming(how)!Resolved(v)' # stale
  BY <1>0, <1>1, <1>3, <1>4, ResolvedOne
<1>6. new \in Naming(how)!Hand
  <2>1. Naming(how)!Held(u) \X how.harbors \in SUBSET (how.projects \X how.harbors)
    BY DEF Naming!Held
  <2> QED
    BY <1>0, <1>4, <2>1 DEF Naming!Hand, Naming!IdleHand
<1>7. /\ Naming(how)!Held(u) = {} => new = Naming(how)!IdleHand
      /\ Naming(how)!Held(u) # {} /\ stale = None =>
           /\ new.pc = "load" /\ new.kind = "map" /\ new.user = u /\ new.name = a /\ new.todo = {}
      /\ Naming(how)!Held(u) # {} /\ stale # None =>
           /\ new.pc = "revoke" /\ new.kind = "map" /\ new.user = u /\ new.name = stale
           /\ new.todo = Naming(how)!Held(u) \X how.harbors
  BY <1>0, <1>1, <1>a DEF Naming!Hand
<1> HIDE DEF new
<1>8. /\ hand' \in [how.admins -> Naming(how)!Hand] /\ hand'[m] = new
      /\ \A n \in how.admins \ {m} : hand[n] = Naming(how)!IdleHand /\ hand'[n] = Naming(how)!IdleHand
      /\ Alone(how)' /\ pass.at = None
  BY <1>0, <1>2, <1>6, <1>7, OthersIdle, OneBusy DEF Naming!IdleHand
<1>c. \A n \in how.admins : hand[n].pc \notin {"revoke", "load", "grant"}
  BY <1>0, <1>8 DEF Naming!IdleHand
<1>d. /\ \A p \in how.projects, v \in how.users, h \in how.harbors : <<p, v>> \in row =>
                                                                       IsLetIn(how, p, v, h)
      /\ \A h \in how.harbors, p \in how.projects, b \in Naming(how)!Account :
           <<h, p, b>> \in grant => Somebodys(how, p, b) \/ RemovalOwed(how, h, p, b)
      /\ \A o \in queue, v \in how.users :
           <<o.key.project, v>> \in row /\ o.kind = "MEMBER_REMOVE" /\ Naming(how)!Resolved(v) = o.key.account
             => <<o.key.project, v>> \in withdrawn
  BY <1>c, Quiet
<1>9. Naming(how)!TypeOK'
  BY <1>0, <1>3, <1>8 DEF Naming!TypeOK, Naming!Account, Naming!Op, Naming!Hand, Naming!Pass
<1>10. /\ Rows(how) /\ Directory(how)
       /\ \A o \in queue : o.key.account = a => o.kind = "MEMBER_ADD" /\ o.key.user = u
  BY <1>0, <1>a DEF IdInv, Clear, Target
<1>11. Rows(how)'
  BY <1>0, <1>3, <1>10 DEF Rows
<1>12. Directory(how)'
  BY <1>0, <1>1, <1>3, <1>10 DEF Directory, Naming!TypeOK
<1>13. Serves(how, m)'
  <2>1. \A v \in how.users : stale = how.usernames[v] => v = u
    BY <1>0, <1>4, IdFacts, ResolvedOne
  <2>2. stale # None => \A o \in queue : o.kind = "MEMBER_ADD" /\ o.key.account = stale => o.key.user = u
    BY <1>1, <1>4, <1>10 DEF Rows
  <2>3. CASE Naming(how)!Held(u) = {}
    BY <1>7, <1>8, <2>3 DEF Serves, Busy, Naming!IdleHand
  <2>4. CASE Naming(how)!Held(u) # {} /\ stale = None
    BY <1>0, <1>1, <1>3, <1>7, <1>8, <2>4 DEF Serves, Busy
  <2>5. CASE Naming(how)!Held(u) # {} /\ stale # None
    BY <1>0, <1>1, <1>3, <1>4, <1>5, <1>7, <1>8, <2>1, <2>2, <2>5 DEF Serves, Busy
  <2> QED
    BY <2>3, <2>4, <2>5
<1>14. Clear(how, m)'
  BY <1>0, <1>3, <1>7, <1>8, <1>10 DEF Clear, Busy, Target, Naming!IdleHand
<1>15. \A n \in how.admins : Serves(how, n)' /\ Clear(how, n)'
  BY <1>8, <1>13, <1>14 DEF Serves, Clear, Busy, Naming!IdleHand
<1>17. Unowed(how)'
  BY <1>0, <1>1, <1>3, <1>d, <1>10 DEF Unowed
<1>18. Granted(how)'
  <2> SUFFICES ASSUME NEW h \in how.harbors, NEW p \in how.projects, NEW b \in Naming(how)!Account, <<h, p, b>> \in grant,
                      ~Somebodys(how, p, b)', ~RemovalOwed(how, h, p, b)'
               PROVE  hand'[m].pc = "revoke" /\ <<p, h>> \in hand'[m].todo /\ how.fold[hand'[m].name] = b
    BY <1>0 DEF Granted, Revoking
  <2>1. ~RemovalOwed(how, h, p, b)
    BY <1>0 DEF RemovalOwed
  <2>2. Somebodys(how, p, b)
    BY <1>0, <1>d, <2>1
  <2>3. /\ <<p, u>> \in row /\ Naming(how)!Resolved(u) # None
        /\ how.fold[Naming(how)!Resolved(u)] = b /\ Naming(how)!Resolved(u) # a
    BY <1>0, <1>1, <1>3, <2>2 DEF Somebodys
  <2>4. Naming(how)!Held(u) # {} /\ stale = Naming(how)!Resolved(u) /\ p \in Naming(how)!Held(u)
    BY <1>4, <2>3 DEF Naming!Held
  <2> QED
    BY <1>7, <1>8, <2>3, <2>4
<1>19. Called(how)'
  BY <1>7, <1>8 DEF Called, Naming!IdleHand
<1>20. LetIn(how)'
  <2> SUFFICES ASSUME NEW p \in how.projects, NEW v \in how.users, NEW h \in how.harbors, <<p, v>> \in row
               PROVE  IsLetIn(how, p, v, h)' \/ Joining(how, p, v, h)'
    BY <1>0 DEF LetIn
  <2>1. CASE v = u
    <3>1. Naming(how)!Held(u) # {}
      BY <2>1 DEF Naming!Held
    <3> QED
      BY <1>7, <1>8, <2>1, <3>1 DEF Joining
  <2>2. CASE v # u
    <3>1. IsLetIn(how, p, v, h)
      BY <1>0, <1>d
    <3> QED
      BY <1>0, <1>3, <2>2, <3>1 DEF IsLetIn
  <2> QED
    BY <2>1, <2>2
<1>21. InPass(how)'
  BY <1>0, <1>8 DEF InPass
<1> QED
  BY <1>3, <1>8, <1>9, <1>11, <1>12, <1>15, <1>17, <1>18, <1>19, <1>20, <1>21 DEF IdInv

\* A mapping is dropped: the memberships are withdrawn, and their grants are to be revoked.
LEMMA UnmapWriteKeeps ==
  ASSUME NEW how, IdSorts(how), IdInv(how), NEW m \in how.admins, Naming(how)!UnmapWrite(m)
  PROVE  IdInv(how)'
<1>0. /\ Naming(how)!TypeOK /\ Alone(how) /\ Distinct(how) /\ Serves(how, m)
      /\ hand[m] \in Naming(how)!Hand /\ Busy(how, m)
      /\ hand[m].pc = "write" /\ hand[m].kind = "unmap"
      /\ UNCHANGED <<mode, row, grant, queue, nextId, pass, requests>>
  BY DEF IdInv, Naming!TypeOK, Naming!UnmapWrite, Busy
<1>a. PICK u \in how.users, old \in how.mappable :
        /\ u = hand[m].user /\ old = hand[m].old /\ old = mapping[u]
        /\ old \in Naming(how)!Account /\ old # None /\ Naming(how)!Held(u) \subseteq how.projects
        /\ hand[m].todo = {}
  BY <1>0, IdFacts DEF Serves, Naming!TypeOK, Naming!Held
<1> DEFINE new == [hand[m] EXCEPT !.pc = "revoke", !.name = old, !.todo = Naming(how)!Held(u) \X how.harbors]
<1>1. /\ mapping' = [mapping EXCEPT ![u] = None]
      /\ hand' = [hand EXCEPT ![m] = new]
      /\ withdrawn' = withdrawn \union (Naming(how)!Held(u) \X {u})
  BY <1>0, <1>a DEF Naming!UnmapWrite
<1>3. /\ mapping' \in [how.users -> how.mappable \union {None}] /\ mapping'[u] = None
      /\ \A v \in how.users \ {u} : mapping'[v] = mapping[v] /\ Naming(how)!Resolved(v)' = Naming(how)!Resolved(v)
      /\ Naming(how)!Resolved(u)' \in {None, how.usernames[u]} /\ \A v : Naming(how)!Held(v)' = Naming(how)!Held(v)
      /\ Distinct(how)'
  BY <1>0, <1>1, Mapped
<1>4. Naming(how)!Resolved(u) = old /\ how.fold[old] \in Naming(how)!Account
  BY <1>a DEF Naming!Resolved, IdSorts
<1>5. \A v \in how.users : Naming(how)!Resolved(v)' # old /\ how.usernames[v] # old
  BY <1>0, <1>3, <1>4, <1>a, ResolvedOne DEF IdSorts
<1>6. new \in Naming(how)!Hand
  <2>1. Naming(how)!Held(u) \X how.harbors \in SUBSET (how.projects \X how.harbors)
    BY <1>a
  <2> QED
    BY <1>0, <1>a, <2>1 DEF Naming!Hand
<1>7. /\ new.pc = "revoke" /\ new.kind = "unmap" /\ new.user = u /\ new.name = old
      /\ new.todo = Naming(how)!Held(u) \X how.harbors
  BY <1>0, <1>a DEF Naming!Hand
<1> HIDE DEF new
<1>8. /\ hand' \in [how.admins -> Naming(how)!Hand] /\ hand'[m] = new
      /\ \A n \in how.admins \ {m} : hand[n] = Naming(how)!IdleHand /\ hand'[n] = Naming(how)!IdleHand
      /\ Alone(how)' /\ pass.at = None
  BY <1>0, <1>1, <1>6, <1>7, OthersIdle, OneBusy
<1>c. \A n \in how.admins : hand[n].pc \notin {"revoke", "load", "grant"}
  BY <1>0, <1>8 DEF Naming!IdleHand
<1>d. /\ \A p \in how.projects, v \in how.users, h \in how.harbors : <<p, v>> \in row =>
                                                                       IsLetIn(how, p, v, h)
      /\ \A h \in how.harbors, p \in how.projects, b \in Naming(how)!Account :
           <<h, p, b>> \in grant => Somebodys(how, p, b) \/ RemovalOwed(how, h, p, b)
      /\ \A o \in queue, v \in how.users :
           <<o.key.project, v>> \in row /\ o.kind = "MEMBER_REMOVE" /\ Naming(how)!Resolved(v) = o.key.account
             => <<o.key.project, v>> \in withdrawn
  BY <1>c, Quiet
<1>9. Naming(how)!TypeOK'
  BY <1>0, <1>1, <1>3, <1>8, <1>a
     DEF Naming!TypeOK, Naming!Account, Naming!Op, Naming!Hand, Naming!Pass, Naming!Held
<1>10. /\ Rows(how) /\ Directory(how)
       /\ \A p \in how.projects : <<p, u>> \in row => <<p, u>> \in withdrawn'
       /\ \A x \in withdrawn : x \in withdrawn'
  BY <1>1 DEF IdInv, Naming!Held
<1>11. Rows(how)'
  BY <1>0, <1>3, <1>10, IdFacts DEF Rows
<1>12. Directory(how)'
  BY <1>0, <1>3, <1>10 DEF Directory
<1>13. Serves(how, m)'
  <2>1. \A o \in queue : o.kind = "MEMBER_ADD" /\ o.key.account = old => o.key.user = u
    BY <1>4, <1>10, <1>a DEF Rows
  <2> QED
    BY <1>0, <1>3, <1>5, <1>7, <1>8, <1>10, <1>a, <2>1 DEF Serves, Busy
<1>14. Clear(how, m)'
  BY <1>7, <1>8 DEF Clear
<1>15. \A n \in how.admins : Serves(how, n)' /\ Clear(how, n)'
  BY <1>8, <1>13, <1>14 DEF Serves, Clear, Busy, Naming!IdleHand
<1>17. Unowed(how)'
  <2> SUFFICES ASSUME NEW o \in queue, NEW v \in how.users, <<o.key.project, v>> \in row, o.kind = "MEMBER_REMOVE",
                      Naming(how)!Resolved(v)' = o.key.account
               PROVE  <<o.key.project, v>> \in withdrawn'
    BY <1>0 DEF Unowed
  <2>1. o.key.project \in how.projects
    BY <1>0, IdFacts
  <2> QED
    BY <1>3, <1>10, <1>d, <2>1
<1>18. Granted(how)'
  <2> SUFFICES ASSUME NEW h \in how.harbors, NEW p \in how.projects, NEW b \in Naming(how)!Account, <<h, p, b>> \in grant,
                      ~Somebodys(how, p, b)', ~RemovalOwed(how, h, p, b)'
               PROVE  hand'[m].pc = "revoke" /\ <<p, h>> \in hand'[m].todo /\ how.fold[hand'[m].name] = b
    BY <1>0 DEF Granted, Revoking
  <2>1. ~RemovalOwed(how, h, p, b)
    BY <1>0 DEF RemovalOwed
  <2>2. Somebodys(how, p, b)
    BY <1>0, <1>d, <2>1
  <2>3. <<p, u>> \in row /\ how.fold[Naming(how)!Resolved(u)] = b
    BY <1>0, <1>3, <2>2 DEF Somebodys
  <2> QED
    BY <1>4, <1>7, <1>8, <2>3 DEF Naming!Held
<1>19. Called(how)'
  BY <1>7, <1>8 DEF Called, Naming!IdleHand
<1>20. LetIn(how)'
  <2> SUFFICES ASSUME NEW p \in how.projects, NEW v \in how.users, NEW h \in how.harbors, <<p, v>> \in row
               PROVE  IsLetIn(how, p, v, h)'
    BY <1>0 DEF LetIn
  <2>1. CASE v = u
    BY <1>10, <2>1 DEF IsLetIn
  <2>2. CASE v # u
    <3>1. IsLetIn(how, p, v, h)
      BY <1>0, <1>d
    <3> QED
      BY <1>0, <1>3, <1>10, <2>2, <3>1 DEF IsLetIn
  <2> QED
    BY <2>1, <2>2
<1>21. InPass(how)'
  BY <1>0, <1>8 DEF InPass
<1> QED
  BY <1>3, <1>8, <1>9, <1>11, <1>12, <1>15, <1>17, <1>18, <1>19, <1>20, <1>21 DEF IdInv

\* The account that comes with an addition is written: nobody was a member by another one.
LEMMA AddMapsKeeps ==
  ASSUME NEW how, IdSorts(how), IdInv(how), NEW m \in how.admins, Naming(how)!AddMaps(m)
  PROVE  IdInv(how)'
<1>0. /\ Naming(how)!TypeOK /\ Alone(how) /\ Distinct(how) /\ Serves(how, m) /\ Clear(how, m)
      /\ hand[m] \in Naming(how)!Hand /\ Busy(how, m)
      /\ hand[m].pc = "write" /\ hand[m].kind = "add"
      /\ UNCHANGED <<mode, row, withdrawn, grant, queue, nextId, pass, requests>>
  BY DEF IdInv, Naming!TypeOK, Naming!AddMaps, Busy
<1>a. PICK u \in how.users, a \in how.mappable :
        /\ u = hand[m].user /\ a = hand[m].name /\ ~Naming(how)!Taken(a, u) /\ a # None
        /\ Naming(how)!Held(u) = {} \/ a = mapping[u]
        /\ hand[m].todo = {} /\ ~hand[m].reached /\ hand[m].project \in how.projects
  BY <1>0, IdFacts DEF Serves
<1> DEFINE new == [hand[m] EXCEPT !.pc = "upsert"]
<1>1. /\ mapping' = [mapping EXCEPT ![u] = a]
      /\ hand' = [hand EXCEPT ![m] = new]
  <2>1. \A v \in how.users \ {u} : mapping[v] # a
    BY <1>a DEF Naming!Taken
  <2> QED
    BY <1>0, <1>a, <2>1 DEF Naming!AddMaps
<1>3. /\ mapping' \in [how.users -> how.mappable \union {None}] /\ mapping'[u] = a
      /\ \A v \in how.users \ {u} : mapping'[v] = mapping[v] /\ Naming(how)!Resolved(v)' = Naming(how)!Resolved(v)
      /\ Naming(how)!Resolved(u)' = a /\ \A v : Naming(how)!Held(v)' = Naming(how)!Held(v)
      /\ Distinct(how)'
  <2>1. /\ a \in how.mappable \union {None} /\ a # None /\ ~Naming(how)!Taken(a, u)
        /\ mapping' = [mapping EXCEPT ![u] = a] /\ mode' = mode /\ row' = row
    BY <1>0, <1>1, <1>a
  <2>2. UNCHANGED <<mode, row>>
    BY <2>1
  <2> QED
    BY <2>1, <2>2, Mapped
<1>4. \A p \in how.projects, v \in how.users : <<p, v>> \in row => Naming(how)!Resolved(v)' = Naming(how)!Resolved(v) /\ mapping'[v] = mapping[v]
  BY <1>3, <1>a DEF Naming!Held, Naming!Resolved
<1>7. /\ new.pc = "upsert" /\ new.kind = "add" /\ new.user = u /\ new.name = a /\ new.todo = {}
      /\ ~new.reached /\ new.project \in how.projects /\ new \in Naming(how)!Hand
  BY <1>0, <1>a DEF Naming!Hand
<1> HIDE DEF new
<1>8. /\ hand' \in [how.admins -> Naming(how)!Hand] /\ hand'[m] = new
      /\ \A n \in how.admins \ {m} : hand[n] = Naming(how)!IdleHand /\ hand'[n] = Naming(how)!IdleHand
      /\ Alone(how)' /\ pass.at = None
  BY <1>0, <1>1, <1>7, OthersIdle, OneBusy
<1>c. \A n \in how.admins : hand[n].pc \notin {"revoke", "load", "grant"}
  BY <1>0, <1>8 DEF Naming!IdleHand
<1>d. /\ \A p \in how.projects, v \in how.users, h \in how.harbors : <<p, v>> \in row =>
                                                                       IsLetIn(how, p, v, h)
      /\ \A h \in how.harbors, p \in how.projects, b \in Naming(how)!Account :
           <<h, p, b>> \in grant => Somebodys(how, p, b) \/ RemovalOwed(how, h, p, b)
      /\ \A o \in queue, v \in how.users :
           <<o.key.project, v>> \in row /\ o.kind = "MEMBER_REMOVE" /\ Naming(how)!Resolved(v) = o.key.account
             => <<o.key.project, v>> \in withdrawn
  BY <1>c, Quiet
<1>9. Naming(how)!TypeOK'
  BY <1>0, <1>3, <1>8 DEF Naming!TypeOK, Naming!Account, Naming!Op, Naming!Hand, Naming!Pass
<1>10. /\ Rows(how) /\ Directory(how)
       /\ \A o \in queue : o.key.account = a => o.kind = "MEMBER_ADD" /\ o.key.user = u
  BY <1>0, <1>a DEF IdInv, Clear, Target
<1>11. Rows(how)'
  BY <1>0, <1>3, <1>10 DEF Rows
<1>12. Directory(how)'
  BY <1>0, <1>4, <1>10 DEF Directory
<1>13. Serves(how, m)'
  BY <1>3, <1>7, <1>8, <1>a, IdFacts, <1>0 DEF Serves, Busy
<1>14. Clear(how, m)'
  BY <1>0, <1>7, <1>8, <1>10 DEF Clear, Busy, Target
<1>15. \A n \in how.admins : Serves(how, n)' /\ Clear(how, n)'
  BY <1>8, <1>13, <1>14 DEF Serves, Clear, Busy, Naming!IdleHand
<1>17. Unowed(how)'
  BY <1>0, <1>4, <1>d, IdFacts DEF Unowed
<1>18. Granted(how)'
  <2> SUFFICES ASSUME NEW h \in how.harbors, NEW p \in how.projects, NEW b \in Naming(how)!Account, <<h, p, b>> \in grant
               PROVE  Somebodys(how, p, b)' \/ RemovalOwed(how, h, p, b)'
    BY <1>0 DEF Granted
  <2>1. Somebodys(how, p, b) \/ RemovalOwed(how, h, p, b)
    BY <1>0, <1>d
  <2>2. Somebodys(how, p, b) => Somebodys(how, p, b)'
    BY <1>0, <1>4 DEF Somebodys
  <2> QED
    BY <1>0, <2>1, <2>2 DEF RemovalOwed
<1>19. Called(how)'
  BY <1>7, <1>8 DEF Called, Naming!IdleHand
<1>20. LetIn(how)'
  <2> SUFFICES ASSUME NEW p \in how.projects, NEW v \in how.users, NEW h \in how.harbors, <<p, v>> \in row
               PROVE  IsLetIn(how, p, v, h)'
    BY <1>0 DEF LetIn
  <2>1. IsLetIn(how, p, v, h)
    BY <1>0, <1>d
  <2> QED
    BY <1>0, <1>4, <2>1 DEF IsLetIn
<1>21. InPass(how)'
  BY <1>0, <1>8 DEF InPass
<1> QED
  BY <1>3, <1>8, <1>9, <1>11, <1>12, <1>15, <1>17, <1>18, <1>19, <1>20, <1>21 DEF IdInv

\* The row of a member is written: the Harbors are about to be called.
LEMMA AddRowKeeps ==
  ASSUME NEW how, IdSorts(how), IdInv(how), NEW m \in how.admins, Naming(how)!AddRow(m)
  PROVE  IdInv(how)'
<1>0. /\ Naming(how)!TypeOK /\ Alone(how) /\ Distinct(how) /\ Serves(how, m) /\ Clear(how, m)
      /\ hand[m] \in Naming(how)!Hand /\ Busy(how, m)
      /\ hand[m].pc = "upsert" /\ hand[m].kind = "add"
      /\ UNCHANGED <<mode, mapping, withdrawn, grant, queue, nextId, pass, requests>>
  BY DEF IdInv, Naming!TypeOK, Naming!AddRow, Busy, Serves
<1>a. PICK u \in how.users, p \in how.projects :
        /\ u = hand[m].user /\ p = hand[m].project /\ hand[m].name = Naming(how)!Resolved(u)
        /\ Naming(how)!Resolved(u) \in Naming(how)!Account
        /\ Naming(how)!Resolved(u) # None /\ hand[m].todo = {} /\ ~hand[m].reached
  BY <1>0, IdFacts DEF Serves
<1> DEFINE was == <<p, u>> \in row
<1>b. was \in BOOLEAN /\ (<<p, u>> \in row => was)
  OBVIOUS
<1> DEFINE new == [hand[m] EXCEPT !.pc = "load", !.had = was]
<1>1. /\ row' = row \union {<<p, u>>}
      /\ hand' = [hand EXCEPT ![m] = new]
  <2>1. hand' = [hand EXCEPT ![m].pc = "load", ![m].had = was]
    BY <1>a DEF Naming!AddRow
  <2>2. row' = row \union {<<p, u>>}
    BY <1>a DEF Naming!AddRow
  <2> HIDE DEF was
  <2>3. hand' = [hand EXCEPT ![m] = new]
    BY <1>0, <2>1 DEF Naming!TypeOK, Naming!Hand
  <2> QED
    BY <2>2, <2>3
<1> HIDE DEF was
<1>4. \A v : Naming(how)!Resolved(v)' = Naming(how)!Resolved(v)
  BY <1>0 DEF Naming!Resolved
<1>7. /\ new.pc = "load" /\ new.kind = "add" /\ new.user = u /\ new.name = Naming(how)!Resolved(u)
      /\ new.todo = {}
      /\ ~new.reached /\ new.project = p /\ new.had = was /\ new \in Naming(how)!Hand
  BY <1>0, <1>a, <1>b DEF Naming!Hand
<1> HIDE DEF new
<1>8. /\ hand' \in [how.admins -> Naming(how)!Hand] /\ hand'[m] = new
      /\ \A n \in how.admins \ {m} : hand[n] = Naming(how)!IdleHand /\ hand'[n] = Naming(how)!IdleHand
      /\ Alone(how)' /\ pass.at = None
  BY <1>0, <1>1, <1>7, OthersIdle, OneBusy
<1>c. \A n \in how.admins : hand[n].pc \notin {"revoke", "load", "grant"}
  BY <1>0, <1>8 DEF Naming!IdleHand
<1>d. /\ \A q \in how.projects, v \in how.users, h \in how.harbors : <<q, v>> \in row =>
                                                                       IsLetIn(how, q, v, h)
      /\ \A h \in how.harbors, q \in how.projects, b \in Naming(how)!Account :
           <<h, q, b>> \in grant => Somebodys(how, q, b) \/ RemovalOwed(how, h, q, b)
      /\ \A o \in queue, v \in how.users :
           <<o.key.project, v>> \in row /\ o.kind = "MEMBER_REMOVE" /\ Naming(how)!Resolved(v) = o.key.account
             => <<o.key.project, v>> \in withdrawn
  BY <1>c, Quiet
<1>9. Naming(how)!TypeOK'
  BY <1>0, <1>1, <1>8 DEF Naming!TypeOK, Naming!Account, Naming!Op, Naming!Hand, Naming!Pass
<1>10. /\ Rows(how) /\ Directory(how)
       /\ \A o \in queue : o.key.account = Naming(how)!Resolved(u) =>
                             o.kind = "MEMBER_ADD" /\ o.key.user = u
  BY <1>0, <1>a DEF IdInv, Clear, Target
<1>11. Rows(how)' /\ Distinct(how)'
  BY <1>0, <1>4, <1>10 DEF Rows, Distinct
<1>12. Directory(how)'
  BY <1>0, <1>1, <1>10, <1>a DEF Directory, Naming!Resolved
<1>13. Serves(how, m)'
  BY <1>0, <1>1, <1>4, <1>7, <1>8, <1>a DEF Serves, Busy
<1>14. Clear(how, m)'
  BY <1>0, <1>7, <1>8, <1>10 DEF Clear, Busy, Target
<1>15. \A n \in how.admins : Serves(how, n)' /\ Clear(how, n)'
  BY <1>8, <1>13, <1>14 DEF Serves, Clear, Busy, Naming!IdleHand
<1>17. Unowed(how)'
  BY <1>0, <1>1, <1>4, <1>d, <1>10 DEF Unowed
<1>18. Granted(how)'
  <2> SUFFICES ASSUME NEW h \in how.harbors, NEW q \in how.projects, NEW b \in Naming(how)!Account, <<h, q, b>> \in grant
               PROVE  Somebodys(how, q, b)' \/ RemovalOwed(how, h, q, b)'
    BY <1>0 DEF Granted
  <2>1. Somebodys(how, q, b) \/ RemovalOwed(how, h, q, b)
    BY <1>0, <1>d
  <2>2. Somebodys(how, q, b) => Somebodys(how, q, b)'
    BY <1>1, <1>4 DEF Somebodys
  <2> QED
    BY <1>0, <2>1, <2>2 DEF RemovalOwed
\* Nobody was let in by that name: nobody else goes by it, and no removal of it is owed.
<1>19. Called(how)'
  <2> SUFFICES ASSUME NEW h \in how.harbors, <<p, u>> \notin row, <<h, p, how.fold[Naming(how)!Resolved(u)]>> \in grant PROVE FALSE
    <3>1. <<p, u>> \in row => was
      BY <1>b
    <3> QED
      BY <1>0, <1>7, <1>8, <3>1 DEF Called, Naming!IdleHand
  <2>1. how.fold[Naming(how)!Resolved(u)] \in Naming(how)!Account
    BY <1>a DEF IdSorts
  <2>2. ~RemovalOwed(how, h, p, how.fold[Naming(how)!Resolved(u)])
    BY <1>0, <1>10, <1>a, IdFacts DEF RemovalOwed
  <2>3. Somebodys(how, p, how.fold[Naming(how)!Resolved(u)])
    BY <1>d, <2>1, <2>2
  <2>4. PICK v \in how.users : <<p, v>> \in row /\ Naming(how)!Resolved(v) # None /\ how.fold[Naming(how)!Resolved(v)] = how.fold[Naming(how)!Resolved(u)]
    BY <2>3 DEF Somebodys
  <2>5. v = u
    BY <1>0, <1>a, <2>4, IdFacts, ResolvedOne
  <2> QED
    BY <2>4, <2>5
<1>20. LetIn(how)'
  <2> SUFFICES ASSUME NEW q \in how.projects, NEW v \in how.users, NEW h \in how.harbors, <<q, v>> \in row'
               PROVE  IsLetIn(how, q, v, h)' \/ Joining(how, q, v, h)'
    BY DEF LetIn
  <2>1. CASE <<q, v>> = <<p, u>>
    BY <1>7, <1>8, <2>1 DEF Joining
  <2>2. CASE <<q, v>> # <<p, u>>
    <3>1. IsLetIn(how, q, v, h)
      BY <1>1, <1>d, <2>2
    <3> QED
      BY <1>0, <1>4, <3>1 DEF IsLetIn
  <2> QED
    BY <2>1, <2>2
<1>21. InPass(how)'
  BY <1>0, <1>8 DEF InPass
<1> QED
  BY <1>8, <1>9, <1>11, <1>12, <1>15, <1>17, <1>18, <1>19, <1>20, <1>21 DEF IdInv

\* The name to grant is read again, with the projects to grant it on.
LEMMA LoadKeeps ==
  ASSUME NEW how, IdSorts(how), IdInv(how), NEW m \in how.admins, Naming(how)!Load(m)
  PROVE  IdInv(how)'
<1>0. /\ Naming(how)!TypeOK /\ Alone(how) /\ Distinct(how) /\ Serves(how, m) /\ Clear(how, m)
      /\ hand[m] \in Naming(how)!Hand /\ Busy(how, m)
      /\ hand[m].pc = "load" /\ hand[m].kind \in {"map", "add"}
      /\ UNCHANGED <<mode, mapping, row, grant, queue, nextId, pass, requests>>
  BY DEF IdInv, Naming!TypeOK, Naming!Load, Busy, Serves
<1>a. PICK u \in how.users :
        /\ u = hand[m].user /\ Naming(how)!Resolved(u) \in Naming(how)!Account
        /\ Naming(how)!Resolved(u) # None
        /\ Target(how, m) = Naming(how)!Resolved(u) /\ Naming(how)!Held(u) \subseteq how.projects
        /\ hand[m].kind = "add" => hand[m].project \in Naming(how)!Held(u) /\ hand[m].name = Naming(how)!Resolved(u) /\ ~hand[m].reached
        /\ hand[m].kind = "map" => Naming(how)!Held(u) # {} /\ mapping[u] # None
  BY <1>0, IdFacts DEF Serves, Target, Naming!Resolved, Naming!Held, Busy
<1>c. PICK mine : mine = (IF hand[m].kind = "add" THEN {hand[m].project} ELSE Naming(how)!Held(u))
  OBVIOUS
<1>b. /\ mine = (IF hand[m].kind = "add" THEN {hand[m].project} ELSE Naming(how)!Held(u))
      /\ mine \subseteq Naming(how)!Held(u) /\ mine # {}
  BY <1>0, <1>a, <1>c
<1> DEFINE new == [hand[m] EXCEPT !.pc = "grant", !.name = Naming(how)!Resolved(u), !.todo = mine \X how.harbors]
<1>1. /\ withdrawn' = withdrawn \ (mine \X {u})
      /\ hand' = [hand EXCEPT ![m] = new]
  <2>1. mine = IF hand[m].kind = "add" THEN {hand[m].project} \intersect Naming(how)!Held(u) ELSE Naming(how)!Held(u)
    BY <1>a, <1>b
  <2>2. /\ hand' = [hand EXCEPT ![m].pc = "grant", ![m].name = Naming(how)!Resolved(u), ![m].todo = mine \X how.harbors]
        /\ withdrawn' = withdrawn \ (mine \X {u})
    BY <1>a, <1>b, <2>1 DEF Naming!Load
  <2> QED
    BY <1>0, <2>2 DEF Naming!TypeOK, Naming!Hand
<1>4. /\ \A v : Naming(how)!Resolved(v)' = Naming(how)!Resolved(v)
      /\ \A v : Naming(how)!Held(v)' = Naming(how)!Held(v)
  BY <1>0 DEF Naming!Resolved, Naming!Held
<1>7. /\ new.pc = "grant" /\ new.kind = hand[m].kind /\ new.user = u
      /\ new.name = Naming(how)!Resolved(u)
      /\ new.todo = mine \X how.harbors /\ new.reached = hand[m].reached
      /\ new.project = hand[m].project
      /\ new.had = hand[m].had /\ new \in Naming(how)!Hand
  <2>1. mine \X how.harbors \in SUBSET (how.projects \X how.harbors)
    BY <1>a, <1>b
  <2> QED
    BY <1>0, <1>a, <2>1 DEF Naming!Hand
<1> HIDE DEF new
<1>8. /\ hand' \in [how.admins -> Naming(how)!Hand] /\ hand'[m] = new
      /\ \A n \in how.admins \ {m} : hand[n] = Naming(how)!IdleHand /\ hand'[n] = Naming(how)!IdleHand
      /\ Alone(how)' /\ pass.at = None
  BY <1>0, <1>1, <1>7, OthersIdle, OneBusy
<1>9. Naming(how)!TypeOK'
  BY <1>0, <1>1, <1>8 DEF Naming!TypeOK, Naming!Account, Naming!Op, Naming!Hand, Naming!Pass
<1>10. /\ Rows(how) /\ Directory(how) /\ Unowed(how) /\ Granted(how) /\ LetIn(how) /\ Called(how)
       /\ \A o \in queue : o.key.account = Naming(how)!Resolved(u) =>
                             o.kind = "MEMBER_ADD" /\ o.key.user = u
  BY <1>0, <1>a DEF IdInv, Clear
<1>11. Rows(how)' /\ Distinct(how)'
  BY <1>0, <1>4, <1>10 DEF Rows, Distinct
<1>12. Directory(how)'
  BY <1>0, <1>1, <1>10, <1>a DEF Directory, Naming!Resolved
<1>13. Serves(how, m)'
  BY <1>0, <1>4, <1>7, <1>8, <1>a, <1>b DEF Serves, Busy, Naming!Held
<1>14. Clear(how, m)'
  BY <1>0, <1>7, <1>8, <1>10 DEF Clear, Busy, Target
<1>15. \A n \in how.admins : Serves(how, n)' /\ Clear(how, n)'
  BY <1>8, <1>13, <1>14 DEF Serves, Clear, Busy, Naming!IdleHand
<1>16. /\ \A p, v : ~Leaving(how, p, v)
       /\ \A h, p, b : ~Revoking(how, h, p, b)
  BY <1>0, <1>8 DEF Leaving, Revoking, Naming!IdleHand
<1>17. Unowed(how)'
  BY <1>0, <1>1, <1>4, <1>16, <1>10 DEF Unowed
<1>18. Granted(how)'
  <2> SUFFICES ASSUME NEW h \in how.harbors, NEW q \in how.projects, NEW b \in Naming(how)!Account, <<h, q, b>> \in grant
               PROVE  Somebodys(how, q, b)' \/ RemovalOwed(how, h, q, b)'
    BY <1>0 DEF Granted
  <2>1. Somebodys(how, q, b) \/ RemovalOwed(how, h, q, b)
    BY <1>10, <1>16 DEF Granted
  <2> QED
    BY <1>0, <1>4, <2>1 DEF RemovalOwed, Somebodys
<1>19. Called(how)'
  BY <1>0, <1>7, <1>8, <1>10, <1>a DEF Called, Naming!IdleHand
<1>20. LetIn(how)'
  <2> SUFFICES ASSUME NEW q \in how.projects, NEW v \in how.users, NEW h \in how.harbors, <<q, v>> \in row
               PROVE  IsLetIn(how, q, v, h)' \/ Joining(how, q, v, h)'
    BY <1>0 DEF LetIn
  <2>1. CASE v = u /\ q \in mine
    BY <1>7, <1>8, <2>1 DEF Joining
  <2>2. CASE ~(v = u /\ q \in mine)
    <3>1. ~Joining(how, q, v, h)
      BY <1>0, <1>8, <1>a, <1>b, <2>2 DEF Joining, Naming!IdleHand, Naming!Held
    <3>2. IsLetIn(how, q, v, h)
      BY <1>10, <1>16, <3>1 DEF LetIn
    <3> QED
      BY <1>0, <1>1, <1>4, <2>2, <3>2 DEF IsLetIn
  <2> QED
    BY <2>1, <2>2
<1>21. InPass(how)'
  BY <1>0, <1>8 DEF InPass
<1> QED
  BY <1>8, <1>9, <1>11, <1>12, <1>15, <1>17, <1>18, <1>19, <1>20, <1>21 DEF IdInv

\* The cluster takes another directory: its members go by the names they went by.
LEMMA SwitchKeeps ==
  ASSUME NEW how, IdSorts(how), IdInv(how), Naming(how)!SwitchMode
  PROVE  IdInv(how)'
<1>0. /\ Naming(how)!TypeOK /\ Alone(how) /\ Distinct(how) /\ Rows(how) /\ Directory(how)
      /\ Naming(how)!Free
      /\ mode' \in Naming(how)!Mode \ {mode} /\ requests' = requests + 1 /\ requests < how.requests
      /\ mode = "GATEWAY" => \A x \in row : mapping[x[2]] # None
      /\ UNCHANGED <<mapping, row, withdrawn, grant, queue, nextId, hand, pass>>
  BY DEF IdInv, Naming!SwitchMode, IdSorts
<1>1. /\ pass.at = None /\ \A n \in how.admins : hand[n] = Naming(how)!IdleHand /\ hand[n].pc = "idle"
  BY <1>0 DEF Naming!Free, Alone, Busy
<1>d. /\ \A q \in how.projects, v \in how.users, h \in how.harbors : <<q, v>> \in row =>
                                                                       IsLetIn(how, q, v, h)
      /\ \A h \in how.harbors, q \in how.projects, b \in Naming(how)!Account :
           <<h, q, b>> \in grant => Somebodys(how, q, b) \/ RemovalOwed(how, h, q, b)
      /\ \A o \in queue, v \in how.users :
           <<o.key.project, v>> \in row /\ o.kind = "MEMBER_REMOVE" /\ Naming(how)!Resolved(v) = o.key.account
             => <<o.key.project, v>> \in withdrawn
  BY <1>1, Quiet
<1>2. Naming(how)!TypeOK'
  <2>1. requests' \in 0..how.requests /\ mode' \in Naming(how)!Mode
    BY <1>0 DEF Naming!TypeOK, IdSorts
  <2> QED
    BY <1>0, <2>1 DEF Naming!TypeOK, Naming!Account, Naming!Op, Naming!Hand, Naming!Pass
<1>3. /\ \A v \in how.users : Naming(how)!Resolved(v) # None =>
                                Naming(how)!Resolved(v)' \in {Naming(how)!Resolved(v), None}
      /\ \A v \in how.users : Naming(how)!Resolved(v) = None =>
                                Naming(how)!Resolved(v)' \in {how.usernames[v], None}
      /\ mode = "GATEWAY" => \A q \in how.projects, v \in how.users : <<q, v>> \in row => mapping[v] # None
      /\ \A q \in how.projects, v \in how.users : <<q, v>> \in row /\ Naming(how)!Resolved(v) # None => Naming(how)!Resolved(v)' = Naming(how)!Resolved(v)
      /\ \A q \in how.projects, v \in how.users : <<q, v>> \in row /\ Naming(how)!Resolved(v) = None =>
                                                    <<q, v>> \in withdrawn
      /\ \A v : Naming(how)!Held(v)' = Naming(how)!Held(v)
  <2>1. mode = "GATEWAY" => \A q \in how.projects, v \in how.users : <<q, v>> \in row => mapping[v] # None
    BY <1>0
  <2>2. mode \in {"GATEWAY", "MAPPED"} /\ mode' \in {"GATEWAY", "MAPPED"} /\ mode' # mode
    BY <1>0 DEF Naming!TypeOK, Naming!Mode
  <2>3. \A v \in how.users : how.usernames[v] # None
    BY <1>0, IdFacts
  <2>4. \A q \in how.projects, v \in how.users : <<q, v>> \in row /\ mapping[v] = None =>
                                                   <<q, v>> \in withdrawn
    BY <1>0, <2>1, <2>2 DEF Directory
  <2> QED
    BY <1>0, <2>1, <2>2, <2>3, <2>4 DEF Naming!Resolved, Naming!Held
<1>4. Alone(how)' /\ Distinct(how)'
  BY <1>0 DEF Alone, Busy, Distinct
<1>5. Rows(how)'
  <2>1. \A o \in queue, v \in how.users :
          o.kind = "MEMBER_ADD" /\ Naming(how)!Resolved(v)' # None /\ o.key.account = Naming(how)!Resolved(v)' =>
            o.key.user = v
    BY <1>0, <1>3 DEF Rows
  <2> QED
    BY <1>0, <2>1 DEF Rows
<1>6. Directory(how)'
  BY <1>0, <1>3 DEF Directory, Naming!TypeOK, Naming!Mode
<1>7. \A n \in how.admins : Serves(how, n)' /\ Clear(how, n)'
  BY <1>0, <1>1 DEF Serves, Clear, Busy, Naming!IdleHand
<1>8. Unowed(how)'
  <2> SUFFICES ASSUME NEW o \in queue, NEW v \in how.users, <<o.key.project, v>> \in row, o.kind = "MEMBER_REMOVE",
                      Naming(how)!Resolved(v)' = o.key.account
               PROVE  <<o.key.project, v>> \in withdrawn
    BY <1>0 DEF Unowed
  <2>1. o.key.project \in how.projects
    BY <1>0, IdFacts
  <2> QED
    BY <1>3, <1>d, <2>1
<1>9. Granted(how)'
  <2> SUFFICES ASSUME NEW h \in how.harbors, NEW q \in how.projects, NEW b \in Naming(how)!Account, <<h, q, b>> \in grant
               PROVE  Somebodys(how, q, b)' \/ RemovalOwed(how, h, q, b)'
    BY <1>0 DEF Granted
  <2>1. Somebodys(how, q, b) \/ RemovalOwed(how, h, q, b)
    BY <1>d
  <2>2. Somebodys(how, q, b) => Somebodys(how, q, b)'
    BY <1>0, <1>3 DEF Somebodys
  <2> QED
    BY <1>0, <2>1, <2>2 DEF RemovalOwed
<1>10. Called(how)'
  BY <1>0, <1>1 DEF Called, Naming!IdleHand
<1>11. LetIn(how)'
  <2> SUFFICES ASSUME NEW q \in how.projects, NEW v \in how.users, NEW h \in how.harbors, <<q, v>> \in row
               PROVE  IsLetIn(how, q, v, h)'
    BY <1>0 DEF LetIn
  <2>1. IsLetIn(how, q, v, h)
    BY <1>d
  <2> QED
    BY <1>0, <1>3, <2>1 DEF IsLetIn
<1>12. InPass(how)'
  BY <1>0, <1>1 DEF InPass
<1> QED
  BY <1>2, <1>4, <1>5, <1>6, <1>7, <1>8, <1>9, <1>10, <1>11, <1>12 DEF IdInv

\* What a handler that calls the Harbors has in hand.
LEMMA Calls ==
  ASSUME NEW how, IdSorts(how), IdInv(how), NEW m \in how.admins, NEW p \in how.projects,
         NEW h \in how.harbors, <<p, h>> \in hand[m].todo
  PROVE  /\ Busy(how, m) /\ hand[m].pc \in {"revoke", "grant"} /\ hand[m].user \in how.users
         /\ hand[m].name \in Naming(how)!Account /\ how.fold[hand[m].name] \in Naming(how)!Account
         /\ hand[m].pc = "revoke" => hand[m].kind \in {"map", "unmap", "drop"}
         /\ hand[m].pc = "grant" => /\ hand[m].kind \in {"map", "add"} /\ hand[m].name = Naming(how)!Resolved(hand[m].user)
                                    /\ <<p, hand[m].user>> \in row
         /\ hand[m].kind \in {"add", "drop"} => p = hand[m].project
<1>1. Serves(how, m) /\ Busy(how, m) /\ Naming(how)!TypeOK /\ hand[m] \in Naming(how)!Hand
  BY DEF IdInv, Naming!TypeOK, Serves, Busy
<1>2. hand[m].name \in Naming(how)!Account
  BY <1>1, IdFacts DEF Serves, Naming!Hand
<1> QED
  BY <1>1, <1>2 DEF Serves, Naming!Held, IdSorts

\* A Harbor answers: the grant is there, or gone.
LEMMA WorksKeeps ==
  ASSUME NEW how, IdSorts(how), IdInv(how), NEW m \in how.admins, NEW p \in how.projects,
         NEW h \in how.harbors, Naming(how)!CallWorks(m, p, h)
  PROVE  IdInv(how)'
<1>0. /\ Naming(how)!TypeOK /\ Alone(how) /\ Distinct(how) /\ Serves(how, m) /\ Clear(how, m)
      /\ hand[m] \in Naming(how)!Hand /\ <<p, h>> \in hand[m].todo
      /\ Unowed(how) /\ Granted(how) /\ LetIn(how) /\ Called(how) /\ Rows(how) /\ Directory(how)
      /\ UNCHANGED <<mode, mapping, row, withdrawn, queue, nextId, pass, requests>>
  BY DEF IdInv, Naming!TypeOK, Naming!CallWorks
<1>a. PICK u \in how.users, name \in Naming(how)!Account, b \in Naming(how)!Account :
        u = hand[m].user /\ name = hand[m].name /\ b = how.fold[name]
  BY <1>0, Calls
<1>1. /\ Busy(how, m) /\ hand[m].pc \in {"revoke", "grant"}
      /\ hand[m].pc = "revoke" => hand[m].kind \in {"map", "unmap", "drop"}
      /\ hand[m].pc = "grant" =>
           hand[m].kind \in {"map", "add"} /\ name = Naming(how)!Resolved(u) /\ <<p, u>> \in row
      /\ hand[m].kind \in {"add", "drop"} => p = hand[m].project
  BY <1>0, <1>a, Calls
<1>2. /\ hand[m].pc = "grant" => grant' = grant \union {<<h, p, b>>}
      /\ hand[m].pc = "revoke" => grant' = grant \ {<<h, p, b>>}
  BY <1>a DEF Naming!CallWorks
<1> DEFINE new == [hand[m] EXCEPT !.todo = @ \ {<<p, h>>}, !.reached = TRUE]
<1>3. hand' = [hand EXCEPT ![m] = new]
  BY <1>0 DEF Naming!CallWorks, Naming!TypeOK, Naming!Hand
<1>4. \A v : Naming(how)!Resolved(v)' = Naming(how)!Resolved(v) /\ Naming(how)!Held(v)' = Naming(how)!Held(v)
  BY <1>0 DEF Naming!Resolved, Naming!Held
<1>7. /\ new.pc = hand[m].pc /\ new.kind = hand[m].kind /\ new.user = u /\ new.name = name
      /\ new.todo = hand[m].todo \ {<<p, h>>} /\ new.reached = TRUE /\ new.project = hand[m].project
      /\ new.had = hand[m].had /\ new.old = hand[m].old /\ new \in Naming(how)!Hand
  BY <1>0, <1>a DEF Naming!Hand
<1> HIDE DEF new
<1>8. /\ hand' \in [how.admins -> Naming(how)!Hand] /\ hand'[m] = new
      /\ \A n \in how.admins \ {m} : hand[n] = Naming(how)!IdleHand /\ hand'[n] = Naming(how)!IdleHand
      /\ Alone(how)' /\ pass.at = None
  <2>1. new.pc # "idle"
    BY <1>1, <1>7
  <2>2. pass' = pass
    BY <1>0
  <2> QED
    BY <1>0, <1>1, <1>3, <1>7, <2>1, <2>2, OthersIdle, OneBusy
<1>9. Naming(how)!TypeOK'
  <2>1. <<h, p, b>> \in how.harbors \X how.projects \X Naming(how)!Account
    OBVIOUS
  <2>2. grant' \subseteq how.harbors \X how.projects \X Naming(how)!Account
    BY <1>0, <1>1, <1>2, <2>1 DEF Naming!TypeOK
  <2> QED
    BY <1>0, <1>8, <2>2 DEF Naming!TypeOK, Naming!Account, Naming!Op, Naming!Hand, Naming!Pass
<1>11. Rows(how)' /\ Distinct(how)' /\ Directory(how)'
  BY <1>0, <1>4 DEF Rows, Distinct, Directory
<1>13. Serves(how, m)'
  BY <1>0, <1>1, <1>4, <1>7, <1>8, <1>a DEF Serves, Busy, Naming!Taken
<1>14. Clear(how, m)'
  BY <1>0, <1>4, <1>7, <1>8, <1>a DEF Clear, Busy, Target
<1>15. \A n \in how.admins : Serves(how, n)' /\ Clear(how, n)'
  BY <1>8, <1>13, <1>14 DEF Serves, Clear, Busy, Naming!IdleHand
<1>16. /\ \A q, v : Leaving(how, q, v) <=> hand[m].kind = "drop" /\ hand[m].pc = "revoke" /\ hand[m].project = q /\ u = v
       /\ \A q, v : Leaving(how, q, v)' <=> Leaving(how, q, v)
  BY <1>7, <1>8, <1>a DEF Leaving, Naming!IdleHand
<1>17. Unowed(how)'
  BY <1>0, <1>4, <1>16 DEF Unowed
<1>18. Granted(how)'
  <2> SUFFICES ASSUME NEW g \in how.harbors, NEW q \in how.projects, NEW c \in Naming(how)!Account, <<g, q, c>> \in grant'
               PROVE  Somebodys(how, q, c)' \/ RemovalOwed(how, g, q, c)' \/ Revoking(how, g, q, c)'
    BY DEF Granted
  <2>1. CASE <<g, q, c>> \in grant
    <3>1. Somebodys(how, q, c) \/ RemovalOwed(how, g, q, c) \/ Revoking(how, g, q, c)
      BY <1>0, <2>1 DEF Granted
    <3>2. (Somebodys(how, q, c) => Somebodys(how, q, c)') /\ (RemovalOwed(how, g, q, c) => RemovalOwed(how, g, q, c)')
      BY <1>0, <1>4 DEF Somebodys, RemovalOwed
    <3>3. CASE Revoking(how, g, q, c)
      <4>1. hand[m].pc = "revoke" /\ <<q, g>> \in hand[m].todo /\ b = c
        BY <1>8, <1>a, <3>3 DEF Revoking, Naming!IdleHand
      <4>2. <<q, g>> # <<p, h>>
        BY <1>2, <4>1
      <4> QED
        BY <1>7, <1>8, <1>a, <4>1, <4>2 DEF Revoking
    <3> QED
      BY <3>1, <3>2, <3>3
  <2>2. CASE <<g, q, c>> \notin grant
    <3>1. hand[m].pc = "grant" /\ g = h /\ q = p /\ c = b
      BY <1>1, <1>2, <2>2
    <3>2. Naming(how)!Resolved(u) # None
      BY <1>0, <1>1, <3>1, IdFacts
    <3> QED
      BY <1>0, <1>1, <1>4, <1>a, <3>1, <3>2 DEF Somebodys
  <2> QED
    BY <2>1, <2>2
<1>19. Called(how)'
  <2> SUFFICES ASSUME NEW g \in how.harbors, hand[m].kind = "drop", hand[m].pc = "revoke",
                      <<p, g>> \notin new.todo
               PROVE  <<g, p, b>> \notin grant' \/ RemovalOwed(how, g, p, b)'
    BY <1>1, <1>7, <1>8, <1>a DEF Called, Naming!IdleHand
  <2>1. CASE g = h
    BY <1>2, <2>1
  <2>2. CASE g # h
    <3>1. <<g, p, b>> \notin grant \/ RemovalOwed(how, g, p, b)
      BY <1>0, <1>1, <1>7, <1>a, <2>2 DEF Called
    <3> QED
      BY <1>0, <1>2, <3>1 DEF RemovalOwed
  <2> QED
    BY <2>1, <2>2
<1>20. LetIn(how)'
  <2> SUFFICES ASSUME NEW q \in how.projects, NEW v \in how.users, NEW g \in how.harbors, <<q, v>> \in row, ~Leaving(how, q, v)
               PROVE  IsLetIn(how, q, v, g)' \/ Joining(how, q, v, g)'
    BY <1>0, <1>16 DEF LetIn
  <2>1. IsLetIn(how, q, v, g) \/ Joining(how, q, v, g)
    BY <1>0 DEF LetIn
  <2>2. CASE IsLetIn(how, q, v, g)
    <3>1. CASE hand[m].pc = "grant"
      BY <1>0, <1>2, <1>4, <2>2, <3>1 DEF IsLetIn
    <3>2. CASE hand[m].pc = "revoke"
      <4>1. \/ <<q, v>> \in withdrawn \/ Naming(how)!Resolved(v) = None
            \/ <<g, q, how.fold[Naming(how)!Resolved(v)]>> # <<h, p, b>>
        <5> SUFFICES ASSUME Naming(how)!Resolved(v) # None, q = p, how.fold[Naming(how)!Resolved(v)] = b PROVE FALSE
          OBVIOUS
        <5>1. Naming(how)!Resolved(v) = name
          BY <1>0, <1>a, IdFacts
        <5>2. hand[m].kind = "drop" /\ name = Naming(how)!Resolved(u)
          BY <1>0, <1>1, <1>a, <3>2, <5>1 DEF Serves
        <5>3. v = u
          BY <1>0, <5>1, <5>2, ResolvedOne
        <5> QED
          BY <1>1, <1>16, <3>2, <5>2, <5>3
      <4> QED
        BY <1>0, <1>2, <1>4, <2>2, <3>2, <4>1 DEF IsLetIn
    <3> QED
      BY <1>1, <3>1, <3>2
  <2>3. CASE Joining(how, q, v, g)
    <3>1. /\ u = v
          /\ \/ hand[m].kind = "map" /\ hand[m].pc = "revoke"
             \/ hand[m].pc = "grant" /\ <<q, g>> \in hand[m].todo
      BY <1>1, <1>8, <1>a, <2>3 DEF Joining, Naming!IdleHand
    <3>2. CASE <<q, g>> = <<p, h>> /\ hand[m].pc = "grant"
      BY <1>0, <1>1, <1>2, <1>4, <1>a, <3>1, <3>2 DEF IsLetIn
    <3>3. CASE ~(<<q, g>> = <<p, h>> /\ hand[m].pc = "grant")
      BY <1>7, <1>8, <3>1, <3>3 DEF Joining
    <3> QED
      BY <3>2, <3>3
  <2> QED
    BY <2>1, <2>2, <2>3
<1>21. InPass(how)'
  BY <1>0, <1>8 DEF InPass
<1> QED
  BY <1>8, <1>9, <1>11, <1>15, <1>17, <1>18, <1>19, <1>20, <1>21 DEF IdInv

\* A Harbor is owed the call: the row of an addition is there, or that of a removal stands
\* for whatever was owed of the account before.
LEMMA FailsQueue ==
  ASSUME NEW how, IdSorts(how), IdInv(how), NEW m \in how.admins, NEW p \in how.projects,
         NEW h \in how.harbors, Naming(how)!CallFails(m, p, h)
  PROVE  /\ nextId' \in {nextId, nextId + 1}
         /\ \E key \in [project : how.projects, account : Naming(how)!Account, user : how.users] :
              /\ key.project = p /\ key.account = hand[m].name /\ key.user = hand[m].user
              /\ hand[m].pc = "grant" =>
                   \/ /\ queue' = queue /\ nextId' = nextId
                      /\ \E o \in queue : /\ o.registry = h /\ o.kind = "MEMBER_ADD"
                                          /\ o.key.project = p /\ o.key.user = hand[m].user
                   \/ /\ queue' = queue \union {Naming(how)!Row(nextId, h, "MEMBER_ADD", key)} /\ nextId' = nextId + 1
                      /\ \A o \in queue : ~(o.registry = h /\ o.key.project = p /\ o.key.account = hand[m].name)
              /\ hand[m].pc = "revoke" =>
                   /\ queue' = {o \in queue : ~(o.registry = h /\ o.key.project = p /\ o.key.account = hand[m].name)}
                                 \union {Naming(how)!Row(nextId, h, "MEMBER_REMOVE", key)}
                   /\ nextId' = nextId + 1
<1>0. /\ Naming(how)!TypeOK /\ Serves(how, m) /\ Clear(how, m) /\ hand[m] \in Naming(how)!Hand
      /\ <<p, h>> \in hand[m].todo /\ Rows(how)
      /\ nextId \in Nat
  BY DEF IdInv, Naming!TypeOK, Naming!CallFails
<1>a. PICK u \in how.users, name \in Naming(how)!Account :
        u = hand[m].user /\ name = hand[m].name
  BY <1>0, Calls
<1>1. /\ Busy(how, m) /\ hand[m].pc \in {"revoke", "grant"}
      /\ hand[m].pc = "grant" => hand[m].kind \in {"map", "add"}
  BY <1>0, Calls
<1> DEFINE kind == IF hand[m].pc = "grant" THEN "MEMBER_ADD" ELSE "MEMBER_REMOVE"
           key == [project |-> p, account |-> name, user |-> u]
           found == {o \in queue : o.registry = h /\ o.key.project = p /\ o.key.account = name}
           kept == {o \in found : o.kind = "MEMBER_ADD" /\ kind = "MEMBER_ADD"}
<1>2. /\ key \in [project : how.projects, account : Naming(how)!Account, user : how.users]
      /\ key.project = p /\ key.account = name /\ key.user = u
  OBVIOUS
<1>3. /\ queue' = IF kept = {}
                  THEN (queue \ found) \union {Naming(how)!Row(nextId, h, kind, key)}
                  ELSE (queue \ kept) \union {[o EXCEPT !.key = key] : o \in kept}
      /\ nextId' = IF kept = {} THEN nextId + 1 ELSE nextId
  BY <1>a DEF Naming!CallFails
<1>4. CASE hand[m].pc = "revoke"
  <2>1. kept = {} /\ kind = "MEMBER_REMOVE"
    BY <1>4
  <2>2. queue \ found = {o \in queue : ~(o.registry = h /\ o.key.project = p /\ o.key.account = name)}
    OBVIOUS
  <2> QED
    BY <1>2, <1>3, <1>4, <1>a, <2>1, <2>2
<1>5. CASE hand[m].pc = "grant"
  <2>1. \A o \in found : o.kind = "MEMBER_ADD" /\ o.key.user = u /\ o \in kept
    BY <1>0, <1>1, <1>5, <1>a DEF Clear, Target
  <2>2. CASE found = {}
    <3>1. kept = {} /\ kind = "MEMBER_ADD" /\ queue \ found = queue
      BY <1>5, <2>2
    <3>2. \A o \in queue : ~(o.registry = h /\ o.key.project = p /\ o.key.account = name)
      BY <2>2
    <3> QED
      BY <1>2, <1>3, <1>5, <1>a, <3>1, <3>2
  <2>3. CASE found # {}
    <3>1. kept # {} /\ kept \subseteq queue
      BY <2>1, <2>3
    <3>2. ASSUME NEW o \in kept PROVE [o EXCEPT !.key = key] = o
      <4>1. o \in Naming(how)!Op /\ o.key.project = p /\ o.key.account = name /\ o.key.user = u
        BY <1>0, <2>1, <3>1, IdFacts
      <4>2. o.key = key
        BY <4>1 DEF Naming!Op
      <4> QED
        BY <4>1, <4>2 DEF Naming!Op
    <3>3. queue' = queue /\ nextId' = nextId
      BY <1>3, <3>1, <3>2
    <3>4. \E o \in queue : o.registry = h /\ o.kind = "MEMBER_ADD" /\ o.key.project = p /\ o.key.user = u
      BY <2>1, <2>3
    <3> QED
      BY <1>2, <1>5, <1>a, <3>3, <3>4
  <2> QED
    BY <2>2, <2>3
<1> QED
  BY <1>1, <1>4, <1>5

\* A Harbor does not answer: it is owed the call.
LEMMA FailsKeeps ==
  ASSUME NEW how, IdSorts(how), IdInv(how), NEW m \in how.admins, NEW p \in how.projects,
         NEW h \in how.harbors, Naming(how)!CallFails(m, p, h)
  PROVE  IdInv(how)'
<1>0. /\ Naming(how)!TypeOK /\ Alone(how) /\ Distinct(how) /\ Serves(how, m) /\ Clear(how, m)
      /\ hand[m] \in Naming(how)!Hand /\ <<p, h>> \in hand[m].todo
      /\ Unowed(how) /\ Granted(how) /\ LetIn(how) /\ Called(how) /\ Rows(how) /\ Directory(how)
      /\ nextId \in Nat
      /\ UNCHANGED <<mode, mapping, row, withdrawn, grant, pass, requests>>
  BY DEF IdInv, Naming!TypeOK, Naming!CallFails
<1>a. PICK u \in how.users, name \in Naming(how)!Account, b \in Naming(how)!Account :
        u = hand[m].user /\ name = hand[m].name /\ b = how.fold[name]
  BY <1>0, Calls
<1>1. /\ Busy(how, m) /\ hand[m].pc \in {"revoke", "grant"}
      /\ hand[m].pc = "revoke" => hand[m].kind \in {"map", "unmap", "drop"}
      /\ hand[m].pc = "grant" =>
           hand[m].kind \in {"map", "add"} /\ name = Naming(how)!Resolved(u) /\ <<p, u>> \in row
      /\ hand[m].kind \in {"add", "drop"} => p = hand[m].project
  BY <1>0, <1>a, Calls
<1> DEFINE new == [hand[m] EXCEPT !.todo = @ \ {<<p, h>>}]
<1>3. hand' = [hand EXCEPT ![m] = new]
  BY <1>0 DEF Naming!CallFails, Naming!TypeOK, Naming!Hand
<1>4. \A v : Naming(how)!Resolved(v)' = Naming(how)!Resolved(v) /\ Naming(how)!Held(v)' = Naming(how)!Held(v)
  BY <1>0 DEF Naming!Resolved, Naming!Held
<1>7. /\ new.pc = hand[m].pc /\ new.kind = hand[m].kind /\ new.user = u /\ new.name = name
      /\ new.todo = hand[m].todo \ {<<p, h>>} /\ new.reached = hand[m].reached
      /\ new.project = hand[m].project
      /\ new.had = hand[m].had /\ new.old = hand[m].old /\ new \in Naming(how)!Hand
  BY <1>0, <1>a DEF Naming!Hand
<1> HIDE DEF new
<1>8. /\ hand' \in [how.admins -> Naming(how)!Hand] /\ hand'[m] = new
      /\ \A n \in how.admins \ {m} : hand[n] = Naming(how)!IdleHand /\ hand'[n] = Naming(how)!IdleHand
      /\ Alone(how)' /\ pass.at = None
  BY <1>0, <1>1, <1>3, <1>7, OthersIdle, OneBusy DEF Busy
\* The row that is added, and those that it stands for.
<1>b. PICK key \in [project : how.projects, account : Naming(how)!Account, user : how.users] :
        /\ key.project = p /\ key.account = name /\ key.user = u
        /\ hand[m].pc = "grant" =>
             \/ /\ queue' = queue /\ nextId' = nextId
                /\ \E o \in queue : /\ o.registry = h /\ o.kind = "MEMBER_ADD"
                                    /\ o.key.project = p /\ o.key.user = u
             \/ /\ queue' = queue \union {Naming(how)!Row(nextId, h, "MEMBER_ADD", key)} /\ nextId' = nextId + 1
                /\ \A o \in queue : ~(o.registry = h /\ o.key.project = p /\ o.key.account = name)
        /\ hand[m].pc = "revoke" =>
             /\ queue' = {o \in queue : ~(o.registry = h /\ o.key.project = p /\ o.key.account = name)}
                           \union {Naming(how)!Row(nextId, h, "MEMBER_REMOVE", key)}
             /\ nextId' = nextId + 1
  BY <1>a, FailsQueue
<1>c. PICK kind : kind = (IF hand[m].pc = "grant" THEN "MEMBER_ADD" ELSE "MEMBER_REMOVE")
  OBVIOUS
<1> DEFINE entry == Naming(how)!Row(nextId, h, kind, key)
<1>d. /\ entry \in Naming(how)!Op /\ entry.id = nextId /\ entry.registry = h /\ entry.kind = kind
      /\ entry.key = key
      /\ kind \in {"MEMBER_ADD", "MEMBER_REMOVE"}
      /\ hand[m].pc = "grant" => entry = Naming(how)!Row(nextId, h, "MEMBER_ADD", key)
      /\ hand[m].pc = "revoke" => entry = Naming(how)!Row(nextId, h, "MEMBER_REMOVE", key)
  BY <1>0, <1>c DEF Naming!Row, Naming!Op
<1> HIDE DEF entry
<1>e. \/ hand[m].pc = "grant" /\ queue' = queue /\ nextId' = nextId
      \/ /\ entry \in queue' /\ nextId' = nextId + 1
         /\ \A o \in queue' : o = entry \/ (o \in queue /\ ~(o.registry = h /\ o.key.project = p /\ o.key.account = name))
  <2>1. CASE hand[m].pc = "grant"
    BY <1>b, <1>d, <2>1
  <2>2. CASE hand[m].pc = "revoke"
    BY <1>b, <1>d, <2>2
  <2> QED
    BY <1>1, <2>1, <2>2
<1>f. /\ \A o \in queue : o \in queue' \/ (/\ hand[m].pc = "revoke" /\ o.registry = h /\ o.key.project = p /\ o.key.account = name
                                          /\ entry \in queue')
      /\ hand[m].pc = "revoke" => entry \in queue' /\ kind = "MEMBER_REMOVE"
      /\ hand[m].pc = "grant" => /\ kind = "MEMBER_ADD"
                                 /\ \E o \in queue' : /\ o.registry = h /\ o.kind = "MEMBER_ADD"
                                                      /\ o.key.project = p /\ o.key.user = u
  BY <1>1, <1>b, <1>c, <1>d
<1>9. Naming(how)!TypeOK'
  <2>1. queue' \subseteq Naming(how)!Op /\ nextId' \in Nat
    BY <1>0, <1>d, <1>e DEF Naming!TypeOK
  <2> QED
    BY <1>0, <1>8, <2>1 DEF Naming!TypeOK, Naming!Account, Naming!Op, Naming!Hand, Naming!Pass
<1>g. /\ \A o \in queue \union pass.ops : o.id < nextId /\ o.id \in Nat
      /\ \A o, r \in queue \union pass.ops : o.id = r.id => o = r
      /\ \A o, r \in queue : o.registry = r.registry /\ o.key.project = r.key.project
                             /\ o.key.account = r.key.account => o = r
      /\ \A o \in queue \union pass.ops, v \in how.users : o.key.account = how.usernames[v] =>
                                                             o.key.user = v
      /\ \A o \in queue, v \in how.users :
           o.kind = "MEMBER_ADD" /\ Naming(how)!Resolved(v) # None /\ o.key.account = Naming(how)!Resolved(v) =>
             o.key.user = v
      /\ \A o \in pass.ops : o.kind = "MEMBER_REMOVE" =>
           \E r \in queue : /\ r.registry = o.registry /\ r.kind = "MEMBER_REMOVE"
                            /\ r.key.project = o.key.project /\ r.key.account = o.key.account
  BY <1>0, IdFacts DEF Rows
<1>h. \A v \in how.users : name = how.usernames[v] => v = u
  BY <1>0, <1>1, <1>a, ResolvedOne DEF Serves
<1>11. Rows(how)'
  <2>1. /\ \A o \in queue' \union pass.ops : o.id < nextId'
        /\ \A o, r \in queue' \union pass.ops : o.id = r.id => o = r
    BY <1>0, <1>d, <1>e, <1>g
  <2>2. \A o, r \in queue' : o.registry = r.registry /\ o.key.project = r.key.project
                             /\ o.key.account = r.key.account => o = r
    BY <1>b, <1>d, <1>e, <1>g
  <2>3. \A o \in pass.ops : o.kind = "MEMBER_REMOVE" =>
           \E r \in queue' : /\ r.registry = o.registry /\ r.kind = "MEMBER_REMOVE"
                             /\ r.key.project = o.key.project /\ r.key.account = o.key.account
    <3> SUFFICES ASSUME NEW o \in pass.ops, o.kind = "MEMBER_REMOVE"
                 PROVE  \E r \in queue' : /\ r.registry = o.registry /\ r.kind = "MEMBER_REMOVE"
                                          /\ r.key.project = o.key.project
                                          /\ r.key.account = o.key.account
      OBVIOUS
    <3>1. PICK r \in queue : /\ r.registry = o.registry /\ r.kind = "MEMBER_REMOVE"
                             /\ r.key.project = o.key.project /\ r.key.account = o.key.account
      BY <1>g
    <3> QED
      BY <1>b, <1>d, <1>f, <3>1
  <2>4. \A o \in queue' \union pass.ops, v \in how.users : o.key.account = how.usernames[v] =>
                                                             o.key.user = v
    BY <1>b, <1>d, <1>e, <1>g, <1>h
  <2>5. \A o \in queue', v \in how.users :
           o.kind = "MEMBER_ADD" /\ Naming(how)!Resolved(v) # None /\ o.key.account = Naming(how)!Resolved(v) =>
             o.key.user = v
    <3>1. kind = "MEMBER_ADD" => \A v \in how.users : Naming(how)!Resolved(v) # None /\ name = Naming(how)!Resolved(v) => u = v
      BY <1>0, <1>1, <1>c, ResolvedOne
    <3> QED
      BY <1>b, <1>d, <1>e, <1>g, <3>1
  <2> QED
    BY <1>0, <1>4, <2>1, <2>2, <2>3, <2>4, <2>5 DEF Rows
<1>12. Distinct(how)' /\ Directory(how)'
  BY <1>0 DEF Distinct, Directory
<1>13. Serves(how, m)'
  <2>1. hand[m].pc = "revoke" => \A o \in queue' : o.kind = "MEMBER_ADD" /\ o.key.account = name => o.key.user = u
    BY <1>0, <1>a, <1>b, <1>d, <1>e DEF Serves
  <2> QED
    BY <1>0, <1>1, <1>4, <1>7, <1>8, <1>a, <2>1 DEF Serves, Busy, Naming!Taken
<1>14. Clear(how, m)'
  <2>1. Target(how, m)' = Target(how, m)
    BY <1>0, <1>7, <1>8, <1>a DEF Target
  <2>2. hand[m].pc = "grant" => Target(how, m) = name
    BY <1>a DEF Target
  <2>3. hand[m].pc = "revoke" /\ hand[m].kind \in {"map", "add"} => Target(how, m) # name
    <3>1. hand[m].pc = "revoke" /\ hand[m].kind = "map" =>
            Target(how, m) = Naming(how)!Resolved(u) /\ Naming(how)!Resolved(u) # name
      BY <1>0, <1>a DEF Target, Serves, Naming!Resolved
    <3> QED
      BY <1>1, <3>1
  <2>4. hand[m].kind \in {"map", "add"} => \A o \in queue : o.key.account = Target(how, m) => o.kind = "MEMBER_ADD" /\ o.key.user = u
    BY <1>0, <1>1, <1>a DEF Clear
  <2> QED
    BY <1>1, <1>7, <1>8, <1>b, <1>c, <1>d, <1>e, <2>1, <2>2, <2>3, <2>4 DEF Clear
<1>15. \A n \in how.admins : Serves(how, n)' /\ Clear(how, n)'
  BY <1>8, <1>13, <1>14 DEF Serves, Clear, Busy, Naming!IdleHand
<1>16. /\ \A q, v : Leaving(how, q, v) <=> hand[m].kind = "drop" /\ hand[m].pc = "revoke" /\ hand[m].project = q /\ u = v
       /\ \A q, v : Leaving(how, q, v)' <=> Leaving(how, q, v)
  BY <1>7, <1>8, <1>a DEF Leaving, Naming!IdleHand
\* Whoever goes by the name that is revoked is leaving.
<1>i. \A v \in how.users : hand[m].pc = "revoke" /\ <<p, v>> \in row /\ Naming(how)!Resolved(v) = name =>
                             Leaving(how, p, v)
  <2> SUFFICES ASSUME NEW v \in how.users, hand[m].pc = "revoke", Naming(how)!Resolved(v) = name PROVE Leaving(how, p, v)
    OBVIOUS
  <2>1. hand[m].kind = "drop" /\ name = Naming(how)!Resolved(u) /\ name # None
    BY <1>0, <1>1, <1>a DEF Serves
  <2>2. v = u
    BY <1>0, <2>1, ResolvedOne
  <2> QED
    BY <1>1, <1>16, <2>1, <2>2
<1>17. Unowed(how)'
  <2> SUFFICES ASSUME NEW o \in queue', NEW v \in how.users, <<o.key.project, v>> \in row, o.kind = "MEMBER_REMOVE",
                      Naming(how)!Resolved(v) = o.key.account
               PROVE  <<o.key.project, v>> \in withdrawn \/ Leaving(how, o.key.project, v)
    BY <1>0, <1>4, <1>16 DEF Unowed
  <2>1. CASE o \in queue
    BY <1>0, <2>1 DEF Unowed
  <2>2. CASE o = entry
    BY <1>1, <1>b, <1>c, <1>d, <1>i, <2>2
  <2> QED
    BY <1>e, <2>1, <2>2
<1>j. \A g \in how.harbors, q \in how.projects, c \in Naming(how)!Account : RemovalOwed(how, g, q, c) => RemovalOwed(how, g, q, c)'
  <2> SUFFICES ASSUME NEW g \in how.harbors, NEW q \in how.projects, NEW c \in Naming(how)!Account,
                      NEW o \in queue, o.registry = g, o.kind = "MEMBER_REMOVE", o.key.project = q, how.fold[o.key.account] = c
               PROVE  RemovalOwed(how, g, q, c)'
    BY DEF RemovalOwed
  <2> QED
    BY <1>b, <1>d, <1>f DEF RemovalOwed
<1>k. hand[m].pc = "revoke" => RemovalOwed(how, h, p, b)'
  BY <1>a, <1>b, <1>d, <1>f DEF RemovalOwed
<1>18. Granted(how)'
  <2> SUFFICES ASSUME NEW g \in how.harbors, NEW q \in how.projects, NEW c \in Naming(how)!Account, <<g, q, c>> \in grant
               PROVE  Somebodys(how, q, c)' \/ RemovalOwed(how, g, q, c)' \/ Revoking(how, g, q, c)'
    BY <1>0 DEF Granted
  <2>1. Somebodys(how, q, c) \/ RemovalOwed(how, g, q, c) \/ Revoking(how, g, q, c)
    BY <1>0 DEF Granted
  <2>2. Somebodys(how, q, c) => Somebodys(how, q, c)'
    BY <1>0, <1>4 DEF Somebodys
  <2>3. CASE Revoking(how, g, q, c)
    <3>1. hand[m].pc = "revoke" /\ <<q, g>> \in hand[m].todo /\ b = c
      BY <1>8, <1>a, <2>3 DEF Revoking, Naming!IdleHand
    <3>2. CASE <<q, g>> = <<p, h>>
      BY <1>k, <3>1, <3>2
    <3>3. CASE <<q, g>> # <<p, h>>
      BY <1>7, <1>8, <1>a, <3>1, <3>3 DEF Revoking
    <3> QED
      BY <3>2, <3>3
  <2> QED
    BY <1>j, <2>1, <2>2, <2>3
<1>19. Called(how)'
  <2>1. ASSUME NEW g \in how.harbors, hand[m].kind = "drop", hand[m].pc = "revoke", <<p, g>> \notin new.todo
        PROVE  <<g, p, b>> \notin grant \/ RemovalOwed(how, g, p, b)'
    <3>1. CASE g = h
      BY <1>k, <2>1, <3>1
    <3>2. CASE g # h
      <4>1. <<g, p, b>> \notin grant \/ RemovalOwed(how, g, p, b)
        BY <1>0, <1>1, <1>7, <1>a, <2>1, <3>2 DEF Called
      <4> QED
        BY <1>j, <4>1
    <3> QED
      BY <3>1, <3>2
  <2>2. ASSUME NEW g \in how.harbors, hand[m].kind = "add", hand[m].pc = "grant", ~hand[m].had, ~hand[m].reached
        PROVE  <<g, p, b>> \notin grant
    BY <1>0, <1>1, <1>a, <2>2 DEF Called
  <2> QED
    BY <1>0, <1>1, <1>7, <1>8, <1>a, <2>1, <2>2 DEF Called, Naming!IdleHand
<1>20. LetIn(how)'
  <2> SUFFICES ASSUME NEW q \in how.projects, NEW v \in how.users, NEW g \in how.harbors, <<q, v>> \in row, ~Leaving(how, q, v)
               PROVE  IsLetIn(how, q, v, g)' \/ Joining(how, q, v, g)'
    BY <1>0, <1>16 DEF LetIn
  <2>1. IsLetIn(how, q, v, g) \/ Joining(how, q, v, g)
    BY <1>0 DEF LetIn
  <2>2. CASE Joining(how, q, v, g)
    <3>1. /\ u = v
          /\ \/ hand[m].kind = "map" /\ hand[m].pc = "revoke"
             \/ hand[m].pc = "grant" /\ <<q, g>> \in hand[m].todo
      BY <1>1, <1>8, <1>a, <2>2 DEF Joining, Naming!IdleHand
    <3>2. CASE <<q, g>> = <<p, h>> /\ hand[m].pc = "grant"
      BY <1>f, <3>1, <3>2 DEF IsLetIn
    <3>3. CASE ~(<<q, g>> = <<p, h>> /\ hand[m].pc = "grant")
      BY <1>7, <1>8, <3>1, <3>3 DEF Joining
    <3> QED
      BY <3>2, <3>3
  <2>3. CASE \/ <<q, v>> \in withdrawn \/ Naming(how)!Resolved(v) = None
             \/ <<g, q, how.fold[Naming(how)!Resolved(v)]>> \in grant
    BY <1>0, <1>4, <2>3 DEF IsLetIn
  <2>4. ASSUME NEW o \in queue, o.registry = g, o.kind = "MEMBER_ADD", o.key.project = q, o.key.user = v
        PROVE  IsLetIn(how, q, v, g)' \/ Joining(how, q, v, g)'
    <3>1. CASE o \in queue'
      BY <2>4, <3>1 DEF IsLetIn
    <3>2. CASE o \notin queue'
      <4>1. hand[m].pc = "revoke" /\ g = h /\ q = p /\ o.key.account = name
        BY <1>f, <2>4, <3>2
      <4>2. v = u
        BY <1>0, <1>a, <2>4, <4>1 DEF Serves
      <4>3. hand[m].kind # "drop"
        BY <1>1, <1>16, <4>1, <4>2
      <4>4. CASE hand[m].kind = "map"
        BY <1>7, <1>8, <4>1, <4>2, <4>4 DEF Joining
      <4>5. CASE hand[m].kind = "unmap"
        BY <1>0, <1>4, <1>a, <4>1, <4>2, <4>5 DEF IsLetIn, Serves
      <4> QED
        BY <1>1, <4>1, <4>3, <4>4, <4>5
    <3> QED
      BY <3>1, <3>2
  <2> QED
    BY <2>1, <2>2, <2>3, <2>4 DEF IsLetIn
<1>21. InPass(how)'
  BY <1>0, <1>8 DEF InPass
<1> QED
  BY <1>8, <1>9, <1>11, <1>12, <1>15, <1>17, <1>18, <1>19, <1>20, <1>21 DEF IdInv

\* All Harbors were called.
LEMMA FannedOutKeeps ==
  ASSUME NEW how, IdSorts(how), IdInv(how), NEW m \in how.admins, Naming(how)!FannedOut(m)
  PROVE  IdInv(how)'
<1>0. /\ Naming(how)!TypeOK /\ Alone(how) /\ Distinct(how) /\ Serves(how, m) /\ Clear(how, m)
      /\ hand[m] \in Naming(how)!Hand /\ Busy(how, m)
      /\ Unowed(how) /\ Granted(how) /\ LetIn(how) /\ Called(how) /\ Rows(how) /\ Directory(how)
      /\ hand[m].pc \in {"revoke", "grant", "unrow"} /\ hand[m].todo = {}
      /\ UNCHANGED <<mode, mapping, withdrawn, grant, nextId, pass, requests>>
  BY DEF IdInv, Naming!TypeOK, Naming!FannedOut, Busy
<1>a. PICK u \in how.users : u = hand[m].user
  BY <1>0 DEF Serves
<1>c. PICK p : p = hand[m].project
  OBVIOUS
<1>d. PICK name : name = hand[m].name
  OBVIOUS
<1> DEFINE undone == hand[m].kind = "add" /\ ~hand[m].had /\ ~hand[m].reached
           new == IF hand[m].kind = "map" /\ hand[m].pc = "revoke" THEN [hand[m] EXCEPT !.pc = "load"] ELSE Naming(how)!IdleHand
<1>1. /\ hand' = [hand EXCEPT ![m] = new]
      /\ row' = IF hand[m].kind = "drop" \/ undone THEN row \ {<<p, u>>} ELSE row
      /\ queue' = IF undone THEN {o \in queue : ~(o.key.project = p /\ o.key.account = name)} ELSE queue
  BY <1>a, <1>c, <1>d DEF Naming!FannedOut
<1>2. /\ hand[m].kind \in {"add", "drop"} => p \in how.projects
      /\ hand[m].kind = "add" => /\ hand[m].pc = "grant" /\ name = Naming(how)!Resolved(u) /\ <<p, u>> \in row
                                 /\ name \in Naming(how)!Account /\ name # None
      /\ hand[m].kind = "drop" => hand[m].pc \in {"revoke", "unrow"}
      /\ hand[m].pc = "grant" => hand[m].kind \in {"map", "add"}
      /\ hand[m].pc = "revoke" => hand[m].kind \in {"map", "unmap", "drop"}
      /\ hand[m].kind \in {"map", "add", "drop", "unmap"}
  BY <1>0, <1>a, <1>c, <1>d, IdFacts DEF Serves, Naming!Hand
<1>4. \A v : Naming(how)!Resolved(v)' = Naming(how)!Resolved(v)
  BY <1>0 DEF Naming!Resolved
<1>7. /\ new \in Naming(how)!Hand /\ (new.pc = "idle" => new = Naming(how)!IdleHand)
      /\ hand[m].kind = "map" /\ hand[m].pc = "revoke" =>
           /\ new.pc = "load" /\ new.kind = "map" /\ new.user = u /\ new.todo = {}
           /\ new.name = name /\ new.reached = hand[m].reached /\ new.project = p
      /\ ~(hand[m].kind = "map" /\ hand[m].pc = "revoke") => new = Naming(how)!IdleHand
  BY <1>0, <1>a, <1>c, <1>d DEF Naming!Hand, Naming!IdleHand
<1> HIDE DEF new
<1>8. /\ hand' \in [how.admins -> Naming(how)!Hand] /\ hand'[m] = new
      /\ \A n \in how.admins \ {m} : hand[n] = Naming(how)!IdleHand /\ hand'[n] = Naming(how)!IdleHand
      /\ Alone(how)' /\ pass.at = None
  BY <1>0, <1>1, <1>7, OthersIdle, OneBusy
<1>9. Naming(how)!TypeOK'
  <2>1. row' \subseteq row /\ queue' \subseteq queue
    BY <1>1
  <2> QED
    BY <1>0, <1>8, <2>1 DEF Naming!TypeOK, Naming!Account, Naming!Op, Naming!Hand, Naming!Pass
\* What a rolled back addition queued was its own.
<1>10. \A o \in queue : o \in queue' \/ (undone /\ o.kind = "MEMBER_ADD" /\ o.key.user = u /\ o.key.project = p)
  <2>1. undone => \A o \in queue : o.key.account = name => o.kind = "MEMBER_ADD" /\ o.key.user = u
    BY <1>0, <1>2, <1>a, <1>d DEF Clear, Target
  <2> QED
    BY <1>1, <2>1
<1>11. Rows(how)'
  <2>1. queue' \subseteq queue
    BY <1>1
  <2>2. \A o \in queue : o.kind = "MEMBER_REMOVE" => o \in queue'
    BY <1>10
  <2> QED
    BY <1>0, <1>4, <2>1, <2>2 DEF Rows
<1>12. Distinct(how)' /\ Directory(how)'
  BY <1>0, <1>1 DEF Distinct, Directory
<1>13. Serves(how, m)' /\ Clear(how, m)'
  <2>1. CASE hand[m].kind = "map" /\ hand[m].pc = "revoke"
    <3>1. row' = row /\ queue' = queue
      BY <1>1, <2>1
    <3>2. Naming(how)!Held(u)' = Naming(how)!Held(u)
      BY <3>1 DEF Naming!Held
    <3>3. mapping[u] # None /\ Naming(how)!Held(u) # {}
      BY <1>0, <1>a, <2>1 DEF Serves
    <3>4. Serves(how, m)'
      BY <1>0, <1>7, <1>8, <2>1, <3>2, <3>3, <1>d, <1>2, IdFacts DEF Serves, Busy, Naming!Hand
    <3>5. \A o \in queue : o.key.account = mapping[u] => o.kind = "MEMBER_ADD" /\ o.key.user = u
      BY <1>0, <1>a, <2>1 DEF Clear, Target
    <3> QED
      BY <1>0, <1>7, <1>8, <2>1, <3>1, <3>4, <3>5 DEF Clear, Busy, Target
  <2>2. CASE ~(hand[m].kind = "map" /\ hand[m].pc = "revoke")
    BY <1>7, <1>8, <2>2 DEF Serves, Clear, Busy, Naming!IdleHand
  <2> QED
    BY <2>1, <2>2
<1>15. \A n \in how.admins : Serves(how, n)' /\ Clear(how, n)'
  BY <1>8, <1>13 DEF Serves, Clear, Busy, Naming!IdleHand
<1>16. /\ \A q, v : Leaving(how, q, v) => hand[m].kind = "drop" /\ p = q /\ u = v
       /\ \A q, v : ~Leaving(how, q, v)'
       /\ \A h, q, c : ~Revoking(how, h, q, c) /\ ~Revoking(how, h, q, c)'
  BY <1>0, <1>7, <1>8, <1>a, <1>c DEF Leaving, Revoking, Naming!IdleHand
<1>b. /\ \A q, v : <<q, v>> \in row' =>
                     <<q, v>> \in row /\ ~(hand[m].kind = "drop" /\ <<q, v>> = <<p, u>>)
      /\ \A q, v : <<q, v>> \in row =>
                     <<q, v>> \in row' \/ ((hand[m].kind = "drop" \/ undone) /\ <<q, v>> = <<p, u>>)
  BY <1>1
<1>17. Unowed(how)'
  <2>1. queue' \subseteq queue
    BY <1>1
  <2> QED
    BY <1>0, <1>4, <1>16, <1>b, <2>1 DEF Unowed
<1>18. Granted(how)'
  <2> SUFFICES ASSUME NEW h \in how.harbors, NEW q \in how.projects, NEW c \in Naming(how)!Account, <<h, q, c>> \in grant, ~Somebodys(how, q, c)'
               PROVE  RemovalOwed(how, h, q, c)'
    BY <1>0 DEF Granted
  <2>1. Somebodys(how, q, c) \/ RemovalOwed(how, h, q, c)
    BY <1>0, <1>16 DEF Granted
  <2>2. RemovalOwed(how, h, q, c) => RemovalOwed(how, h, q, c)'
    BY <1>10 DEF RemovalOwed
  <2>3. CASE Somebodys(how, q, c)
    <3>1. /\ (hand[m].kind = "drop" \/ undone) /\ q = p /\ Naming(how)!Resolved(u) # None /\ how.fold[Naming(how)!Resolved(u)] = c
      BY <1>4, <1>b, <2>3 DEF Somebodys
    <3>2. CASE undone
      BY <1>0, <1>2, <1>a, <1>c, <1>d, <3>1, <3>2 DEF Called
    <3>3. CASE hand[m].kind = "drop"
      <4>1. hand[m].pc = "revoke" /\ name = Naming(how)!Resolved(u)
        BY <1>0, <1>2, <1>a, <1>d, <3>1, <3>3 DEF Serves
      <4>2. RemovalOwed(how, h, q, c)
        BY <1>0, <1>a, <1>c, <1>d, <3>1, <3>3, <4>1 DEF Called
      <4> QED
        BY <2>2, <4>2
    <3> QED
      BY <3>1, <3>2, <3>3
  <2> QED
    BY <2>1, <2>2, <2>3
<1>19. Called(how)'
  BY <1>0, <1>7, <1>8 DEF Called, Naming!IdleHand
<1>20. LetIn(how)'
  <2> SUFFICES ASSUME NEW q \in how.projects, NEW v \in how.users, NEW h \in how.harbors, <<q, v>> \in row'
               PROVE  IsLetIn(how, q, v, h)' \/ Joining(how, q, v, h)'
    BY DEF LetIn
  <2>1. IsLetIn(how, q, v, h) \/ Joining(how, q, v, h)
    BY <1>0, <1>16, <1>b DEF LetIn
  <2>2. CASE Joining(how, q, v, h)
    <3>1. u = v /\ hand[m].kind = "map" /\ hand[m].pc = "revoke"
      BY <1>0, <1>8, <1>a, <2>2 DEF Joining, Naming!IdleHand
    <3> QED
      BY <1>7, <1>8, <3>1 DEF Joining
  <2>3. CASE \/ <<q, v>> \in withdrawn \/ Naming(how)!Resolved(v) = None
             \/ <<h, q, how.fold[Naming(how)!Resolved(v)]>> \in grant
    BY <1>0, <1>4, <2>3 DEF IsLetIn
  <2>4. ASSUME NEW o \in queue, o.registry = h, o.kind = "MEMBER_ADD", o.key.project = q, o.key.user = v
        PROVE  IsLetIn(how, q, v, h)'
    <3>1. CASE o \in queue'
      BY <2>4, <3>1 DEF IsLetIn
    <3>2. CASE o \notin queue'
      BY <1>1, <1>10, <2>4, <3>2
    <3> QED
      BY <3>1, <3>2
  <2> QED
    BY <2>1, <2>2, <2>3, <2>4 DEF IsLetIn
<1>21. InPass(how)'
  BY <1>0, <1>8 DEF InPass
<1> QED
  BY <1>8, <1>9, <1>11, <1>12, <1>15, <1>17, <1>18, <1>19, <1>20, <1>21 DEF IdInv

\* The pass begins, or ends: it has no row in hand.
LEMMA PassTurns ==
  ASSUME NEW how, IdSorts(how), IdInv(how),
         (\E h \in how.harbors : Naming(how)!PassStart(h)) \/ Naming(how)!PassEnds
  PROVE  IdInv(how)'
<1>0. /\ Naming(how)!TypeOK /\ Alone(how) /\ Rows(how) /\ nextId \in Nat
      /\ UNCHANGED <<mode, mapping, row, withdrawn, grant, queue, nextId, hand, requests>>
  BY DEF IdInv, Naming!TypeOK, Naming!PassStart, Naming!PassEnds
<1>a. PICK ops \in SUBSET queue : pass' = Naming(how)!IdlePass \/ pass' = [Naming(how)!IdlePass EXCEPT !.pc = "next", !.ops = ops]
  BY DEF Naming!PassStart, Naming!PassEnds, Naming!Owed
<1>1. /\ pass'.pc \in {"next", "idle"} /\ pass'.ops \subseteq queue /\ pass'.at = None
      /\ pass' \in Naming(how)!Pass
      /\ pass'.pc = "idle" => pass' = Naming(how)!IdlePass
  <2>1. ops \subseteq Naming(how)!Op
    BY <1>0 DEF Naming!TypeOK
  <2>2. CASE pass' = Naming(how)!IdlePass
    BY <2>1, <2>2 DEF Naming!IdlePass, Naming!Pass
  <2>3. CASE pass' = [Naming(how)!IdlePass EXCEPT !.pc = "next", !.ops = ops]
    <3>1. ops \in SUBSET Naming(how)!Op
      BY <2>1
    <3>0. pass' = [pc |-> "next", ops |-> ops, at |-> None, name |-> None]
      BY <2>3 DEF Naming!IdlePass
    <3>2. pass' \in Naming(how)!Pass /\ pass'.pc = "next" /\ pass'.ops = ops /\ pass'.at = None
      BY <3>0, <3>1 DEF Naming!Pass
    <3> QED
      BY <3>2
  <2> QED
    BY <1>a, <2>2, <2>3
<1>2. Naming(how)!TypeOK'
  BY <1>0, <1>1 DEF Naming!TypeOK, Naming!Account, Naming!Op, Naming!Hand, Naming!Pass
<1>3. Alone(how)'
  BY <1>0, <1>1 DEF Alone, Busy
<1>4. /\ \A v : Naming(how)!Resolved(v)' = Naming(how)!Resolved(v)
      /\ \A v : Naming(how)!Held(v)' = Naming(how)!Held(v)
  BY <1>0 DEF Naming!Resolved, Naming!Held
<1>5. Rows(how)'
  BY <1>0, <1>1, <1>4 DEF Rows
<1>6. /\ Distinct(how)' /\ Directory(how)' /\ Called(how)' /\ Granted(how)' /\ Unowed(how)'
      /\ LetIn(how)'
  BY <1>0, <1>4
     DEF IdInv, Distinct, Directory, Called, Granted, Unowed, LetIn, Somebodys, RemovalOwed,
         Revoking,
     Leaving, Joining, IsLetIn
<1>7. \A n \in how.admins : Serves(how, n)' /\ Clear(how, n)'
  BY <1>0, <1>4 DEF IdInv, Serves, Clear, Busy, Target, Naming!Taken
<1>8. InPass(how)'
  BY <1>1 DEF InPass
<1> QED
  BY <1>2, <1>3, <1>5, <1>6, <1>7, <1>8 DEF IdInv

\* The pass takes the oldest row.
LEMMA PassTakeKeeps ==
  ASSUME NEW how, IdSorts(how), IdInv(how), NEW op \in pass.ops, Naming(how)!PassTake(op)
  PROVE  IdInv(how)'
<1>0. /\ Naming(how)!TypeOK /\ Alone(how) /\ Rows(how) /\ Naming(how)!Free
      /\ op \in Naming(how)!Op /\ op.key.user \in how.users
      /\ op.key.account \in Naming(how)!Account
      /\ op.kind \in {"MEMBER_ADD", "MEMBER_REMOVE"} /\ None \notin Naming(how)!Op
      /\ None \notin Naming(how)!Account /\ pass \in Naming(how)!Pass
      /\ UNCHANGED <<mode, mapping, row, withdrawn, grant, queue, nextId, hand, requests>>
  BY IdFacts DEF IdInv, Naming!PassTake, IdSorts
<1> DEFINE now == IF <<op.key.project, op.key.user>> \in row THEN Naming(how)!Resolved(op.key.user) ELSE None
<1>a. PICK name \in Naming(how)!Account \union {None} : name = (IF op.kind = "MEMBER_REMOVE" THEN op.key.account ELSE now)
  BY <1>0, IdFacts
<1>1. /\ pass' = [pass EXCEPT !.pc = IF name = None THEN "delete" ELSE "call", !.at = op, !.name = name]
      /\ pass.pc = "next"
  BY <1>0, <1>a DEF Naming!PassTake
<1>2. /\ pass' \in Naming(how)!Pass /\ pass'.pc = (IF name = None THEN "delete" ELSE "call") /\ pass'.at = op /\ pass'.ops = pass.ops
      /\ pass'.name = name
  BY <1>0, <1>1 DEF Naming!Pass
<1>3. Naming(how)!TypeOK'
  BY <1>0, <1>2 DEF Naming!TypeOK, Naming!Account, Naming!Op, Naming!Hand, Naming!Pass
<1>4. Alone(how)'
  BY <1>0, <1>2 DEF Alone, Busy, Naming!Free
<1>5. /\ \A v : Naming(how)!Resolved(v)' = Naming(how)!Resolved(v)
      /\ \A v : Naming(how)!Held(v)' = Naming(how)!Held(v)
  BY <1>0 DEF Naming!Resolved, Naming!Held
<1>6. Rows(how)'
  BY <1>0, <1>2, <1>5 DEF Rows
<1>7. /\ Distinct(how)' /\ Directory(how)' /\ Called(how)' /\ Granted(how)' /\ Unowed(how)'
      /\ LetIn(how)'
  BY <1>0, <1>5
     DEF IdInv, Distinct, Directory, Called, Granted, Unowed, LetIn, Somebodys, RemovalOwed,
         Revoking,
     Leaving, Joining, IsLetIn
<1>8. \A n \in how.admins : Serves(how, n)' /\ Clear(how, n)'
  BY <1>0, <1>5 DEF IdInv, Serves, Clear, Busy, Target, Naming!Taken
<1>9. InPass(how)'
  BY <1>0, <1>2, <1>5, <1>a DEF InPass
<1> QED
  BY <1>3, <1>4, <1>6, <1>7, <1>8, <1>9 DEF IdInv

\* The Harbor answers the pass: an account that is removed is no member's, and one that is
\* granted is a member's now.
LEMMA CallMadeKeeps ==
  ASSUME NEW how, IdSorts(how), IdInv(how), Naming(how)!PassCall
  PROVE  IdInv(how)'
<1>0. /\ Naming(how)!TypeOK /\ Alone(how) /\ Rows(how) /\ InPass(how) /\ Unowed(how)
      /\ Granted(how) /\ LetIn(how) /\ pass \in Naming(how)!Pass /\ pass.pc = "call"
      /\ pass.at # None /\ pass.at \in pass.ops
      /\ UNCHANGED <<mode, mapping, row, withdrawn, queue, nextId, hand, requests>>
      /\ pass' = [pass EXCEPT !.pc = "delete"]
  BY DEF IdInv, Naming!TypeOK, Naming!PassCall, Alone, Rows
<1>a. PICK o \in Naming(how)!Op, u \in how.users, p \in how.projects, h \in how.harbors, name \in Naming(how)!Account :
        /\ o = pass.at /\ o \in pass.ops /\ u = o.key.user /\ p = o.key.project /\ h = o.registry
        /\ name = pass.name
        /\ o.kind \in {"MEMBER_ADD", "MEMBER_REMOVE"}
        /\ o.kind = "MEMBER_REMOVE" => name = o.key.account
        /\ o.kind = "MEMBER_ADD" =>
             <<p, u>> \in row /\ name = Naming(how)!Resolved(u) /\ name # None
  BY <1>0, IdFacts DEF InPass, Naming!Pass
<1>b. PICK b \in Naming(how)!Account : b = how.fold[name]
  BY DEF IdSorts
<1>1. /\ o.kind = "MEMBER_ADD" => grant' = grant \union {<<h, p, b>>}
      /\ o.kind = "MEMBER_REMOVE" => grant' = grant \ {<<h, p, b>>}
  BY <1>a, <1>b DEF Naming!PassCall
<1>2. /\ pass' \in Naming(how)!Pass /\ pass'.pc = "delete" /\ pass'.at = o /\ pass'.ops = pass.ops
      /\ pass'.name = name
  BY <1>0, <1>a DEF Naming!Pass
<1>3. Naming(how)!TypeOK'
  <2>1. <<h, p, b>> \in how.harbors \X how.projects \X Naming(how)!Account
    OBVIOUS
  <2>2. grant' \subseteq how.harbors \X how.projects \X Naming(how)!Account
    BY <1>0, <1>1, <1>a, <2>1 DEF Naming!TypeOK
  <2> QED
    BY <1>0, <1>2, <2>2 DEF Naming!TypeOK, Naming!Account, Naming!Op, Naming!Hand, Naming!Pass
<1>4. Alone(how)'
  BY <1>0, <1>2, <1>a DEF Alone, Busy
<1>5. /\ \A v : Naming(how)!Resolved(v)' = Naming(how)!Resolved(v)
      /\ \A v : Naming(how)!Held(v)' = Naming(how)!Held(v)
  BY <1>0 DEF Naming!Resolved, Naming!Held
<1>6. Rows(how)' /\ Distinct(how)' /\ Directory(how)' /\ Unowed(how)'
  BY <1>0, <1>2, <1>5, <1>a DEF IdInv, Rows, Distinct, Directory, Unowed, Leaving
<1>8. \A n \in how.admins : Serves(how, n)' /\ Clear(how, n)'
  BY <1>0, <1>5 DEF IdInv, Serves, Clear, Busy, Target, Naming!Taken
<1>7. /\ \A n \in how.admins : hand[n].pc = "idle"
      /\ \A n \in how.admins : hand[n].pc \notin {"revoke", "load", "grant"}
  BY <1>0 DEF Alone, Busy
<1>c. /\ \A q \in how.projects, v \in how.users, g \in how.harbors : <<q, v>> \in row =>
                                                                       IsLetIn(how, q, v, g)
      /\ \A g \in how.harbors, q \in how.projects, c \in Naming(how)!Account :
           <<g, q, c>> \in grant => Somebodys(how, q, c) \/ RemovalOwed(how, g, q, c)
      /\ \A r \in queue, v \in how.users :
           <<r.key.project, v>> \in row /\ r.kind = "MEMBER_REMOVE" /\ Naming(how)!Resolved(v) = r.key.account
             => <<r.key.project, v>> \in withdrawn
  BY <1>7, Quiet
<1>9. Called(how)'
  BY <1>0, <1>7 DEF Called
<1>10. Granted(how)'
  <2> SUFFICES ASSUME NEW g \in how.harbors, NEW q \in how.projects, NEW c \in Naming(how)!Account, <<g, q, c>> \in grant'
               PROVE  Somebodys(how, q, c)' \/ RemovalOwed(how, g, q, c)'
    BY DEF Granted
  <2>1. CASE <<g, q, c>> \in grant
    <3>1. Somebodys(how, q, c) \/ RemovalOwed(how, g, q, c)
      BY <1>c, <2>1
    <3> QED
      BY <1>0, <1>5, <3>1 DEF Somebodys, RemovalOwed
  <2>2. CASE <<g, q, c>> \notin grant
    <3>1. o.kind = "MEMBER_ADD" /\ q = p /\ c = b
      BY <1>1, <1>a, <2>2
    <3> QED
      BY <1>0, <1>5, <1>a, <1>b, <3>1, IdFacts DEF Somebodys
  <2> QED
    BY <2>1, <2>2
<1>11. LetIn(how)'
  <2> SUFFICES ASSUME NEW q \in how.projects, NEW v \in how.users, NEW g \in how.harbors, <<q, v>> \in row
               PROVE  IsLetIn(how, q, v, g)'
    BY <1>0 DEF LetIn
  <2>1. IsLetIn(how, q, v, g)
    BY <1>c
  <2>2. CASE o.kind = "MEMBER_ADD"
    BY <1>0, <1>1, <1>5, <2>1, <2>2 DEF IsLetIn
  <2>3. CASE o.kind = "MEMBER_REMOVE"
    <3>1. PICK r \in queue : /\ r.registry = h /\ r.kind = "MEMBER_REMOVE" /\ r.key.project = p /\ r.key.account = name
      BY <1>0, <1>a, <2>3 DEF Rows
    <3>2. q = p /\ Naming(how)!Resolved(v) = name => <<q, v>> \in withdrawn
      BY <1>c, <3>1
    <3>3. Naming(how)!Resolved(v) # None /\ <<g, q, how.fold[Naming(how)!Resolved(v)]>> = <<h, p, b>> =>
            q = p /\ Naming(how)!Resolved(v) = name
      BY <1>0, <1>b, IdFacts
    <3> QED
      BY <1>0, <1>1, <1>5, <2>1, <2>3, <3>2, <3>3 DEF IsLetIn
  <2> QED
    BY <1>a, <2>2, <2>3
<1>12. InPass(how)'
  BY <1>0, <1>1, <1>2, <1>5, <1>a, <1>b DEF InPass
<1> QED
  BY <1>3, <1>4, <1>6, <1>8, <1>9, <1>10, <1>11, <1>12 DEF IdInv

\* The row is forgotten: the removal was carried out, or the person was let in, or has no
\* name to be let in by.
LEMMA ForgetKeeps ==
  ASSUME NEW how, IdSorts(how), IdInv(how), Naming(how)!PassDelete
  PROVE  IdInv(how)'
<1>0. /\ Naming(how)!TypeOK /\ Alone(how) /\ Rows(how) /\ InPass(how) /\ Unowed(how)
      /\ Granted(how) /\ LetIn(how) /\ pass \in Naming(how)!Pass /\ pass.pc = "delete"
      /\ pass.at # None /\ pass.at \in pass.ops
      /\ UNCHANGED <<mode, mapping, row, withdrawn, grant, nextId, hand, requests>>
  BY DEF IdInv, Naming!TypeOK, Naming!PassDelete, Alone, Rows
<1>a. PICK o \in Naming(how)!Op, u \in how.users, p \in how.projects, h \in how.harbors :
        /\ o = pass.at /\ o \in pass.ops /\ u = o.key.user /\ p = o.key.project /\ h = o.registry
        /\ o.kind \in {"MEMBER_ADD", "MEMBER_REMOVE"} /\ o.key.account \in Naming(how)!Account
        /\ o.kind = "MEMBER_REMOVE" => <<h, p, how.fold[o.key.account]>> \notin grant
        /\ o.kind = "MEMBER_ADD" /\ <<p, u>> \in row =>
             Naming(how)!Resolved(u) = None \/ <<h, p, how.fold[Naming(how)!Resolved(u)]>> \in grant
  BY <1>0, IdFacts DEF InPass, Naming!Pass
<1>1. /\ queue' = queue \ {o}
      /\ pass' = Naming(how)!IdlePass \/ pass' = [Naming(how)!IdlePass EXCEPT !.pc = "next", !.ops = pass.ops \ {o}]
  <2>1. {r \in queue : r.id = pass.at.id} = queue \intersect {o}
    BY <1>0, <1>a DEF Rows
  <2> QED
    BY <1>a, <2>1 DEF Naming!PassDelete
<1>2. /\ pass' \in Naming(how)!Pass /\ pass'.pc \in {"idle", "next"} /\ pass'.at = None
      /\ pass'.ops \subseteq pass.ops \ {o}
      /\ pass'.pc = "idle" => pass' = Naming(how)!IdlePass
  <2>1. pass.ops \ {o} \subseteq Naming(how)!Op
    BY <1>0 DEF Naming!Pass
  <2>2. CASE pass' = Naming(how)!IdlePass
    BY <2>1, <2>2 DEF Naming!IdlePass, Naming!Pass
  <2>3. CASE pass' = [Naming(how)!IdlePass EXCEPT !.pc = "next", !.ops = pass.ops \ {o}]
    <3>1. pass' = [pc |-> "next", ops |-> pass.ops \ {o}, at |-> None, name |-> None]
      BY <2>3 DEF Naming!IdlePass
    <3> QED
      BY <2>1, <3>1 DEF Naming!Pass
  <2> QED
    BY <1>1, <2>2, <2>3
<1>3. Naming(how)!TypeOK'
  BY <1>0, <1>1, <1>2 DEF Naming!TypeOK, Naming!Account, Naming!Op, Naming!Hand, Naming!Pass
<1>4. Alone(how)'
  BY <1>0, <1>2 DEF Alone, Busy
<1>5. /\ \A v : Naming(how)!Resolved(v)' = Naming(how)!Resolved(v)
      /\ \A v : Naming(how)!Held(v)' = Naming(how)!Held(v)
  BY <1>0 DEF Naming!Resolved, Naming!Held
<1>6. Rows(how)'
  <2>1. \A x \in pass'.ops : x.kind = "MEMBER_REMOVE" =>
           \E r \in queue' : /\ r.registry = x.registry /\ r.kind = "MEMBER_REMOVE"
                             /\ r.key.project = x.key.project /\ r.key.account = x.key.account
    <3> SUFFICES ASSUME NEW x \in pass'.ops, x.kind = "MEMBER_REMOVE"
                 PROVE  \E r \in queue' : /\ r.registry = x.registry /\ r.kind = "MEMBER_REMOVE"
                                          /\ r.key.project = x.key.project
                                          /\ r.key.account = x.key.account
      OBVIOUS
    <3>1. PICK r \in queue : /\ r.registry = x.registry /\ r.kind = "MEMBER_REMOVE"
                             /\ r.key.project = x.key.project /\ r.key.account = x.key.account
      BY <1>0, <1>2 DEF Rows
    <3>2. r # o
      BY <1>0, <1>2, <1>a, <3>1 DEF Rows
    <3> QED
      BY <1>1, <3>1, <3>2
  <2> QED
    BY <1>0, <1>1, <1>2, <1>5, <2>1 DEF Rows
<1>7. Distinct(how)' /\ Directory(how)' /\ Unowed(how)'
  BY <1>0, <1>1, <1>5 DEF IdInv, Distinct, Directory, Unowed, Leaving
<1>8. /\ \A n \in how.admins : hand[n].pc = "idle" /\ hand[n] = Naming(how)!IdleHand
      /\ \A n \in how.admins : hand[n].pc \notin {"revoke", "load", "grant"}
  BY <1>0 DEF Alone, Busy
<1>9. \A n \in how.admins : Serves(how, n)' /\ Clear(how, n)'
  BY <1>0, <1>8 DEF Serves, Clear, Busy, Naming!IdleHand
<1>c. /\ \A q \in how.projects, v \in how.users, g \in how.harbors : <<q, v>> \in row =>
                                                                       IsLetIn(how, q, v, g)
      /\ \A g \in how.harbors, q \in how.projects, c \in Naming(how)!Account :
           <<g, q, c>> \in grant => Somebodys(how, q, c) \/ RemovalOwed(how, g, q, c)
  BY <1>8, Quiet
<1>10. Called(how)'
  BY <1>0, <1>8 DEF Called
<1>11. Granted(how)'
  <2> SUFFICES ASSUME NEW g \in how.harbors, NEW q \in how.projects, NEW c \in Naming(how)!Account, <<g, q, c>> \in grant
               PROVE  Somebodys(how, q, c)' \/ RemovalOwed(how, g, q, c)'
    BY <1>0 DEF Granted
  <2>1. Somebodys(how, q, c) \/ RemovalOwed(how, g, q, c)
    BY <1>c
  <2>2. Somebodys(how, q, c) => Somebodys(how, q, c)'
    BY <1>0, <1>5 DEF Somebodys
  <2>3. RemovalOwed(how, g, q, c) => RemovalOwed(how, g, q, c)'
    BY <1>1, <1>a DEF RemovalOwed
  <2> QED
    BY <2>1, <2>2, <2>3
<1>12. LetIn(how)'
  <2> SUFFICES ASSUME NEW q \in how.projects, NEW v \in how.users, NEW g \in how.harbors, <<q, v>> \in row
               PROVE  IsLetIn(how, q, v, g)'
    BY <1>0 DEF LetIn
  <2>1. IsLetIn(how, q, v, g)
    BY <1>c
  <2> QED
    BY <1>0, <1>1, <1>5, <1>a, <2>1 DEF IsLetIn
<1>13. InPass(how)'
  BY <1>2 DEF InPass
<1> QED
  BY <1>3, <1>4, <1>6, <1>7, <1>9, <1>10, <1>11, <1>12, <1>13 DEF IdInv

\* At first every Harbor holds the grants of the members.
LEMMA IdStarts == ASSUME NEW how, IdSorts(how), Naming(how)!Init PROVE IdInv(how)
<1>0. /\ mode \in Naming(how)!Mode /\ mapping \in [how.users -> how.mappable \union {None}]
      /\ \A u, v \in how.users : u # v /\ Naming(how)!Resolved(u) # None /\ Naming(how)!Resolved(v) # None
                               => how.fold[Naming(how)!Resolved(u)] # how.fold[Naming(how)!Resolved(v)]
      /\ row \subseteq how.projects \X how.users /\ \A x \in row : Naming(how)!Resolved(x[2]) # None
      /\ grant = {<<h, x[1], how.fold[Naming(how)!Resolved(x[2])]>> : h \in how.harbors, x \in row}
      /\ withdrawn = {} /\ queue = {} /\ nextId = 0 /\ requests = 0
      /\ \A n \in how.admins : hand[n] = Naming(how)!IdleHand
      /\ hand = [n \in how.admins |-> Naming(how)!IdleHand] /\ pass = Naming(how)!IdlePass
  BY DEF Naming!Init
<1>1. /\ how.mappable \subseteq Naming(how)!Account /\ \A u \in how.users : Naming(how)!Resolved(u) \in Naming(how)!Account \union {None}
  BY <1>0 DEF Naming!Account, Naming!Resolved
<1>2. Naming(how)!IdleHand \in Naming(how)!Hand /\ Naming(how)!IdlePass \in Naming(how)!Pass
  BY DEF Naming!IdleHand, Naming!Hand, Naming!IdlePass, Naming!Pass
<1>3. /\ grant \subseteq how.harbors \X how.projects \X Naming(how)!Account
      /\ \A h \in how.harbors, p \in how.projects, a \in Naming(how)!Account : <<h, p, a>> \in grant => Somebodys(how, p, a)
      /\ \A h \in how.harbors, p \in how.projects, u \in how.users : <<p, u>> \in row => <<h, p, how.fold[Naming(how)!Resolved(u)]>> \in grant
  <2>1. \A g \in grant : \E h \in how.harbors, x \in row : g = <<h, x[1], how.fold[Naming(how)!Resolved(x[2])]>>
    BY <1>0
  <2>2. \A x \in row : x[1] \in how.projects /\ x[2] \in how.users /\ x = <<x[1], x[2]>> /\ how.fold[Naming(how)!Resolved(x[2])] \in Naming(how)!Account
    BY <1>0, <1>1 DEF IdSorts
  <2>3. \A h \in how.harbors, p \in how.projects, a \in Naming(how)!Account : <<h, p, a>> \in grant =>
                                                                                Somebodys(how, p, a)
    <3> SUFFICES ASSUME NEW h \in how.harbors, NEW p \in how.projects, NEW a \in Naming(how)!Account, <<h, p, a>> \in grant
                 PROVE  Somebodys(how, p, a)
      OBVIOUS
    <3>1. PICK x \in row : p = x[1] /\ a = how.fold[Naming(how)!Resolved(x[2])]
      BY <2>1
    <3> QED
      BY <1>0, <2>2, <3>1 DEF Somebodys
  <2>4. \A h \in how.harbors, p \in how.projects, u \in how.users : <<p, u>> \in row => <<h, p, how.fold[Naming(how)!Resolved(u)]>> \in grant
    BY <1>0
  <2> QED
    BY <2>1, <2>2, <2>3, <2>4
<1>4. Naming(how)!TypeOK
  BY <1>0, <1>2, <1>3 DEF Naming!TypeOK, IdSorts
<1>5. Alone(how) /\ Rows(how)
  BY <1>0 DEF Alone, Busy, Rows, Naming!IdleHand, Naming!IdlePass
<1>6. Distinct(how)
  BY <1>0 DEF Distinct, Naming!Resolved
<1>7. Directory(how)
  BY <1>0 DEF Directory, Naming!Resolved
<1>8. \A n \in how.admins : Serves(how, n) /\ Clear(how, n)
  BY <1>0, IdleServes
<1>9. Unowed(how) /\ Granted(how) /\ LetIn(how)
  BY <1>0, <1>3 DEF Unowed, Granted, LetIn, IsLetIn
<1>10. Called(how) /\ InPass(how)
  BY <1>0 DEF Called, InPass, Naming!IdleHand, Naming!IdlePass
<1> QED
  BY <1>4, <1>5, <1>6, <1>7, <1>8, <1>9, <1>10 DEF IdInv

\* Any step keeps the invariant.
LEMMA IdNext ==
  ASSUME NEW how, IdSorts(how), IdInv(how), [Naming(how)!Next]_(Naming(how)!vars)
  PROVE  IdInv(how)'
<1>1. CASE UNCHANGED Naming(how)!vars
  <2>1. UNCHANGED <<mode, mapping, row, withdrawn, grant, queue, nextId, hand, pass, requests>>
    BY <1>1 DEF Naming!vars
  <2>2. /\ \A v : Naming(how)!Resolved(v)' = Naming(how)!Resolved(v)
        /\ \A v : Naming(how)!Held(v)' = Naming(how)!Held(v)
    BY <2>1 DEF Naming!Resolved, Naming!Held
  <2>3. Naming(how)!TypeOK'
    BY <2>1 DEF IdInv, Naming!TypeOK, Naming!Account, Naming!Op, Naming!Hand, Naming!Pass
  <2>4. Alone(how)' /\ InPass(how)'
    BY <2>1, <2>2 DEF IdInv, Alone, InPass, Busy, Naming!IdleHand, Naming!IdlePass
  <2>7. Rows(how)'
    BY <2>1, <2>2 DEF IdInv, Rows
  <2>5. /\ Distinct(how)' /\ Directory(how)' /\ Called(how)' /\ Granted(how)' /\ Unowed(how)'
        /\ LetIn(how)'
    BY <2>1, <2>2
       DEF IdInv, Distinct, Directory, Called, Granted, Unowed, LetIn, Somebodys, RemovalOwed,
           Revoking,
       Leaving, Joining, IsLetIn
  <2>6. \A n \in how.admins : Serves(how, n)' /\ Clear(how, n)'
    BY <2>1, <2>2 DEF IdInv, Serves, Clear, Busy, Target, Naming!Taken
  <2> QED
    BY <2>3, <2>4, <2>5, <2>6, <2>7 DEF IdInv
<1>2. ASSUME NEW m \in how.admins, NEW u \in how.users,
             \/ \E a \in how.mappable : Naming(how)!Map(m, u, a)
             \/ Naming(how)!Unmap(m, u)
             \/ \E p \in how.projects : Naming(how)!Drop(m, p, u) \/ \E a \in how.mappable \union {None} : Naming(how)!Add(m, p, u, a)
      PROVE  IdInv(how)'
  BY <1>2, MapKeeps, UnmapKeeps, DropKeeps, AddKeeps
<1>3. ASSUME NEW m \in how.admins,
             \/ Naming(how)!MapWrite(m) \/ Naming(how)!UnmapWrite(m) \/ Naming(how)!AddMaps(m) \/ Naming(how)!AddRow(m) \/ Naming(how)!Load(m) \/ Naming(how)!FannedOut(m)
             \/ \E p \in how.projects, h \in how.harbors : Naming(how)!CallWorks(m, p, h) \/ Naming(how)!CallFails(m, p, h)
      PROVE  IdInv(how)'
  BY <1>3, MapWriteKeeps, UnmapWriteKeeps, AddMapsKeeps, AddRowKeeps, LoadKeeps, FannedOutKeeps,
     WorksKeeps, FailsKeeps
<1>4. CASE Naming(how)!SwitchMode
  BY <1>4, SwitchKeeps
<1>5. CASE (\E h \in how.harbors : Naming(how)!PassStart(h)) \/ Naming(how)!PassEnds
  BY <1>5, PassTurns
<1>6. CASE \E op \in pass.ops : Naming(how)!PassTake(op)
  BY <1>6, PassTakeKeeps
<1>7. CASE Naming(how)!PassCall \/ Naming(how)!PassDelete
  BY <1>7, CallMadeKeeps, ForgetKeeps
<1> QED
  BY <1>1, <1>2, <1>3, <1>4, <1>5, <1>6, <1>7 DEF Naming!Next

\* Whenever no request is served and no row is being replayed, the accounts are true.
LEMMA AccountsShown ==
  ASSUME NEW how, IdSorts(how), IdInv(how)
  PROVE  Naming(how)!GrantIsSomebodys /\ Naming(how)!MemberIsLetIn
<1> SUFFICES ASSUME Naming(how)!Free PROVE Naming(how)!GrantIsSomebodys /\ Naming(how)!MemberIsLetIn
  BY DEF Naming!GrantIsSomebodys, Naming!MemberIsLetIn
<1>1. /\ \A n \in how.admins : hand[n].pc \notin {"revoke", "load", "grant"}
      /\ Naming(how)!TypeOK
  BY DEF Naming!Free, IdInv
<1>2. /\ \A q \in how.projects, v \in how.users, g \in how.harbors : <<q, v>> \in row =>
                                                                       IsLetIn(how, q, v, g)
      /\ \A g \in how.harbors, q \in how.projects, c \in Naming(how)!Account :
           <<g, q, c>> \in grant => Somebodys(how, q, c) \/ RemovalOwed(how, g, q, c)
  BY <1>1, Quiet
<1>3. Naming(how)!GrantIsSomebodys
  <2> SUFFICES ASSUME NEW g \in grant PROVE Somebodys(how, g[2], g[3]) \/ RemovalOwed(how, g[1], g[2], g[3])
    BY DEF Naming!GrantIsSomebodys, Somebodys, RemovalOwed
  <2>1. /\ g[1] \in how.harbors /\ g[2] \in how.projects /\ g[3] \in Naming(how)!Account
        /\ g = <<g[1], g[2], g[3]>>
    BY <1>1 DEF Naming!TypeOK
  <2> QED
    BY <1>2, <2>1
<1>4. Naming(how)!MemberIsLetIn
  <2> SUFFICES ASSUME NEW x \in row, NEW h \in how.harbors PROVE IsLetIn(how, x[1], x[2], h) /\ x = <<x[1], x[2]>>
    BY DEF Naming!MemberIsLetIn, IsLetIn
  <2>1. x[1] \in how.projects /\ x[2] \in how.users /\ x = <<x[1], x[2]>>
    BY <1>1 DEF Naming!TypeOK
  <2> QED
    BY <1>2, <2>1
<1> QED
  BY <1>3, <1>4

\* None is no account, no person, no project and no row.
NobodyIsNone(how) ==
  /\ None \notin Naming(how)!Account /\ None \notin how.users
  /\ None \notin how.projects /\ None \notin Naming(how)!Op

\* The accounts of the two instances, and how they are spelt.
LEMMA NamesAreSpelt ==
  ASSUME NobodyIsNone(Names)
  PROVE  IdSorts(Names)
<1>1. /\ Names.usernames["u"] = "u" /\ Names.usernames["v"] = "v" /\ Names.users = {"u", "v"}
      /\ Names.mappable = {"a", "b"} /\ Names.requests = 3
  BY DEF Names
<1>2. Naming(Names)!Account = {"a", "b", "u", "v"}
  BY <1>1 DEF Naming!Account
<1>3. Names.fold = [u |-> "u", v |-> "v", a |-> "a", b |-> "b"]
  BY DEF Names
<1>4. /\ DOMAIN Names.fold = {"u", "v", "a", "b"}
      /\ \A x \in {"u", "v", "a", "b"} : Names.fold[x] = x
      /\ Names.fold = [x \in DOMAIN Names.fold |-> Names.fold[x]]
  BY <1>3
<1>5. Names.fold \in [Naming(Names)!Account -> Naming(Names)!Account]
  BY <1>2, <1>4
<1> QED
  BY <1>1, <1>2, <1>4, <1>5 DEF IdSorts, NobodyIsNone

LEMMA MovesAreSpelt ==
  ASSUME NobodyIsNone(Moves)
  PROVE  IdSorts(Moves)
<1>1. /\ Moves.usernames["u"] = "u" /\ Moves.users = {"u"}
      /\ Moves.mappable = {"a", "b"} /\ Moves.requests = 2
  BY DEF Moves
<1>2. Naming(Moves)!Account = {"a", "b", "u"}
  BY <1>1 DEF Naming!Account
<1>3. Moves.fold = [u |-> "u", a |-> "a", b |-> "b"]
  BY DEF Moves
<1>4. /\ DOMAIN Moves.fold = {"u", "a", "b"}
      /\ \A x \in {"u", "a", "b"} : Moves.fold[x] = x
      /\ Moves.fold = [x \in DOMAIN Moves.fold |-> Moves.fold[x]]
  BY <1>3
<1>5. Moves.fold \in [Naming(Moves)!Account -> Naming(Moves)!Account]
  BY <1>2, <1>4
<1> QED
  BY <1>1, <1>2, <1>4, <1>5 DEF IdSorts, NobodyIsNone

-----------------------------------------------------------------------------
(* Harbors and projects that change clusters, and projects that are        *)
(* adopted: one change at a time, what a cluster has is on its members or  *)
(* owed, and nothing is anywhere else unknown.                             *)

\* What the constants have to be: no Harbor is a number, and None is neither a cluster nor a row.
CcSorts(how) ==
  /\ Harbor \intersect Nat = {}
  /\ None \notin Cluster /\ None \notin Harbor /\ None \notin Gather(how)!Op
  /\ Home \in Cluster
  /\ how.projects \in Nat \ {0} /\ how.requests \in Nat /\ how.crashes \in Nat

AtWork(how, r, at) == hand[r].pc \in at

\* A name is that of one project in its cluster.
OneName(how) == \A f, g \in Gather(how)!Gen : project[f] = project[g] /\ project[f] # None => f = g

\* One request at a time, and none while a row is being replayed.
OneChange(how) ==
  /\ \A q, r \in Gather(how)!Role : Gather(how)!Busy(q) /\ Gather(how)!Busy(r) => q = r
  /\ pass.pc # "idle" => \A r \in Gather(how)!Role : ~Gather(how)!Busy(r)

\* What a handler has in hand.
ComposeHand(how) ==
  LET w == hand["compose"] IN
  /\ w.pc \in {"idle", "member", "backlog", "owe", "leave", "unplace", "part"}
  /\ w.pc # "idle" => w.at \in Harbor
  /\ w.pc \in {"member", "backlog", "owe"} => w.to \in Cluster
  /\ w.pc = "member" => member[w.at] = None
  /\ w.pc \in {"backlog", "owe"} => member[w.at] = w.to
  /\ w.pc \in {"leave", "unplace", "part"} => member[w.at] # None
  /\ w.pc = "owe" => w.todo \subseteq Gather(how)!RowsOf(w.to) \X {0}
  /\ w.pc \in {"unplace", "part"} => \A op \in queue : op.registry # w.at
  /\ w.pc = "part" => \A g \in Gather(how)!Gen : placement[g][w.at] = 0

Spare(how, h, id) ==
  \/ ~(harbor[h].there /\ harbor[h].id = id) \/ harbor[h].told \/ Gather(how)!Owes(h, "PROJECT_DELETE", id)

MoveHand(how) ==
  LET w == hand["move"] IN
  /\ w.pc \in {"idle", "inspect", "remove", "clear", "row", "targets", "owe"}
  /\ w.pc # "idle" =>
       w.gen \in Gather(how)!Gen /\ w.from \in Cluster /\ w.to \in Cluster /\ w.from # w.to
  /\ w.pc \in {"inspect", "remove", "clear", "row"} =>
       project[w.gen] = w.from /\ Gather(how)!RowsOf(w.to) = {}
  /\ w.pc \in {"targets", "owe"} => project[w.gen] = w.to
  /\ w.pc = "inspect" => w.todo = {} /\ w.failed = {}
  /\ w.pc = "remove" =>
       w.todo \subseteq Gather(how)!Known(w.gen) /\ w.failed \subseteq Gather(how)!Known(w.gen)
  \* What was placed has been removed, reported, or queued, or will be.
  /\ w.pc = "remove" =>
       \A h \in Harbor : placement[w.gen][h] # 0 =>
         <<h, placement[w.gen][h]>> \in w.todo \union w.failed \/ Spare(how, h, placement[w.gen][h])
  /\ w.pc = "clear" => \A h \in Harbor : placement[w.gen][h] # 0 => Spare(how, h, placement[w.gen][h])
  /\ w.pc \in {"clear", "row", "targets"} =>
       \A op \in queue : ~(op.kind = "PROJECT_CREATE" /\ op.key = w.gen)
  /\ w.pc \in {"row", "targets", "owe"} => \A h \in Harbor : placement[w.gen][h] = 0
  /\ w.pc = "owe" => w.todo \subseteq Gather(how)!Members(w.to) \X {0}

AdoptHand(how) ==
  LET w == hand["adopt"] IN
  /\ w.pc \in {"idle", "list", "create"}
  /\ w.pc # "idle" => w.to \in Cluster /\ Gather(how)!RowsOf(None) # {}
  /\ w.pc = "list" => w.todo \subseteq Gather(how)!Members(w.to) \X {0}
  /\ w.pc \in {"list", "create"} =>
       \A s \in w.seen :
         /\ s[1] \in Harbor /\ s = <<s[1], harbor[s[1]].id>> /\ harbor[s[1]].there
         /\ member[s[1]] = w.to
         /\ \A op \in queue : op.registry = s[1] => op.kind # "PROJECT_DELETE"
  /\ w.pc = "create" => Gather(how)!RowsOf(w.to) = {}

PassHand(how) ==
  /\ pass.pc # "idle" =>
       pass.registry \in Harbor /\ pass.ops = Gather(how)!Owed(queue, pass.registry)
  /\ pass.pc \in {"create", "remove", "delete"} => Gather(how)!IsOldest(pass.at, pass.ops)
  /\ pass.pc = "create" => pass.at.kind = "PROJECT_CREATE"
  /\ pass.pc = "remove" => pass.at.kind = "PROJECT_DELETE"
  /\ pass.pc = "delete" =>
       IF pass.at.kind = "PROJECT_CREATE" THEN Gather(how)!Holds(pass.at.key, pass.registry)
       ELSE ~(harbor[pass.registry].there /\ harbor[pass.registry].id = pass.at.key)

\* Only members hold what the Gateway put there, and only what is there counts; an id
\* is never given twice.
Numbered(how) ==
  /\ \A h \in Harbor : harbor[h].ours => harbor[h].there /\ member[h] # None
  /\ \A h \in Harbor : harbor[h].there => harbor[h].id # 0
  /\ \A g \in Gather(how)!Gen, h \in Harbor : placement[g][h] <= harbor[h].id
  /\ \A op \in queue : op.kind = "PROJECT_DELETE" => op.key <= harbor[op.registry].id
  /\ \A op \in queue : op.id < nextId
  /\ \A op, other \in queue : op.registry = other.registry /\ op.id = other.id => op = other

\* What is owed to a Harbor, and what is placed there, is of a project of its cluster.
OfTheCluster(how) ==
  /\ \A op \in queue : member[op.registry] # None
  /\ \A op \in queue : op.kind = "PROJECT_CREATE" =>
       op.key \in Gather(how)!Gen /\ project[op.key] = member[op.registry]
  /\ \A g \in Gather(how)!Gen, h \in Harbor : placement[g][h] # 0 =>
                                                project[g] = member[h] /\ project[g] # None
  /\ \A h \in Harbor : h \in torn => member[h] # None

\* Project g is half way out of a cluster: some of its Harbors were called.
Loose(how, g) ==
  \/ hand["move"].pc = "remove" /\ hand["move"].gen = g
  \/ g \in torn /\ ~(AtWork(how, "move", {"clear", "row", "targets", "owe"}) /\ hand["move"].gen = g)

\* What is placed is not owed its deletion, and a creation owed with it comes later.
DeletedBefore(how) ==
  /\ \A op \in queue, g \in Gather(how)!Gen :
       /\ op.kind = "PROJECT_DELETE"
       /\ harbor[op.registry].there /\ harbor[op.registry].id = op.key
       /\ placement[g][op.registry] = op.key
       => Loose(how, g) \/ (hand["move"].pc = "clear" /\ hand["move"].gen = g)
  /\ \A op, other \in queue :
       /\ op.kind = "PROJECT_DELETE" /\ other.kind = "PROJECT_CREATE"
       /\ op.registry = other.registry
       /\ harbor[op.registry].there /\ harbor[op.registry].id = op.key
       => op.id < other.id \/ Loose(how, other.key)

\* Project g has lost its members, and the move has not come to the new ones.
Uprooted(how, g, h) ==
  \/ AtWork(how, "move", {"remove", "clear", "row", "targets"}) /\ hand["move"].gen = g
  \/ AtWork(how, "move", {"owe"}) /\ hand["move"].gen = g /\ <<h, 0>> \in hand["move"].todo
  \/ g \in torn /\ ~(AtWork(how, "move", {"owe"}) /\ hand["move"].gen = g)

\* Member h is on its way in, and not owed project g yet, or on its way out.
Passing(how, g, h) ==
  \/ AtWork(how, "compose", {"backlog", "unplace", "part"}) /\ hand["compose"].at = h
  \/ AtWork(how, "compose", {"owe"}) /\ hand["compose"].at = h /\ <<g, 0>> \in hand["compose"].todo

Between(how, g, h) == Uprooted(how, g, h) \/ Passing(how, g, h) \/ h \in torn

\* MemberHolds and PlacementIsTrue, while a request is served.
Concerns(how, g, h) ==
  /\ project[g] # None /\ member[h] = project[g]
  /\ \/ g \notin claimed \/ placement[g][h] # 0
     \/ AtWork(how, "move", {"owe"}) /\ hand["move"].gen = g
KeptOrOwed(how) ==
  \A g \in Gather(how)!Gen, h \in Harbor :
    Concerns(how, g, h) =>
      Gather(how)!Holds(g, h) \/ Gather(how)!Owes(h, "PROJECT_CREATE", g) \/ Between(how, g, h)

\* NothingStray, while a request is served.
Accounted(how) ==
  \A h \in Harbor :
    harbor[h].ours =>
      \/ \E g \in Gather(how)!Gen : placement[g][h] = harbor[h].id
      \/ Gather(how)!Owes(h, "PROJECT_DELETE", harbor[h].id)
      \/ harbor[h].told
      \/ h \in torn
      \/ AtWork(how, "compose", {"part"}) /\ hand["compose"].at = h
      \/ AtWork(how, "compose", {"unplace"}) /\ hand["compose"].at = h

\* What the types need of a handler and of the pass, however their steps interleave.
Shaped(how) ==
  /\ hand["compose"].pc # "idle" => hand["compose"].at \in Harbor
  /\ hand["move"].pc # "idle" => hand["move"].gen \in Gather(how)!Gen
  /\ hand["move"].todo \subseteq Harbor \X Nat
  /\ pass.pc # "idle" => pass.registry \in Harbor
  /\ pass.pc \in {"create", "remove", "delete"} => pass.at \in Gather(how)!Op
  /\ \A op \in queue : op.kind = "PROJECT_CREATE" => op.key \in Gather(how)!Gen
CcTyped(how) == Gather(how)!TypeOK /\ OneName(how) /\ Shaped(how)

CcRest(how) ==
  /\ OneChange(how) /\ ComposeHand(how) /\ MoveHand(how) /\ AdoptHand(how) /\ PassHand(how)
  /\ Numbered(how) /\ OfTheCluster(how) /\ DeletedBefore(how) /\ KeptOrOwed(how) /\ Accounted(how)
CcInv(how) == CcTyped(how) /\ CcRest(how)

\* What the types say.
LEMMA CcFacts ==
  ASSUME NEW how, CcSorts(how), Gather(how)!TypeOK
  PROVE  /\ \A h \in Harbor : member[h] \in Cluster \union {None} /\ harbor[h] \in Gather(how)!HarborProject
         /\ \A h \in Harbor : harbor[h].id \in Nat /\ h \notin Nat /\ h # None
         /\ \A g \in Gather(how)!Gen : g \in Nat /\ g # 0 /\ project[g] \in Cluster \union {None}
         /\ \A g \in Gather(how)!Gen, h \in Harbor : placement[g][h] \in Nat
         /\ \A op \in queue : /\ op \in Gather(how)!Op /\ op.id \in Nat /\ op.registry \in Harbor
                              /\ op.kind \in Gather(how)!Kind /\ op.key \in Nat
         /\ hand \in [Gather(how)!Role -> Gather(how)!Hand] /\ hand["compose"] \in Gather(how)!Hand
         /\ hand["move"] \in Gather(how)!Hand /\ hand["adopt"] \in Gather(how)!Hand
         /\ nextId \in Nat /\ pass \in Gather(how)!Pass /\ None \notin Cluster
<1>1. /\ member \in [Harbor -> Cluster \union {None}]
      /\ harbor \in [Harbor -> Gather(how)!HarborProject]
      /\ project \in [Gather(how)!Gen -> Cluster \union {None}]
      /\ placement \in [Gather(how)!Gen -> [Harbor -> Nat]]
      /\ hand \in [Gather(how)!Role -> Gather(how)!Hand] /\ queue \subseteq Gather(how)!Op
      /\ nextId \in Nat /\ pass \in Gather(how)!Pass
  BY DEF Gather!TypeOK
<1>2. \A h \in Harbor : harbor[h].id \in Nat
  BY <1>1 DEF Gather!HarborProject
<1>3. \A g \in Gather(how)!Gen : g \in Nat /\ g # 0
  BY DEF Gather!Gen, CcSorts
<1>4. \A op \in queue : /\ op \in Gather(how)!Op /\ op.id \in Nat /\ op.registry \in Harbor
                        /\ op.kind \in Gather(how)!Kind /\ op.key \in Nat
  BY <1>1 DEF Gather!Op
<1>5. \A g \in Gather(how)!Gen, h \in Harbor : placement[g][h] \in Nat
  BY <1>1
<1> QED
  BY <1>1, <1>2, <1>3, <1>4, <1>5 DEF CcSorts, Gather!Role

\* A name is that of one project, whatever is counted.
LEMMA OneIsOne ==
  ASSUME NEW how, CcSorts(how), NEW where, \A f,
         g \in Gather(how)!Gen : where[f] = where[g] /\ where[f] # None => f = g
  PROVE  \A c \in Cluster : Gather(how)!Cardinality({g \in Gather(how)!Gen : where[g] = c}) <= 1
<1> SUFFICES ASSUME NEW c \in Cluster PROVE Gather(how)!Cardinality({g \in Gather(how)!Gen : where[g] = c}) <= 1
  OBVIOUS
<1> DEFINE S == {g \in Gather(how)!Gen : where[g] = c}
<1>1. S = {} \/ \E g \in Gather(how)!Gen : S = {g}
  BY DEF CcSorts
<1> HIDE DEF S
<1>2. Cardinality(S) <= 1
  <2>1. CASE S = {}
    <3>1. Cardinality(S) = 0
      BY <2>1, FS_EmptySet
    <3> QED
      BY <3>1
  <2>2. CASE \E g \in Gather(how)!Gen : S = {g}
    <3>1. PICK g \in Gather(how)!Gen : S = {g}
      BY <2>2
    <3>2. Cardinality({g}) = 1
      BY FS_Singleton
    <3> QED
      BY <3>1, <3>2
  <2> QED
    BY <1>1, <2>1, <2>2
<1>3. Gather(how)!Cardinality(S) = Cardinality(S)
  BY DEF Gather!Cardinality, Cardinality
<1> QED
  BY <1>2, <1>3 DEF S

\* A cluster has one project of the name, at most.
LEMMA OneNameCounts ==
  ASSUME NEW how, CcSorts(how), OneName(how)'
  PROVE  \A c \in Cluster :
           Gather(how)!Cardinality({g \in Gather(how)!Gen : project'[g] = c}) <= 1
<1>1. \A f, g \in Gather(how)!Gen : project'[f] = project'[g] /\ project'[f] # None => f = g
  BY DEF OneName, Gather!Gen
<1> QED
  BY <1>1, OneIsOne

\* One handler takes a step.
LEMMA HandIs ==
  ASSUME NEW how, hand \in [Gather(how)!Role -> Gather(how)!Hand], NEW r \in Gather(how)!Role,
         NEW new \in Gather(how)!Hand, hand' = [hand EXCEPT ![r] = new]
  PROVE  /\ hand' \in [Gather(how)!Role -> Gather(how)!Hand] /\ hand'[r] = new
         /\ \A q \in Gather(how)!Role : q # r => hand'[q] = hand[q]
  OBVIOUS

\* What a handler is when it serves nothing, and when it begins.
LEMMA IdleHandIs ==
  ASSUME NEW how
  PROVE  LET idle == Gather(how)!IdleHand IN
         /\ idle \in Gather(how)!Hand /\ idle.pc = "idle" /\ idle.gen = 0
         /\ idle.from = None /\ idle.to = None /\ idle.at = None
         /\ idle.todo = {} /\ idle.failed = {} /\ idle.seen = {}
  BY DEF Gather!IdleHand, Gather!Hand

\* A handler that ticks off a call changes nothing else.
LEMMA OneField ==
  ASSUME NEW how, NEW w \in Gather(how)!Hand, NEW x
  PROVE  /\ [w EXCEPT !.todo = x] = [w EXCEPT !.todo = x, !.failed = w.failed]
         /\ [w EXCEPT !.failed = x] = [w EXCEPT !.todo = w.todo, !.failed = x]
  BY DEF Gather!Hand

\* What a creation, once owed, adds to the queue.
LEMMA OweAdds ==
  ASSUME NEW how, CcSorts(how), Gather(how)!TypeOK, NEW h \in Harbor, NEW g \in Gather(how)!Gen,
         Gather(how)!Owe(h, g)
  PROVE  /\ queue' \subseteq Gather(how)!Op /\ nextId' \in Nat
         /\ \E op \in queue' : op.registry = h /\ op.kind = "PROJECT_CREATE" /\ op.key = g
         /\ \/ queue' = queue /\ nextId' = nextId
            \/ /\ \A op \in queue : ~(op.registry = h /\ op.kind = "PROJECT_CREATE" /\ op.key = g)
               /\ queue' = queue \union {Gather(how)!Row(nextId, h, "PROJECT_CREATE", g)}
               /\ nextId' = nextId + 1
<1>0. queue \subseteq Gather(how)!Op /\ nextId \in Nat /\ g \in Nat
  BY CcFacts DEF Gather!TypeOK
<1> DEFINE new == Gather(how)!Row(nextId, h, "PROJECT_CREATE", g)
<1>1. /\ new \in Gather(how)!Op /\ new.registry = h /\ new.kind = "PROJECT_CREATE" /\ new.key = g
      /\ new.id = nextId
  BY <1>0 DEF Gather!Row, Gather!Op, Gather!Kind
<1>2. CASE Gather(how)!Subject(queue, h, {"PROJECT_CREATE"}, g) # {}
  <2>1. queue' = queue /\ nextId' = nextId
    BY <1>2 DEF Gather!Owe, Gather!EnqueueOnce
  <2> QED
    BY <1>0, <1>2, <2>1 DEF Gather!Subject
<1>3. CASE Gather(how)!Subject(queue, h, {"PROJECT_CREATE"}, g) = {}
  <2>1. queue' = queue \union {new}
    BY <1>3 DEF Gather!Owe, Gather!EnqueueOnce
  <2>2. \A op \in queue : ~(op.registry = h /\ op.kind = "PROJECT_CREATE" /\ op.key = g)
    BY <1>3 DEF Gather!Subject
  <2>3. queue' # queue
    BY <1>1, <2>1, <2>2
  <2>4. nextId' = nextId + 1
    BY <2>3 DEF Gather!Owe
  <2> QED
    BY <1>0, <1>1, <2>1, <2>2, <2>4
<1> QED
  BY <1>2, <1>3

\* The types, and that a name is that of one project, hold in every interleaving.
LEMMA ComposeTypes ==
  ASSUME NEW how, CcSorts(how), CcTyped(how), Gather(how)!Compose
  PROVE  CcTyped(how)'
<1>0. /\ Gather(how)!TypeOK /\ OneName(how) /\ Shaped(how) /\ hand["compose"] \in Gather(how)!Hand
      /\ hand \in [Gather(how)!Role -> Gather(how)!Hand]
      /\ "compose" \in Gather(how)!Role /\ "move" \in Gather(how)!Role /\ "compose" # "move"
  BY CcFacts DEF CcTyped, Gather!Role
<1>1. /\ UNCHANGED <<project, pass, claimed, crashes>>
      /\ hand' \in [Gather(how)!Role -> Gather(how)!Hand] /\ hand'["move"] = hand["move"]
      /\ hand'["compose"].pc # "idle" => hand'["compose"].at \in Harbor
      /\ served' \in 0..how.requests
  <2>1. ASSUME NEW h \in Harbor, NEW c \in Cluster, Gather(how)!Join(h, c) PROVE <1>1!:
    <3> DEFINE new == [Gather(how)!IdleHand EXCEPT !.pc = "member", !.at = h, !.to = c]
    <3>1. new \in Gather(how)!Hand /\ new.at = h
      BY DEF Gather!IdleHand, Gather!Hand
    <3>2. hand' = [hand EXCEPT !["compose"] = new] /\ served' = served + 1 /\ served < how.requests
      BY <2>1 DEF Gather!Join, Gather!Ask
    <3> HIDE DEF new
    <3> QED
      BY <1>0, <2>1, <3>1, <3>2, HandIs DEF Gather!Join, Gather!TypeOK, CcSorts
  <2>2. ASSUME NEW h \in Harbor, Gather(how)!Leave(h) PROVE <1>1!:
    <3> DEFINE new == [Gather(how)!IdleHand EXCEPT !.pc = "leave", !.at = h]
    <3>1. new \in Gather(how)!Hand /\ new.at = h
      BY DEF Gather!IdleHand, Gather!Hand
    <3>2. hand' = [hand EXCEPT !["compose"] = new] /\ served' = served + 1 /\ served < how.requests
      BY <2>2 DEF Gather!Leave, Gather!Ask
    <3> HIDE DEF new
    <3> QED
      BY <1>0, <2>2, <3>1, <3>2, HandIs DEF Gather!Leave, Gather!TypeOK, CcSorts
  <2>3. CASE Gather(how)!JoinWrite \/ Gather(how)!LeaveQueue \/ Gather(how)!LeavePlacements
    <3>1. PICK pc \in {"backlog", "unplace", "part"} : hand' = [hand EXCEPT !["compose"] = [hand["compose"] EXCEPT !.pc = pc]]
      BY <1>0, <2>3 DEF Gather!JoinWrite, Gather!LeaveQueue, Gather!LeavePlacements
    <3> DEFINE new == [hand["compose"] EXCEPT !.pc = pc]
    <3>2. new \in Gather(how)!Hand /\ new.at = hand["compose"].at
      BY <1>0 DEF Gather!Hand
    <3>3. hand["compose"].at \in Harbor
      BY <1>0, <2>3
         DEF Gather!JoinWrite, Gather!LeaveQueue, Gather!LeavePlacements, Gather!Step, Shaped
    <3>4. UNCHANGED <<project, pass, claimed, crashes, served>>
      BY <2>3 DEF Gather!JoinWrite, Gather!LeaveQueue, Gather!LeavePlacements
    <3> HIDE DEF new
    <3> QED
      BY <1>0, <3>1, <3>2, <3>3, <3>4, HandIs DEF Gather!TypeOK, new
  <2>4. CASE Gather(how)!JoinBacklog
    <3> DEFINE new == [hand["compose"] EXCEPT !.pc = "owe", !.todo = Gather(how)!RowsOf(hand["compose"].to) \X {0}]
    <3>1. Gather(how)!RowsOf(hand["compose"].to) \X {0} \in SUBSET ((Harbor \union Gather(how)!Gen) \X Nat)
      BY DEF Gather!RowsOf
    <3>2. new \in Gather(how)!Hand /\ new.at = hand["compose"].at
      BY <1>0, <3>1 DEF Gather!Hand
    <3>3. hand["compose"].at \in Harbor /\ UNCHANGED <<project, pass, claimed, crashes, served>>
      BY <1>0, <2>4 DEF Gather!JoinBacklog, Gather!Step, Shaped
    <3>4. hand' = [hand EXCEPT !["compose"] = new]
      BY <1>0, <2>4 DEF Gather!JoinBacklog
    <3> HIDE DEF new
    <3> QED
      BY <1>0, <3>2, <3>3, <3>4, HandIs DEF Gather!TypeOK
  <2>5. ASSUME NEW g \in Gather(how)!Gen, Gather(how)!JoinOwe(g) PROVE <1>1!:
    <3> DEFINE new == [hand["compose"] EXCEPT !.todo = @ \ {<<g, 0>>}]
    <3>1. new \in Gather(how)!Hand /\ new.at = hand["compose"].at
      BY <1>0 DEF Gather!Hand
    <3>2. hand["compose"].at \in Harbor /\ UNCHANGED <<project, pass, claimed, crashes, served>>
      BY <1>0, <2>5 DEF Gather!JoinOwe, Gather!Step, Shaped
    <3>3. hand' = [hand EXCEPT !["compose"] = new]
      BY <1>0, <2>5 DEF Gather!JoinOwe
    <3> HIDE DEF new
    <3> QED
      BY <1>0, <3>1, <3>2, <3>3, HandIs DEF Gather!TypeOK
  <2>6. CASE Gather(how)!JoinDone \/ Gather(how)!LeaveWrite
    <3>1. /\ hand' = [hand EXCEPT !["compose"] = Gather(how)!IdleHand]
          /\ UNCHANGED <<project, pass, claimed, crashes, served>>
      BY <2>6 DEF Gather!JoinDone, Gather!LeaveWrite, Gather!Answer
    <3> QED
      BY <1>0, <3>1, HandIs, IdleHandIs DEF Gather!TypeOK
  <2> QED
    BY <2>1, <2>2, <2>3, <2>4, <2>5, <2>6 DEF Gather!Compose
<1>2. /\ member' \in [Harbor -> Cluster \union {None}]
      /\ harbor' \in [Harbor -> Gather(how)!HarborProject]
      /\ placement' \in [Gather(how)!Gen -> [Harbor -> Nat]] /\ queue' \subseteq Gather(how)!Op
      /\ nextId' \in Nat
      /\ torn' \subseteq Gather(how)!Gen \union Harbor
      /\ \A op \in queue' : op.kind = "PROJECT_CREATE" => op.key \in Gather(how)!Gen
  <2>1. CASE \/ \E h \in Harbor : Gather(how)!Leave(h) \/ \E c \in Cluster : Gather(how)!Join(h, c)
             \/ Gather(how)!JoinBacklog \/ Gather(how)!JoinDone
    <3>1. UNCHANGED <<member, harbor, placement, queue, nextId, torn>>
      BY <2>1 DEF Gather!Leave, Gather!Join, Gather!JoinBacklog, Gather!JoinDone
    <3> QED
      BY <1>0, <3>1 DEF Gather!TypeOK, Shaped
  <2>2. CASE Gather(how)!JoinWrite
    <3>1. hand["compose"].to \in Cluster \union {None}
      BY <1>0 DEF Gather!Hand
    <3> QED
      BY <1>0, <2>2, <3>1 DEF Gather!JoinWrite, Gather!TypeOK, Shaped
  <2>3. ASSUME NEW g \in Gather(how)!Gen, Gather(how)!JoinOwe(g) PROVE <1>2!:
    <3>1. hand["compose"].at \in Harbor /\ Gather(how)!Owe(hand["compose"].at, g)
      BY <1>0, <2>3 DEF Gather!JoinOwe, Gather!Step, Shaped
    <3>2. \A op \in queue' : op \in queue \/ op.key = g
      BY <1>0, <3>1, OweAdds DEF Gather!Row
    <3>3. queue' \subseteq Gather(how)!Op /\ nextId' \in Nat
      BY <1>0, <3>1, OweAdds
    <3>4. UNCHANGED <<member, harbor, placement, torn>>
      BY <2>3 DEF Gather!JoinOwe
    <3> QED
      BY <1>0, <3>2, <3>3, <3>4 DEF Gather!TypeOK, Shaped
  <2>4. CASE Gather(how)!LeaveQueue
    BY <1>0, <2>4 DEF Gather!LeaveQueue, Gather!TypeOK, Shaped
  <2>5. CASE Gather(how)!LeavePlacements
    <3>1. \A g \in Gather(how)!Gen : [placement[g] EXCEPT ![hand["compose"].at] = 0] \in [Harbor -> Nat]
      BY <1>0 DEF Gather!TypeOK
    <3> QED
      BY <1>0, <2>5, <3>1 DEF Gather!LeavePlacements, Gather!TypeOK, Shaped
  <2>6. CASE Gather(how)!LeaveWrite
    <3>1. \A x \in Gather(how)!HarborProject : [x EXCEPT !.ours = FALSE] \in Gather(how)!HarborProject
      BY DEF Gather!HarborProject
    <3> QED
      BY <1>0, <2>6, <3>1 DEF Gather!LeaveWrite, Gather!TypeOK, Shaped
  <2> QED
    BY <2>1, <2>2, <2>3, <2>4, <2>5, <2>6 DEF Gather!Compose
<1>3. OneName(how)'
  BY <1>0, <1>1 DEF OneName
<1>4. Gather(how)!TypeOK'
  <2>1. \A c \in Cluster : Gather(how)!Cardinality({g \in Gather(how)!Gen : project'[g] = c}) <= 1
    BY <1>3, OneIsOne DEF OneName, Gather!Gen
  <2> QED
    BY <1>0, <1>1, <1>2, <2>1
       DEF Gather!TypeOK, Gather!Gen, Gather!Role, Gather!Op, Gather!Hand, Gather!Pass,
           Gather!HarborProject, Gather!Kind
<1> QED
  BY <1>0, <1>1, <1>2, <1>3, <1>4 DEF CcTyped, Shaped, Gather!Gen

LEMMA MovingTypes ==
  ASSUME NEW how, CcSorts(how), CcTyped(how), Gather(how)!Moving
  PROVE  CcTyped(how)'
<1>0. /\ Gather(how)!TypeOK /\ OneName(how) /\ Shaped(how) /\ hand["move"] \in Gather(how)!Hand
      /\ hand \in [Gather(how)!Role -> Gather(how)!Hand]
      /\ "compose" \in Gather(how)!Role /\ "move" \in Gather(how)!Role /\ "compose" # "move"
  BY CcFacts DEF CcTyped, Gather!Role
<1>1. /\ UNCHANGED <<member, pass, crashes>>
      /\ hand' \in [Gather(how)!Role -> Gather(how)!Hand] /\ hand'["compose"] = hand["compose"]
      /\ hand'["move"].pc # "idle" => hand'["move"].gen \in Gather(how)!Gen
      /\ hand'["move"].todo \subseteq Harbor \X Nat
      /\ served' \in 0..how.requests
  <2>1. ASSUME NEW g \in Gather(how)!Gen, NEW c \in Cluster, Gather(how)!Move(g, c) PROVE <1>1!:
    <3> DEFINE new == [Gather(how)!IdleHand EXCEPT !.pc = "inspect", !.gen = g, !.from = project[g], !.to = c]
    <3>1. project[g] \in Cluster \union {None}
      BY <1>0 DEF Gather!TypeOK
    <3>2. new \in Gather(how)!Hand /\ new.gen = g /\ new.todo = {}
      BY <3>1 DEF Gather!IdleHand, Gather!Hand
    <3>3. hand' = [hand EXCEPT !["move"] = new] /\ served' = served + 1 /\ served < how.requests
      BY <2>1 DEF Gather!Move, Gather!Ask
    <3> HIDE DEF new
    <3> QED
      <4>1. UNCHANGED <<member, pass, crashes>>
        BY <2>1 DEF Gather!Move
      <4>2. served' \in 0..how.requests
        BY <1>0, <3>3 DEF Gather!TypeOK, CcSorts
      <4>3. /\ hand' \in [Gather(how)!Role -> Gather(how)!Hand] /\ hand'["move"] = new
            /\ hand'["compose"] = hand["compose"]
        BY <1>0, <3>2, <3>3, HandIs
      <4> QED
        BY <3>2, <4>1, <4>2, <4>3
  <2>2. CASE Gather(how)!MoveInspected /\ hand' # [hand EXCEPT !["move"] = Gather(how)!IdleHand]
    <3> DEFINE new == [hand["move"] EXCEPT !.pc = "remove", !.todo = Gather(how)!Known(hand["move"].gen)]
    <3>1. hand["move"].gen \in Gather(how)!Gen
      BY <1>0, <2>2 DEF Gather!MoveInspected, Gather!Step, Shaped
    <3>2. Gather(how)!Known(hand["move"].gen) \in SUBSET ((Harbor \union Gather(how)!Gen) \X Nat)
      BY <1>0, <3>1 DEF Gather!Known, Gather!TypeOK
    <3>5. Gather(how)!Known(hand["move"].gen) \subseteq Harbor \X Nat
      BY <1>0, <3>1 DEF Gather!Known, Gather!TypeOK
    <3>3. /\ new \in Gather(how)!Hand /\ new.gen = hand["move"].gen
          /\ new.todo = Gather(how)!Known(hand["move"].gen)
      BY <1>0, <3>2 DEF Gather!Hand
    <3>4. hand' = [hand EXCEPT !["move"] = new]
      BY <1>0, <2>2 DEF Gather!MoveInspected, Gather!Answer
    <3> HIDE DEF new
    <3> QED
      BY <1>0, <2>2, <3>1, <3>3, <3>4, <3>5, HandIs DEF Gather!MoveInspected, Gather!TypeOK
  <2>3. CASE (Gather(how)!MoveInspected \/ Gather(how)!MoveRow \/ Gather(how)!MoveDone) /\ hand' = [hand EXCEPT !["move"] = Gather(how)!IdleHand]
    BY <1>0, <2>3, HandIs, IdleHandIs
       DEF Gather!MoveInspected, Gather!MoveRow, Gather!MoveDone, Gather!TypeOK
  <2>4. ASSUME NEW s \in hand["move"].todo \union hand["move"].failed,
               Gather(how)!MoveRemoved(s[1], s[2]) \/ Gather(how)!MoveRefused(s[1], s[2]) \/ Gather(how)!MoveFailed(s[1], s[2])
                 \/ Gather(how)!MoveOweRemoval(s[1], s[2]) \/ Gather(how)!MoveOwe(s[1])
        PROVE  <1>1!:
    <3>0. /\ hand["move"].gen \in Gather(how)!Gen /\ UNCHANGED <<member, pass, crashes, served>>
          /\ hand["move"].todo \subseteq Harbor \X Nat
          /\ hand["move"].failed \subseteq Harbor \X Nat
      BY <1>0, <2>4
         DEF Gather!MoveRemoved, Gather!MoveRefused, Gather!MoveFailed, Gather!MoveOweRemoval,
             Gather!MoveOwe, Gather!Step, Shaped, Gather!Hand
    <3>1. PICK todo, failed :
            /\ hand' = [hand EXCEPT !["move"] = [hand["move"] EXCEPT !.todo = todo, !.failed = failed]]
            /\ todo \subseteq hand["move"].todo
            /\ failed \subseteq hand["move"].failed \union hand["move"].todo
      <4>1. CASE Gather(how)!MoveRemoved(s[1], s[2]) \/ Gather(how)!MoveRefused(s[1], s[2])
        <5>1. hand' = [hand EXCEPT !["move"] = [hand["move"] EXCEPT
                         !.todo = hand["move"].todo \ {<<s[1], s[2]>>}, !.failed = hand["move"].failed]]
          <6>1. hand' = [hand EXCEPT !["move"] = [hand["move"] EXCEPT
                           !.todo = hand["move"].todo \ {<<s[1], s[2]>>}]]
            BY <4>1 DEF Gather!MoveRemoved, Gather!MoveRefused
          <6> QED
            BY <1>0, <6>1, OneField
        <5>2. PICK left : left = hand["move"].todo \ {<<s[1], s[2]>>}
          OBVIOUS
        <5>3. left \subseteq hand["move"].todo
          BY <5>2
        <5> QED
          BY <5>1, <5>2, <5>3
      <4>2. CASE Gather(how)!MoveFailed(s[1], s[2])
        <5>1. /\ hand' = [hand EXCEPT !["move"] = [hand["move"] EXCEPT
                           !.todo = hand["move"].todo \ {<<s[1], s[2]>>}, !.failed = hand["move"].failed \union {<<s[1], s[2]>>}]]
              /\ <<s[1], s[2]>> \in hand["move"].todo
          BY <1>0, <4>2 DEF Gather!MoveFailed, Gather!Hand
        <5> DEFINE more == hand["move"].failed \union {<<s[1], s[2]>>}
        <5>2. more \subseteq hand["move"].failed \union hand["move"].todo
          BY <5>1
        <5>3. hand' = [hand EXCEPT !["move"] = [hand["move"] EXCEPT
                         !.todo = hand["move"].todo \ {<<s[1], s[2]>>}, !.failed = more]]
          BY <5>1
        <5>4. \E todo, failed :
                /\ hand' = [hand EXCEPT !["move"] = [hand["move"] EXCEPT !.todo = todo, !.failed = failed]]
                /\ todo \subseteq hand["move"].todo
                /\ failed \subseteq hand["move"].failed \union hand["move"].todo
          <6> DEFINE less == hand["move"].todo \ {<<s[1], s[2]>>}
          <6>1. less \subseteq hand["move"].todo
            OBVIOUS
          <6>2. hand' = [hand EXCEPT !["move"] = [hand["move"] EXCEPT !.todo = less, !.failed = more]]
            BY <5>3
          <6> HIDE DEF less, more
          <6> QED
            BY <5>2, <6>1, <6>2
        <5> QED
          BY <5>4
      <4>3. CASE Gather(how)!MoveOweRemoval(s[1], s[2])
        <5>1. hand' = [hand EXCEPT !["move"] = [hand["move"] EXCEPT
                         !.todo = hand["move"].todo, !.failed = hand["move"].failed \ {<<s[1], s[2]>>}]]
          <6>1. hand' = [hand EXCEPT !["move"] = [hand["move"] EXCEPT
                           !.failed = hand["move"].failed \ {<<s[1], s[2]>>}]]
            BY <4>3 DEF Gather!MoveOweRemoval
          <6> QED
            BY <1>0, <6>1, OneField
        <5>2. hand["move"].failed \ {<<s[1], s[2]>>} \subseteq hand["move"].failed \union hand["move"].todo
          OBVIOUS
        <5>3. PICK kept : kept = hand["move"].failed \ {<<s[1], s[2]>>}
          OBVIOUS
        <5> QED
          BY <5>1, <5>2, <5>3
      <4>4. CASE Gather(how)!MoveOwe(s[1])
        <5>1. hand' = [hand EXCEPT !["move"] = [hand["move"] EXCEPT
                         !.todo = hand["move"].todo \ {<<s[1], 0>>}, !.failed = hand["move"].failed]]
          <6>1. hand' = [hand EXCEPT !["move"] = [hand["move"] EXCEPT
                           !.todo = hand["move"].todo \ {<<s[1], 0>>}]]
            BY <4>4 DEF Gather!MoveOwe
          <6> QED
            BY <1>0, <6>1, OneField
        <5>2. PICK left : left = hand["move"].todo \ {<<s[1], 0>>}
          OBVIOUS
        <5>3. left \subseteq hand["move"].todo
          BY <5>2
        <5> QED
          BY <5>1, <5>2, <5>3
      <4> QED
        BY <2>4, <4>1, <4>2, <4>3, <4>4
    <3> DEFINE new == [hand["move"] EXCEPT !.todo = todo, !.failed = failed]
    <3>2. new \in Gather(how)!Hand /\ new.gen = hand["move"].gen /\ new.todo \subseteq Harbor \X Nat
      BY <1>0, <3>0, <3>1 DEF Gather!Hand
    <3>3. hand' = [hand EXCEPT !["move"] = new]
      BY <3>1
    <3> HIDE DEF new
    <3> QED
      BY <1>0, <3>0, <3>2, <3>3, HandIs DEF Gather!TypeOK
  <2>5. ASSUME Gather(how)!MoveForget \/ Gather(how)!MoveUnplace \/ Gather(how)!MoveTargets \/ (Gather(how)!MoveRow /\ hand' # [hand EXCEPT !["move"] = Gather(how)!IdleHand])
        PROVE  <1>1!:
    <3>1. PICK pc \in {"clear", "row", "targets", "owe"},
               todo \in {hand["move"].todo, Gather(how)!Members(hand["move"].to) \X {0}} :
            hand' = [hand EXCEPT !["move"] = [hand["move"] EXCEPT !.pc = pc, !.todo = todo]]
      <4>1. CASE Gather(how)!MoveForget
        <5>1. hand' = [hand EXCEPT !["move"] = [hand["move"] EXCEPT !.pc = "clear", !.todo = hand["move"].todo]]
          BY <1>0, <4>1 DEF Gather!MoveForget, Gather!Hand
        <5> QED
          BY <5>1
      <4>2. CASE Gather(how)!MoveUnplace
        <5>1. hand' = [hand EXCEPT !["move"] = [hand["move"] EXCEPT !.pc = "row", !.todo = hand["move"].todo]]
          BY <1>0, <4>2 DEF Gather!MoveUnplace, Gather!Hand
        <5> QED
          BY <5>1
      <4>3. CASE Gather(how)!MoveTargets
        <5>1. hand' = [hand EXCEPT !["move"] = [hand["move"] EXCEPT !.pc = "owe", !.todo = Gather(how)!Members(hand["move"].to) \X {0}]]
          BY <1>0, <4>3 DEF Gather!MoveTargets, Gather!Hand
        <5> QED
          BY <5>1
      <4>4. CASE Gather(how)!MoveRow /\ hand' # [hand EXCEPT !["move"] = Gather(how)!IdleHand]
        <5>1. hand' = [hand EXCEPT !["move"] = [hand["move"] EXCEPT !.pc = "targets", !.todo = hand["move"].todo]]
          BY <1>0, <4>4 DEF Gather!MoveRow, Gather!Answer, Gather!Hand
        <5> QED
          BY <5>1
      <4> QED
        BY <2>5, <4>1, <4>2, <4>3, <4>4
    <3> DEFINE new == [hand["move"] EXCEPT !.pc = pc, !.todo = todo]
    <3>2. hand["move"].gen \in Gather(how)!Gen /\ UNCHANGED <<member, pass, crashes, served>>
      BY <1>0, <2>5
         DEF Gather!MoveForget, Gather!MoveUnplace, Gather!MoveTargets, Gather!MoveRow, Gather!Step,
             Shaped
    <3>3. todo \subseteq Harbor \X Nat
      BY <1>0 DEF Gather!Members, Shaped
    <3>4. new \in Gather(how)!Hand /\ new.gen = hand["move"].gen /\ new.todo = todo
      <4>1. /\ hand["move"] \in Gather(how)!Hand
            /\ todo \in SUBSET ((Harbor \union Gather(how)!Gen) \X Nat)
        BY <1>0, <3>3
      <4> QED
        BY <4>1 DEF Gather!Hand
    <3>5. hand' = [hand EXCEPT !["move"] = new]
      BY <3>1
    <3> HIDE DEF new
    <3> QED
      BY <1>0, <3>2, <3>3, <3>4, <3>5, HandIs DEF Gather!TypeOK
  <2> QED
    BY <2>1, <2>2, <2>3, <2>4, <2>5 DEF Gather!Moving, Gather!MoveDone, Gather!Answer
<1>2. /\ project' \in [Gather(how)!Gen -> Cluster \union {None}] /\ OneName(how)'
      /\ harbor' \in [Harbor -> Gather(how)!HarborProject]
      /\ placement' \in [Gather(how)!Gen -> [Harbor -> Nat]] /\ queue' \subseteq Gather(how)!Op
      /\ nextId' \in Nat
      /\ torn' \subseteq Gather(how)!Gen \union Harbor /\ claimed' \subseteq Gather(how)!Gen
      /\ \A op \in queue' : op.kind = "PROJECT_CREATE" => op.key \in Gather(how)!Gen
  <2>1. CASE \/ \E g \in Gather(how)!Gen, c \in Cluster : Gather(how)!Move(g, c)
             \/ Gather(how)!MoveInspected \/ Gather(how)!MoveTargets \/ Gather(how)!MoveDone
    <3>1. /\ UNCHANGED <<project, harbor, placement, queue, nextId>>
          /\ torn' \subseteq torn /\ claimed' \subseteq claimed
      BY <2>1 DEF Gather!Move, Gather!MoveInspected, Gather!MoveTargets, Gather!MoveDone
    <3> QED
      BY <1>0, <3>1 DEF Gather!TypeOK, Shaped, OneName
  <2>2. CASE Gather(how)!MoveForget
    BY <1>0, <2>2 DEF Gather!MoveForget, Gather!TypeOK, Shaped, OneName
  <2>3. CASE Gather(how)!MoveUnplace
    <3>1. \A old : [h \in Harbor |-> IF h \in old THEN 0 ELSE placement[hand["move"].gen][h]] \in [Harbor -> Nat]
      BY <1>0, <2>3 DEF Gather!MoveUnplace, Gather!TypeOK, Gather!Step, Shaped
    <3>2. UNCHANGED <<project, harbor, queue, nextId, torn, claimed>>
      BY <2>3 DEF Gather!MoveUnplace
    <3>3. placement' = [placement EXCEPT ![hand["move"].gen] =
                         [h \in Harbor |-> IF h \in Gather(how)!Members(hand["move"].from) THEN 0 ELSE placement[hand["move"].gen][h]]]
      BY <1>0, <2>3 DEF Gather!MoveUnplace, Gather!TypeOK, Gather!Step, Shaped
    <3> QED
      BY <1>0, <3>1, <3>2, <3>3 DEF Gather!TypeOK, Shaped, OneName
  <2>4. CASE Gather(how)!MoveRow
    <3>1. hand["move"].gen \in Gather(how)!Gen /\ hand["move"].to \in Cluster \union {None}
      BY <1>0, <2>4 DEF Gather!MoveRow, Gather!Step, Shaped, Gather!Hand
    <3>2. /\ UNCHANGED <<harbor, placement, queue, nextId, claimed>>
          /\ torn' \subseteq torn \union {hand["move"].gen}
      BY <2>4 DEF Gather!MoveRow
    <3>3. project' \in [Gather(how)!Gen -> Cluster \union {None}] /\ OneName(how)'
      <4>1. CASE project' = project
        BY <1>0, <4>1 DEF Gather!TypeOK, OneName
      <4>2. CASE project' # project
        <5>1. /\ project' = [project EXCEPT ![hand["move"].gen] = hand["move"].to]
              /\ Gather(how)!RowsOf(hand["move"].to) = {}
          BY <2>4, <4>2 DEF Gather!MoveRow
        <5> QED
          BY <1>0, <3>1, <5>1 DEF Gather!TypeOK, OneName, Gather!RowsOf
      <4> QED
        BY <4>1, <4>2
    <3> QED
      BY <1>0, <3>1, <3>2, <3>3 DEF Gather!TypeOK, Shaped
  <2>5. ASSUME NEW s \in hand["move"].todo \union hand["move"].failed,
               Gather(how)!MoveRemoved(s[1], s[2]) \/ Gather(how)!MoveRefused(s[1], s[2]) \/ Gather(how)!MoveFailed(s[1], s[2])
                 \/ Gather(how)!MoveOweRemoval(s[1], s[2]) \/ Gather(how)!MoveOwe(s[1])
        PROVE  <1>2!:
    <3>0. /\ UNCHANGED <<project, placement, torn, claimed>> /\ hand["move"].gen \in Gather(how)!Gen
          /\ s[1] \in Harbor /\ s[2] \in Nat
      BY <1>0, <2>5
         DEF Gather!MoveRemoved, Gather!MoveRefused, Gather!MoveFailed, Gather!MoveOweRemoval,
             Gather!MoveOwe, Gather!Step, Shaped, Gather!Hand
    <3>1. harbor' \in [Harbor -> Gather(how)!HarborProject]
      <4>1. /\ Gather(how)!Deleted(s[1], s[2]) \in Gather(how)!HarborProject
            /\ [harbor[s[1]] EXCEPT !.told = TRUE] \in Gather(how)!HarborProject
        BY <1>0, <3>0 DEF Gather!Deleted, Gather!NoProject, Gather!HarborProject, Gather!TypeOK
      <4>2. \/ harbor' = harbor \/ harbor' = [harbor EXCEPT ![s[1]] = Gather(how)!Deleted(s[1], s[2])]
            \/ harbor' = [harbor EXCEPT ![s[1]] = [harbor[s[1]] EXCEPT !.told = TRUE]]
        BY <1>0, <2>5, <3>0
           DEF Gather!MoveRemoved, Gather!MoveRefused, Gather!MoveFailed, Gather!MoveOweRemoval,
               Gather!MoveOwe, Gather!TypeOK, Gather!HarborProject
      <4> QED
        BY <1>0, <4>1, <4>2 DEF Gather!TypeOK
    <3>2. CASE UNCHANGED <<queue, nextId>>
      BY <1>0, <3>0, <3>1, <3>2 DEF Gather!TypeOK, Shaped, OneName
    <3>3. CASE Gather(how)!MoveOwe(s[1])
      <4>1. Gather(how)!Owe(s[1], hand["move"].gen)
        BY <3>3 DEF Gather!MoveOwe
      <4>2. \A op \in queue' : op \in queue \/ op.key = hand["move"].gen
        BY <1>0, <3>0, <4>1, OweAdds DEF Gather!Row
      <4> QED
        BY <1>0, <3>0, <3>1, <4>1, <4>2, OweAdds DEF Gather!TypeOK, Shaped, OneName
    <3>4. CASE Gather(how)!MoveOweRemoval(s[1], s[2])
      <4>1. /\ queue' \subseteq queue \union {Gather(how)!Row(nextId, s[1], "PROJECT_DELETE", s[2])}
            /\ nextId' = nextId + 1
        BY <3>4 DEF Gather!MoveOweRemoval
      <4>2. /\ Gather(how)!Row(nextId, s[1], "PROJECT_DELETE", s[2]) \in Gather(how)!Op
            /\ Gather(how)!Row(nextId, s[1], "PROJECT_DELETE", s[2]).kind = "PROJECT_DELETE"
        BY <1>0, <3>0 DEF Gather!Row, Gather!Op, Gather!Kind, Gather!TypeOK
      <4> QED
        BY <1>0, <3>0, <3>1, <4>1, <4>2 DEF Gather!TypeOK, Shaped, OneName
    <3> QED
      BY <2>5, <3>2, <3>3, <3>4 DEF Gather!MoveRemoved, Gather!MoveRefused, Gather!MoveFailed
  <2> QED
    BY <2>1, <2>2, <2>3, <2>4, <2>5 DEF Gather!Moving
<1>4. Gather(how)!TypeOK'
  <2>1. \A c \in Cluster : Gather(how)!Cardinality({g \in Gather(how)!Gen : project'[g] = c}) <= 1
    BY <1>2, OneNameCounts
  <2> QED
    BY <1>0, <1>1, <1>2, <2>1
       DEF Gather!TypeOK, Gather!Gen, Gather!Role, Gather!Op, Gather!Hand, Gather!Pass,
           Gather!HarborProject, Gather!Kind
<1> QED
  BY <1>0, <1>1, <1>2, <1>4 DEF CcTyped, Shaped, Gather!Gen

LEMMA AdoptingTypes ==
  ASSUME NEW how, CcSorts(how), CcTyped(how), Gather(how)!Adopting
  PROVE  CcTyped(how)'
<1>0. /\ Gather(how)!TypeOK /\ OneName(how) /\ Shaped(how) /\ hand["adopt"] \in Gather(how)!Hand
      /\ hand \in [Gather(how)!Role -> Gather(how)!Hand]
      /\ "compose" \in Gather(how)!Role /\ "move" \in Gather(how)!Role
      /\ "adopt" \in Gather(how)!Role /\ "adopt" \notin {"move", "compose"}
  BY CcFacts DEF CcTyped, Gather!Role
<1>1. /\ UNCHANGED <<member, queue, nextId, pass, torn, served, crashes>>
      /\ hand' \in [Gather(how)!Role -> Gather(how)!Hand] /\ hand'["compose"] = hand["compose"]
      /\ hand'["move"] = hand["move"]
  <2>0. UNCHANGED <<member, queue, nextId, pass, torn, served, crashes>>
    BY DEF Gather!Adopting, Gather!Adopt, Gather!AdoptList, Gather!AdoptUnreachable,
       Gather!AdoptKnown, Gather!AdoptCreate
  <2>1. ASSUME NEW c \in Cluster, Gather(how)!Adopt(c) PROVE <1>1!:
    <3> DEFINE new == [Gather(how)!IdleHand EXCEPT !.pc = "list", !.to = c, !.todo = Gather(how)!Members(c) \X {0}]
    <3>1. new \in Gather(how)!Hand
      <4>1. Gather(how)!Members(c) \X {0} \in SUBSET ((Harbor \union Gather(how)!Gen) \X Nat)
        BY DEF Gather!Members
      <4> QED
        BY <4>1 DEF Gather!IdleHand, Gather!Hand
    <3>2. hand' = [hand EXCEPT !["adopt"] = new]
      BY <2>1 DEF Gather!Adopt
    <3> HIDE DEF new
    <3> QED
      BY <1>0, <2>0, <3>1, <3>2, HandIs
  <2>2. ASSUME NEW h \in Harbor, Gather(how)!AdoptList(h) \/ Gather(how)!AdoptUnreachable(h)
        PROVE  <1>1!:
    <3>1. PICK seen \in {{}, {<<h, harbor[h].id>>}} :
            hand' = [hand EXCEPT !["adopt"] = [hand["adopt"] EXCEPT !.todo = @ \ {<<h, 0>>},
                                                                    !.seen = @ \union seen]]
      <4>1. CASE Gather(how)!AdoptList(h)
        BY <1>0, <4>1 DEF Gather!AdoptList, Gather!Hand
      <4>2. CASE Gather(how)!AdoptUnreachable(h)
        <5>1. hand["adopt"].seen \union {} = hand["adopt"].seen
          OBVIOUS
        <5>2. hand' = [hand EXCEPT !["adopt"] = [hand["adopt"] EXCEPT !.todo = @ \ {<<h, 0>>},
                                                                      !.seen = @ \union {}]]
          BY <1>0, <4>2, <5>1 DEF Gather!AdoptUnreachable, Gather!Hand
        <5> QED
          BY <5>2
      <4> QED
        BY <2>2, <4>1, <4>2
    <3> DEFINE new == [hand["adopt"] EXCEPT !.todo = @ \ {<<h, 0>>}, !.seen = @ \union seen]
    <3>2. harbor[h].id \in Nat
      BY <1>0, CcFacts
    <3>3. new \in Gather(how)!Hand
      <4>1. hand["adopt"].seen \union seen \in SUBSET (Harbor \X Nat)
        BY <1>0, <3>1, <3>2 DEF Gather!Hand
      <4>2. hand["adopt"].todo \ {<<h, 0>>} \in SUBSET ((Harbor \union Gather(how)!Gen) \X Nat)
        BY <1>0 DEF Gather!Hand
      <4> QED
        BY <1>0, <4>1, <4>2 DEF Gather!Hand
    <3>4. hand' = [hand EXCEPT !["adopt"] = new]
      BY <3>1
    <3> HIDE DEF new
    <3> QED
      BY <1>0, <2>0, <3>3, <3>4, HandIs
  <2>3. CASE Gather(how)!AdoptKnown \/ Gather(how)!AdoptCreate
    <3>1. CASE hand' = [hand EXCEPT !["adopt"] = Gather(how)!IdleHand]
      BY <1>0, <2>0, <3>1, HandIs, IdleHandIs
    <3>2. CASE hand' = [hand EXCEPT !["adopt"] = [hand["adopt"] EXCEPT !.pc = "create"]]
      <4>1. [hand["adopt"] EXCEPT !.pc = "create"] \in Gather(how)!Hand
        BY <1>0 DEF Gather!Hand
      <4> QED
        BY <1>0, <2>0, <3>2, <4>1, HandIs
    <3> QED
      BY <1>0, <2>3, <3>1, <3>2 DEF Gather!AdoptKnown, Gather!AdoptCreate, Gather!Answer
  <2> QED
    BY <2>1, <2>2, <2>3 DEF Gather!Adopting
<1>2. /\ project' \in [Gather(how)!Gen -> Cluster \union {None}] /\ OneName(how)'
      /\ harbor' \in [Harbor -> Gather(how)!HarborProject]
      /\ placement' \in [Gather(how)!Gen -> [Harbor -> Nat]] /\ claimed' \subseteq Gather(how)!Gen
  <2>1. CASE UNCHANGED <<project, placement, harbor, claimed>>
    BY <1>0, <2>1 DEF Gather!TypeOK, OneName
  <2>2. CASE ~UNCHANGED <<project, placement, harbor, claimed>>
    <3> DEFINE c == hand["adopt"].to
               at(h) == {s \in hand["adopt"].seen : s[1] = h}
    <3>1. Gather(how)!AdoptCreate /\ Gather(how)!RowsOf(c) = {}
      BY <2>2
         DEF Gather!Adopting, Gather!Adopt, Gather!AdoptList, Gather!AdoptUnreachable,
             Gather!AdoptKnown, Gather!AdoptCreate
    <3>2. PICK g \in Gather(how)!RowsOf(None) :
            /\ project' = [project EXCEPT ![g] = c]
            /\ placement' = [placement EXCEPT ![g] = [h \in Harbor |->
                 IF at(h) = {} THEN 0 ELSE (CHOOSE s \in at(h) : TRUE)[2]]]
            /\ harbor' = [h \in Harbor |->
                 IF at(h) # {} /\ harbor[h].there
                 THEN [harbor[h] EXCEPT !.ours = TRUE, !.told = FALSE] ELSE harbor[h]]
            /\ claimed' = claimed \union {g}
      BY <3>1 DEF Gather!AdoptCreate
    <3>3. /\ g \in Gather(how)!Gen /\ c \in Cluster \union {None}
          /\ hand["adopt"].seen \subseteq Harbor \X Nat
      BY <1>0 DEF Gather!RowsOf, Gather!Hand
    <3>4. \A h \in Harbor : (IF at(h) = {} THEN 0 ELSE (CHOOSE s \in at(h) : TRUE)[2]) \in Nat
      BY <3>3
    <3>5. \A x \in Gather(how)!HarborProject : [x EXCEPT !.ours = TRUE, !.told = FALSE] \in Gather(how)!HarborProject
      BY DEF Gather!HarborProject
    <3>6. project' \in [Gather(how)!Gen -> Cluster \union {None}] /\ OneName(how)'
      BY <1>0, <3>1, <3>2, <3>3 DEF Gather!TypeOK, OneName, Gather!RowsOf
    <3>7. harbor' \in [Harbor -> Gather(how)!HarborProject]
      BY <1>0, <3>2, <3>5 DEF Gather!TypeOK
    <3>8. placement' \in [Gather(how)!Gen -> [Harbor -> Nat]]
      <4> DEFINE fresh == [h \in Harbor |-> IF at(h) = {} THEN 0 ELSE (CHOOSE s \in at(h) : TRUE)[2]]
      <4>1. fresh \in [Harbor -> Nat]
        BY <3>4
      <4>2. placement' = [placement EXCEPT ![g] = fresh]
        BY <3>2
      <4> HIDE DEF fresh
      <4> QED
        BY <1>0, <3>3, <4>1, <4>2 DEF Gather!TypeOK
    <3> QED
      BY <1>0, <3>2, <3>3, <3>6, <3>7, <3>8 DEF Gather!TypeOK
  <2> QED
    BY <2>1, <2>2
<1>4. Gather(how)!TypeOK'
  <2>1. \A c \in Cluster : Gather(how)!Cardinality({g \in Gather(how)!Gen : project'[g] = c}) <= 1
    BY <1>2, OneNameCounts
  <2> QED
    BY <1>0, <1>1, <1>2, <2>1
       DEF Gather!TypeOK, Gather!Gen, Gather!Role, Gather!Op, Gather!Hand, Gather!Pass,
           Gather!HarborProject, Gather!Kind
<1> QED
  BY <1>0, <1>1, <1>2, <1>4 DEF CcTyped, Shaped, Gather!Gen

LEMMA ReplayTypes ==
  ASSUME NEW how, CcSorts(how), CcTyped(how), Gather(how)!Replay
  PROVE  CcTyped(how)'
<1>0. /\ Gather(how)!TypeOK /\ OneName(how) /\ Shaped(how) /\ pass \in Gather(how)!Pass
      /\ queue \subseteq Gather(how)!Op
  BY CcFacts DEF CcTyped, Gather!TypeOK
<1>1. /\ UNCHANGED <<member, project, nextId, hand, claimed, torn, served, crashes>>
      /\ queue' \subseteq queue
  BY DEF Gather!Replay, Gather!PassStart, Gather!PassTake, Gather!PassCreate, Gather!PassRemove,
     Gather!PassDelete, Gather!PassEnds
<1>2. /\ pass' \in Gather(how)!Pass /\ (pass'.pc # "idle" => pass'.registry \in Harbor)
      /\ pass'.pc \in {"create", "remove", "delete"} => pass'.at \in Gather(how)!Op
  <2>1. ASSUME NEW h \in Harbor, Gather(how)!PassStart(h) PROVE <1>2!:
    <3>1. Gather(how)!Owed(queue, h) \subseteq Gather(how)!Op
      BY <1>0 DEF Gather!Owed
    <3>2. pass' = [pc |-> "next", registry |-> h, ops |-> Gather(how)!Owed(queue, h), at |-> None]
      BY <2>1 DEF Gather!PassStart, Gather!IdlePass
    <3> QED
      BY <3>1, <3>2 DEF Gather!Pass
  <2>2. ASSUME NEW op \in pass.ops, Gather(how)!PassTake(op) PROVE <1>2!:
    <3>1. op \in Gather(how)!Op /\ pass.registry \in Harbor
      BY <1>0, <2>2 DEF Gather!Pass, Gather!PassTake, Shaped
    <3> QED
      BY <1>0, <2>2, <3>1 DEF Gather!PassTake, Gather!Pass
  <2>3. CASE Gather(how)!PassDelete
    <3>1. pass' = [pc |-> "next", registry |-> pass.registry, ops |-> pass.ops \ {pass.at}, at |-> None]
      BY <2>3 DEF Gather!PassDelete, Gather!IdlePass
    <3> QED
      BY <1>0, <2>3, <3>1 DEF Gather!Pass, Gather!PassDelete, Shaped
  <2>4. CASE pass' = Gather(how)!IdlePass
    BY <2>4 DEF Gather!IdlePass, Gather!Pass
  <2>5. CASE (Gather(how)!PassCreate \/ Gather(how)!PassRemove) /\ pass' = [pass EXCEPT !.pc = "delete"]
    BY <1>0, <2>5 DEF Gather!PassCreate, Gather!PassRemove, Gather!Pass, Shaped
  <2> QED
    BY <2>1, <2>2, <2>3, <2>4, <2>5
       DEF Gather!Replay, Gather!PassCreate, Gather!PassRemove, Gather!PassEnds
<1>3. /\ harbor' \in [Harbor -> Gather(how)!HarborProject]
      /\ placement' \in [Gather(how)!Gen -> [Harbor -> Nat]]
  <2>1. CASE Gather(how)!PassCreate
    <3>1. pass.registry \in Harbor
      BY <1>0, <2>1 DEF Gather!PassCreate, Shaped
    <3>2. Gather(how)!Created(pass.registry) \in Gather(how)!HarborProject
      <4>1. harbor[pass.registry] \in Gather(how)!HarborProject
        BY <1>0, <3>1 DEF Gather!TypeOK
      <4>2. harbor[pass.registry].id + 1 \in Nat
        BY <4>1 DEF Gather!HarborProject
      <4>3. CASE harbor[pass.registry].there
        BY <4>1, <4>3 DEF Gather!Created, Gather!HarborProject
      <4>4. CASE ~harbor[pass.registry].there
        BY <4>2, <4>4 DEF Gather!Created, Gather!NoProject, Gather!HarborProject
      <4> QED
        BY <4>3, <4>4
    <3>3. harbor' \in [Harbor -> Gather(how)!HarborProject]
      BY <1>0, <2>1, <3>2 DEF Gather!PassCreate, Gather!TypeOK
    <3>4. harbor'[pass.registry].id \in Nat
      BY <3>1, <3>3 DEF Gather!HarborProject
    <3>5. \/ placement' = placement
          \/ placement' = [placement EXCEPT ![pass.at.key] = [placement[pass.at.key] EXCEPT ![pass.registry] = harbor'[pass.registry].id]]
      BY <1>0, <2>1 DEF Gather!PassCreate, Gather!TypeOK
    <3> QED
      BY <1>0, <3>3, <3>4, <3>5 DEF Gather!TypeOK
  <2>2. CASE Gather(how)!PassRemove
    <3>1. pass.registry \in Harbor
      BY <1>0, <2>2 DEF Gather!PassRemove, Shaped
    <3>2. Gather(how)!Deleted(pass.registry, pass.at.key) \in Gather(how)!HarborProject
      <4>1. \A x \in Gather(how)!HarborProject : x.id \in Nat
        BY DEF Gather!HarborProject
      <4>2. harbor[pass.registry] \in Gather(how)!HarborProject
        BY <1>0, <3>1 DEF Gather!TypeOK
      <4>3. CASE harbor[pass.registry].id = pass.at.key
        BY <4>1, <4>2, <4>3 DEF Gather!Deleted, Gather!NoProject, Gather!HarborProject
      <4>4. CASE harbor[pass.registry].id # pass.at.key
        BY <4>2, <4>4 DEF Gather!Deleted
      <4> QED
        BY <4>3, <4>4
    <3> QED
      BY <1>0, <2>2, <3>2 DEF Gather!PassRemove, Gather!TypeOK
  <2>3. CASE UNCHANGED <<harbor, placement>>
    BY <1>0, <2>3 DEF Gather!TypeOK
  <2> QED
    BY <2>1, <2>2, <2>3
       DEF Gather!Replay, Gather!PassStart, Gather!PassTake, Gather!PassDelete, Gather!PassEnds
<1>4. Gather(how)!TypeOK' /\ OneName(how)'
  <2>1. \A c \in Cluster : Gather(how)!Cardinality({g \in Gather(how)!Gen : project'[g] = c}) <= 1
    BY <1>0, <1>1, OneIsOne DEF OneName, Gather!Gen
  <2> QED
    BY <1>0, <1>1, <1>2, <1>3, <2>1
       DEF Gather!TypeOK, Gather!Gen, Gather!Role, Gather!Op, Gather!Hand, Gather!Pass,
           Gather!HarborProject, Gather!Kind, OneName
<1> QED
  BY <1>0, <1>1, <1>2, <1>4 DEF CcTyped, Shaped, Gather!Gen

LEMMA CrashTypes ==
  ASSUME NEW how, CcSorts(how), CcTyped(how), NEW r \in Gather(how)!Role, Gather(how)!Crash(r)
  PROVE  CcTyped(how)'
<1>0. /\ Gather(how)!TypeOK /\ OneName(how) /\ Shaped(how)
      /\ hand \in [Gather(how)!Role -> Gather(how)!Hand] /\ hand[r].pc # "idle"
      /\ "compose" \in Gather(how)!Role /\ "move" \in Gather(how)!Role
      /\ UNCHANGED <<member, project, placement, harbor, queue, nextId, pass, claimed, served>>
      /\ crashes < how.crashes /\ crashes' = crashes + 1
      /\ hand' = [hand EXCEPT ![r] = Gather(how)!IdleHand]
  BY CcFacts DEF CcTyped, Gather!Role, Gather!Crash, Gather!Busy, Gather!Answer
<1>1. torn' \subseteq Gather(how)!Gen \union Harbor
  <2>1. CASE r = "move"
    BY <1>0, <2>1 DEF Gather!Crash, Gather!TypeOK, Shaped
  <2>2. CASE r = "compose"
    BY <1>0, <2>2 DEF Gather!Crash, Gather!TypeOK, Shaped
  <2>3. CASE r = "adopt"
    BY <1>0, <2>3 DEF Gather!Crash, Gather!TypeOK
  <2> QED
    BY <2>1, <2>2, <2>3 DEF Gather!Role
<1>2. /\ hand' \in [Gather(how)!Role -> Gather(how)!Hand]
      /\ \A q \in {"compose", "move"} : hand'[q] = hand[q] \/ hand'[q] = Gather(how)!IdleHand
  BY <1>0, HandIs, IdleHandIs
<1>3. OneName(how)'
  BY <1>0 DEF OneName
<1>4. Gather(how)!TypeOK'
  <2>1. \A c \in Cluster : Gather(how)!Cardinality({g \in Gather(how)!Gen : project'[g] = c}) <= 1
    BY <1>3, OneIsOne DEF OneName, Gather!Gen
  <2>2. crashes' \in 0..how.crashes
    BY <1>0 DEF Gather!TypeOK, CcSorts
  <2> QED
    BY <1>0, <1>1, <1>2, <2>1, <2>2
       DEF Gather!TypeOK, Gather!Gen, Gather!Role, Gather!Op, Gather!Hand, Gather!Pass,
           Gather!HarborProject, Gather!Kind
<1> QED
  BY <1>0, <1>2, <1>3, <1>4, IdleHandIs DEF CcTyped, Shaped, Gather!Gen

\* Any step keeps the types.
LEMMA CcTypesNext ==
  ASSUME NEW how, CcSorts(how), CcTyped(how), [Gather(how)!Next]_(Gather(how)!vars)
  PROVE  CcTyped(how)'
<1>1. CASE UNCHANGED Gather(how)!vars
  <2>1. UNCHANGED <<member, project, placement, harbor, queue, nextId, hand, pass, claimed, torn, served, crashes>>
    BY <1>1 DEF Gather!vars
  <2>2. Gather(how)!TypeOK /\ OneName(how) /\ Shaped(how)
    BY DEF CcTyped
  <2>3. OneName(how)' /\ Shaped(how)'
    BY <2>1, <2>2 DEF OneName, Shaped, Gather!Gen, Gather!Op
  <2>4. \A c \in Cluster : Gather(how)!Cardinality({g \in Gather(how)!Gen : project'[g] = c}) <= 1
    BY <2>3, OneIsOne DEF OneName, Gather!Gen
  <2>5. Gather(how)!TypeOK'
    BY <2>1, <2>2, <2>4
       DEF Gather!TypeOK, Gather!Gen, Gather!Role, Gather!Op, Gather!Hand, Gather!Pass,
           Gather!HarborProject, Gather!Kind
  <2> QED
    BY <2>3, <2>5 DEF CcTyped
<1> QED
  BY <1>1, ComposeTypes, MovingTypes, AdoptingTypes, ReplayTypes, CrashTypes DEF Gather!Next

LEMMA CcTypesInit == ASSUME NEW how, CcSorts(how), Gather(how)!Init PROVE CcTyped(how)
<1>0. /\ member \in [Harbor -> Cluster \union {None}]
      /\ project = [g \in Gather(how)!Gen |-> IF g = 1 THEN Home ELSE None]
      /\ harbor \in [Harbor -> {Gather(how)!NoProject, [Gather(how)!NoProject EXCEPT !.id = 1, !.there = TRUE],
                                [Gather(how)!NoProject EXCEPT !.id = 1, !.there = TRUE, !.ours = TRUE]}]
      /\ placement = [g \in Gather(how)!Gen |-> [h \in Harbor |->
                        IF g = 1 /\ harbor[h].ours THEN harbor[h].id ELSE 0]]
      /\ queue = {Gather(how)!Row(0, h, "PROJECT_CREATE", 1) : h \in {x \in Gather(how)!Members(Home) : ~harbor[x].there}}
      /\ nextId = 1 /\ hand = [r \in Gather(how)!Role |-> Gather(how)!IdleHand]
      /\ pass = Gather(how)!IdlePass
      /\ claimed = {} /\ torn = {} /\ served = 0 /\ crashes = 0
  BY DEF Gather!Init
<1>1. 1 \in Gather(how)!Gen /\ Home \in Cluster /\ Home # None
  BY DEF Gather!Gen, CcSorts
<1>2. harbor \in [Harbor -> Gather(how)!HarborProject]
  <2>1. /\ Gather(how)!NoProject \in Gather(how)!HarborProject
        /\ [Gather(how)!NoProject EXCEPT !.id = 1, !.there = TRUE] \in Gather(how)!HarborProject
        /\ [Gather(how)!NoProject EXCEPT !.id = 1, !.there = TRUE, !.ours = TRUE] \in Gather(how)!HarborProject
    BY DEF Gather!NoProject, Gather!HarborProject
  <2> QED
    BY <1>0, <2>1
<1>3. \A op \in queue : op \in Gather(how)!Op /\ op.key = 1
  <2>1. \A h \in Harbor : Gather(how)!Row(0, h, "PROJECT_CREATE", 1) \in Gather(how)!Op /\ Gather(how)!Row(0, h, "PROJECT_CREATE", 1).key = 1
    BY DEF Gather!Row, Gather!Op, Gather!Kind
  <2> QED
    BY <1>0, <2>1 DEF Gather!Members
<1>4. hand \in [Gather(how)!Role -> Gather(how)!Hand] /\ \A r \in Gather(how)!Role : hand[r] = Gather(how)!IdleHand
  BY <1>0, IdleHandIs
<1>5. pass \in Gather(how)!Pass
  BY <1>0 DEF Gather!IdlePass, Gather!Pass
<1>6. project \in [Gather(how)!Gen -> Cluster \union {None}] /\ OneName(how)
  BY <1>0, <1>1 DEF OneName
<1>7. placement \in [Gather(how)!Gen -> [Harbor -> Nat]]
  <2>1. \A h \in Harbor : harbor[h].id \in Nat
    BY <1>2 DEF Gather!HarborProject
  <2> QED
    BY <1>0, <2>1
<1>8. \A c \in Cluster : Gather(how)!Cardinality({g \in Gather(how)!Gen : project[g] = c}) <= 1
  BY <1>6, OneIsOne DEF OneName
<1>9. Gather(how)!TypeOK
  <2>1. served \in 0..how.requests /\ crashes \in 0..how.crashes /\ nextId \in Nat
    BY <1>0 DEF CcSorts
  <2>2. /\ queue \subseteq Gather(how)!Op /\ claimed \subseteq Gather(how)!Gen
        /\ torn \subseteq Gather(how)!Gen \union Harbor
    BY <1>0, <1>3
  <2> QED
    BY <1>0, <1>2, <1>4, <1>5, <1>6, <1>7, <1>8, <2>1, <2>2 DEF Gather!TypeOK
<1> QED
  BY <1>0, <1>1, <1>3, <1>4, <1>6, <1>9, IdleHandIs
     DEF CcTyped, Shaped, Gather!IdlePass, Gather!Role

\* What is owed is a row of the queue, before and after a step.
LEMMA OwesIs ==
  ASSUME NEW how
  PROVE  \A h, kind, key :
    /\ Gather(how)!Owes(h, kind, key) <=> \E op \in queue : op.registry = h /\ op.kind = kind /\ op.key = key
    /\ Gather(how)!Owes(h, kind, key)' <=> \E op \in queue' : op.registry = h /\ op.kind = kind /\ op.key = key
  BY DEF Gather!Owes, Gather!Subject

LEMMA OwesGrows ==
  ASSUME NEW how, CcSorts(how), \A op \in queue : op \in queue'
  PROVE  \A h, kind, key : Gather(how)!Owes(h, kind, key) => Gather(how)!Owes(h, kind, key)'
  BY DEF Gather!Owes, Gather!Subject

\* Who is alone at work, and what stays as it was while they are.
LEMMA AloneIs ==
  ASSUME NEW how, CcSorts(how), CcTyped(how), OneChange(how), NEW r \in Gather(how)!Role,
         hand[r].pc # "idle"
  PROVE  pass.pc = "idle" /\ \A q \in Gather(how)!Role : q # r => hand[q].pc = "idle"
  BY DEF OneChange, Gather!Busy

\* The hands and the pass that a step of one role leaves idle.
LEMMA OneHandMoves ==
  ASSUME NEW how, CcSorts(how), CcTyped(how), NEW r \in Gather(how)!Role, NEW new,
         hand' = [hand EXCEPT ![r] = new],
         \A q \in Gather(how)!Role : q # r => hand[q].pc = "idle", pass.pc = "idle", pass' = pass
  PROVE  /\ hand'[r] = new /\ \A q \in Gather(how)!Role : q # r => hand'[q] = hand[q]
         /\ OneChange(how)' /\ PassHand(how)'
         /\ r # "compose" => ComposeHand(how)' /\ hand'["compose"].pc = "idle"
         /\ r # "move" => MoveHand(how)' /\ hand'["move"].pc = "idle"
         /\ r # "adopt" => AdoptHand(how)' /\ hand'["adopt"].pc = "idle"
<1>0. /\ hand \in [Gather(how)!Role -> Gather(how)!Hand] /\ "compose" \in Gather(how)!Role
      /\ "move" \in Gather(how)!Role /\ "adopt" \in Gather(how)!Role
  BY CcFacts DEF CcTyped, Gather!Role
<1>1. hand'[r] = new /\ \A q \in Gather(how)!Role : q # r => hand'[q] = hand[q]
  BY <1>0
<1>2. OneChange(how)'
  BY <1>0, <1>1 DEF OneChange, Gather!Busy
<1>3. PassHand(how)'
  BY DEF PassHand
<1>4. r # "compose" => ComposeHand(how)' /\ hand'["compose"].pc = "idle"
  BY <1>0, <1>1 DEF ComposeHand
<1>5. r # "move" => MoveHand(how)' /\ hand'["move"].pc = "idle"
  BY <1>0, <1>1 DEF MoveHand
<1>6. r # "adopt" => AdoptHand(how)' /\ hand'["adopt"].pc = "idle"
  BY <1>0, <1>1 DEF AdoptHand
<1> QED
  BY <1>1, <1>2, <1>3, <1>4, <1>5, <1>6

\* A step of a join or a departure leaves the others idle.
LEMMA ComposerMoves ==
  ASSUME NEW how, CcSorts(how), CcTyped(how), NEW new, hand' = [hand EXCEPT !["compose"] = new],
         \A q \in Gather(how)!Role : q # "compose" => hand[q].pc = "idle", pass.pc = "idle",
         pass' = pass
  PROVE  /\ OneChange(how)' /\ PassHand(how)' /\ MoveHand(how)' /\ AdoptHand(how)'
         /\ hand'["move"].pc = "idle"
<1>1. "compose" \in Gather(how)!Role
  BY DEF Gather!Role
<1> QED
  BY <1>1, OneHandMoves

\* A step of a move leaves the others idle.
LEMMA MoverMoves ==
  ASSUME NEW how, CcSorts(how), CcTyped(how), NEW new, hand' = [hand EXCEPT !["move"] = new],
         \A q \in Gather(how)!Role : q # "move" => hand[q].pc = "idle", pass.pc = "idle",
         pass' = pass
  PROVE  /\ OneChange(how)' /\ PassHand(how)' /\ ComposeHand(how)' /\ AdoptHand(how)'
         /\ hand'["compose"].pc = "idle"
<1>1. "move" \in Gather(how)!Role
  BY DEF Gather!Role
<1> QED
  BY <1>1, OneHandMoves

\* A step of an adoption leaves the others idle.
LEMMA AdopterMoves ==
  ASSUME NEW how, CcSorts(how), CcTyped(how), NEW new, hand' = [hand EXCEPT !["adopt"] = new],
         \A q \in Gather(how)!Role : q # "adopt" => hand[q].pc = "idle", pass.pc = "idle",
         pass' = pass
  PROVE  /\ OneChange(how)' /\ PassHand(how)' /\ ComposeHand(how)' /\ MoveHand(how)'
         /\ hand'["move"].pc = "idle" /\ hand'["compose"].pc = "idle"
<1>1. "adopt" \in Gather(how)!Role
  BY DEF Gather!Role
<1>2. OneChange(how)' /\ PassHand(how)'
  BY <1>1, OneHandMoves
<1>3. ComposeHand(how)' /\ hand'["compose"].pc = "idle"
  BY <1>1, OneHandMoves
<1>4. MoveHand(how)' /\ hand'["move"].pc = "idle"
  BY <1>1, OneHandMoves
<1> QED
  BY <1>2, <1>3, <1>4

\* The hands that a step of the pass leaves idle.
LEMMA HandsIdle ==
  ASSUME NEW how, CcSorts(how), CcTyped(how), \A q \in Gather(how)!Role : hand[q].pc = "idle",
         hand' = hand
  PROVE  OneChange(how)' /\ ComposeHand(how)' /\ MoveHand(how)' /\ AdoptHand(how)'
<1>0. /\ hand \in [Gather(how)!Role -> Gather(how)!Hand] /\ "compose" \in Gather(how)!Role
      /\ "move" \in Gather(how)!Role /\ "adopt" \in Gather(how)!Role
  BY CcFacts DEF CcTyped, Gather!Role
<1>1. OneChange(how)'
  BY <1>0 DEF OneChange, Gather!Busy
<1>2. ComposeHand(how)' /\ MoveHand(how)' /\ AdoptHand(how)'
  BY <1>0 DEF ComposeHand, MoveHand, AdoptHand
<1> QED
  BY <1>1, <1>2

\* What no step of a handler that calls nothing and writes nothing disturbs.
LEMMA DataKept ==
  ASSUME NEW how, CcSorts(how), Numbered(how), OfTheCluster(how),
         UNCHANGED <<member, project, placement, harbor, queue, nextId, torn>>
  PROVE  Numbered(how)' /\ OfTheCluster(how)'
  BY DEF Numbered, OfTheCluster, Gather!Gen

\* While no project is moved, one is loose only if a move of it died.
LEMMA Unmoved ==
  ASSUME NEW how, CcSorts(how), hand["move"].pc \in {"idle", "inspect"},
         hand'["move"].pc \in {"idle", "inspect"}
  PROVE  /\ \A g : (Loose(how, g) <=> g \in torn) /\ (Loose(how, g)' <=> g \in torn')
         /\ \A g, h : (Uprooted(how, g, h) <=> g \in torn) /\ (Uprooted(how, g, h)' <=> g \in torn')
         /\ ~AtWork(how, "move", {"clear"}) /\ ~AtWork(how, "move", {"clear"})'
         /\ ~AtWork(how, "move", {"owe"}) /\ ~AtWork(how, "move", {"owe"})'
  BY DEF Loose, Uprooted, AtWork

\* While no Harbor joins or leaves, nothing is on its way.
LEMMA Uncomposed ==
  ASSUME NEW how, CcSorts(how), hand["compose"].pc \in {"idle", "member", "leave"},
         hand'["compose"].pc \in {"idle", "member", "leave"}
  PROVE  /\ \A g, h : ~Passing(how, g, h) /\ ~Passing(how, g, h)'
         /\ ~AtWork(how, "compose", {"part"}) /\ ~AtWork(how, "compose", {"part"})'
         /\ ~AtWork(how, "compose", {"unplace"}) /\ ~AtWork(how, "compose", {"unplace"})'
  BY DEF Passing, AtWork

\* A step that writes nothing, and moves nothing, disturbs nothing that is kept or owed.
LEMMA NothingWritten ==
  ASSUME NEW how, CcSorts(how),
         UNCHANGED <<member, project, placement, harbor, queue, nextId, torn, claimed>>,
         hand["move"].pc \in {"idle", "inspect"}, hand'["move"].pc \in {"idle", "inspect"},
         hand["compose"].pc \in {"idle", "member", "leave"}, hand'["compose"].pc \in {"idle", "member", "leave"},
         Numbered(how), OfTheCluster(how), DeletedBefore(how), KeptOrOwed(how), Accounted(how)
  PROVE  Numbered(how)' /\ OfTheCluster(how)' /\ DeletedBefore(how)' /\ KeptOrOwed(how)' /\ Accounted(how)'
<1>1. Numbered(how)' /\ OfTheCluster(how)'
  BY DataKept
<1>2. DeletedBefore(how)'
  BY Unmoved DEF DeletedBefore, AtWork, Gather!Gen
<1>3. KeptOrOwed(how)'
  BY Unmoved, Uncomposed DEF KeptOrOwed, Concerns, Between, Gather!Holds, Gather!Owes, Gather!Gen
<1>4. Accounted(how)'
  BY Uncomposed DEF Accounted, Gather!Owes, Gather!Gen
<1> QED
  BY <1>1, <1>2, <1>3, <1>4

\* A Harbor that joins is owed every project of the cluster before anybody is told it is a member.
LEMMA JoinKeeps ==
  ASSUME NEW how, CcSorts(how), how.apart, CcInv(how), CcTyped(how)',
         \/ \E h \in Harbor, c \in Cluster : Gather(how)!Join(h, c)
         \/ Gather(how)!JoinWrite \/ Gather(how)!JoinBacklog \/ (\E g \in Gather(how)!Gen : Gather(how)!JoinOwe(g)) \/ Gather(how)!JoinDone
  PROVE  CcRest(how)'
<1>0. /\ CcTyped(how) /\ Gather(how)!TypeOK /\ OneName(how) /\ OneChange(how) /\ ComposeHand(how)
      /\ MoveHand(how) /\ AdoptHand(how) /\ PassHand(how)
      /\ Numbered(how) /\ OfTheCluster(how) /\ DeletedBefore(how) /\ KeptOrOwed(how)
      /\ Accounted(how)
      /\ "compose" \in Gather(how)!Role /\ "move" \in Gather(how)!Role
      /\ "adopt" \in Gather(how)!Role /\ hand["compose"] \in Gather(how)!Hand
      /\ hand \in [Gather(how)!Role -> Gather(how)!Hand]
  BY CcFacts DEF CcInv, CcRest, CcTyped, Gather!Role
<1>1. /\ pass.pc = "idle" /\ pass' = pass /\ \A q \in Gather(how)!Role : q # "compose" =>
           hand[q].pc = "idle"
      /\ UNCHANGED <<project, placement, harbor, torn, claimed>>
      /\ hand' = [hand EXCEPT !["compose"] = hand'["compose"]]
  <2>1. CASE \E h \in Harbor, c \in Cluster : Gather(how)!Join(h, c)
    BY <1>0, <2>1 DEF Gather!Join, Gather!Ask, Gather!Starts, Gather!Locked, Gather!Busy
  <2>2. CASE Gather(how)!JoinWrite \/ Gather(how)!JoinBacklog \/ (\E g \in Gather(how)!Gen : Gather(how)!JoinOwe(g)) \/ Gather(how)!JoinDone
    <3>1. hand["compose"].pc # "idle"
      BY <2>2 DEF Gather!JoinWrite, Gather!JoinBacklog, Gather!JoinOwe, Gather!JoinDone, Gather!Step
    <3> QED
      BY <1>0, <2>2, <3>1, AloneIs
         DEF Gather!JoinWrite, Gather!JoinBacklog, Gather!JoinOwe, Gather!JoinDone, Gather!Answer
  <2> QED
    BY <2>1, <2>2
<1>2. /\ OneChange(how)' /\ PassHand(how)' /\ MoveHand(how)' /\ AdoptHand(how)'
      /\ hand["move"].pc = "idle" /\ hand'["move"].pc = "idle"
  <2> DEFINE new == hand'["compose"]
  <2>1. hand' = [hand EXCEPT !["compose"] = new]
    BY <1>1
  <2> HIDE DEF new
  <2> QED
    BY <1>0, <1>1, <2>1, ComposerMoves
<1>3. ASSUME NEW h \in Harbor, NEW c \in Cluster, Gather(how)!Join(h, c) PROVE CcRest(how)'
  <2>1. /\ hand'["compose"].pc = "member" /\ hand'["compose"].at = h /\ hand'["compose"].to = c
        /\ hand["compose"].pc = "idle" /\ member[h] = None /\ UNCHANGED <<member, queue, nextId>>
    BY <1>0, <1>3 DEF Gather!Join, Gather!Ask, Gather!Starts, Gather!Busy, Gather!IdleHand
  <2>2. ComposeHand(how)'
    BY <2>1 DEF ComposeHand
  <2>3. /\ Numbered(how)' /\ OfTheCluster(how)' /\ DeletedBefore(how)' /\ KeptOrOwed(how)'
        /\ Accounted(how)'
    BY <1>0, <1>1, <1>2, <2>1, NothingWritten
  <2> QED
    BY <1>2, <2>2, <2>3 DEF CcRest
<1>4. CASE Gather(how)!JoinWrite
  <2>0. PICK h, c : h = hand["compose"].at /\ c = hand["compose"].to
    OBVIOUS
  <2>1. /\ hand'["compose"].pc = "backlog" /\ hand'["compose"].at = h /\ hand'["compose"].to = c
        /\ hand["compose"].pc = "member" /\ member' = [member EXCEPT ![h] = c]
        /\ UNCHANGED <<queue, nextId>>
    BY <1>0, <1>4, <2>0 DEF Gather!JoinWrite, Gather!Step, Gather!Hand
  <2>2. h \in Harbor /\ c \in Cluster /\ c # None /\ member[h] = None
    BY <1>0, <2>0, <2>1, CcFacts DEF ComposeHand
  <2>3. member' \in [Harbor -> Cluster \union {None}] /\ member'[h] = c /\ \A x \in Harbor : x # h =>
          member'[x] = member[x]
    BY <1>0, <2>1, <2>2 DEF Gather!TypeOK
  <2>4. ComposeHand(how)'
    BY <2>1, <2>2, <2>3 DEF ComposeHand
  <2>5. Numbered(how)'
    BY <1>0, <1>1, <2>1, <2>2, <2>3 DEF Numbered, Gather!Gen
  <2>6. OfTheCluster(how)'
    BY <1>0, <1>1, <2>1, <2>2, <2>3, CcFacts DEF OfTheCluster, Gather!Gen
  <2>7. DeletedBefore(how)'
    BY <1>0, <1>1, <1>2, <2>1, Unmoved DEF DeletedBefore, AtWork, Gather!Gen
  <2>8. KeptOrOwed(how)'
    <3>1. ASSUME NEW g \in Gather(how)!Gen, NEW x \in Harbor, x # h, Concerns(how, g, x)'
          PROVE  Gather(how)!Holds(g, x)' \/ Gather(how)!Owes(x, "PROJECT_CREATE", g)' \/ Between(how, g, x)'
      BY <1>0, <1>1, <1>2, <2>1, <2>2, <2>3, <3>1, Unmoved
         DEF KeptOrOwed, Concerns, Between, Passing, AtWork, Gather!Holds, Gather!Owes
    <3>2. \A g \in Gather(how)!Gen : Between(how, g, h)'
      BY <2>1 DEF Between, Passing, AtWork
    <3> QED
      BY <3>1, <3>2 DEF KeptOrOwed, Gather!Gen
  <2>9. Accounted(how)'
    BY <1>0, <1>1, <2>1 DEF Accounted, AtWork, Gather!Owes, Gather!Gen
  <2> QED
    BY <1>2, <2>4, <2>5, <2>6, <2>7, <2>8, <2>9 DEF CcRest
<1>5. CASE Gather(how)!JoinBacklog
  <2>0. PICK h, c : h = hand["compose"].at /\ c = hand["compose"].to
    OBVIOUS
  <2>1. /\ hand'["compose"].pc = "owe" /\ hand'["compose"].at = h /\ hand'["compose"].to = c
        /\ hand'["compose"].todo = Gather(how)!RowsOf(c) \X {0}
        /\ hand["compose"].pc = "backlog" /\ UNCHANGED <<member, queue, nextId>>
    BY <1>0, <1>5, <2>0 DEF Gather!JoinBacklog, Gather!Step, Gather!Hand
  <2>2. h \in Harbor /\ c \in Cluster /\ member[h] = c
    BY <1>0, <2>0, <2>1 DEF ComposeHand
  <2>3. Gather(how)!RowsOf(c)' = Gather(how)!RowsOf(c)
    BY <1>1, <2>1 DEF Gather!RowsOf, Gather!Gen
  <2>31. \A g \in Gather(how)!Gen : project[g] = c => <<g, 0>> \in hand'["compose"].todo
    BY <2>1 DEF Gather!RowsOf
  <2>4. ComposeHand(how)'
    <3>1. Gather(how)!RowsOf(hand["compose"].to)' = Gather(how)!RowsOf(c) /\ member'[h] = c
      BY <2>1, <2>2, <1>1 DEF Gather!RowsOf, Gather!Gen
    <3> QED
      BY <2>1, <2>2, <3>1 DEF ComposeHand
  <2>5. Numbered(how)' /\ OfTheCluster(how)'
    BY <1>0, <1>1, <2>1, DataKept
  <2>7. DeletedBefore(how)'
    BY <1>0, <1>1, <1>2, <2>1, Unmoved DEF DeletedBefore, AtWork, Gather!Gen
  <2>8. KeptOrOwed(how)'
    <3>1. ASSUME NEW g \in Gather(how)!Gen, NEW x \in Harbor, x # h, Concerns(how, g, x)'
          PROVE  Gather(how)!Holds(g, x)' \/ Gather(how)!Owes(x, "PROJECT_CREATE", g)' \/ Between(how, g, x)'
      <4>1. Concerns(how, g, x)
        BY <1>1, <1>2, <2>1, <3>1, Unmoved DEF Concerns
      <4>2. ~Passing(how, g, x)
        BY <2>0, <2>1, <3>1 DEF Passing, AtWork
      <4>3. Gather(how)!Holds(g, x) \/ Gather(how)!Owes(x, "PROJECT_CREATE", g) \/ Uprooted(how, g, x) \/ x \in torn
        BY <1>0, <4>1, <4>2 DEF KeptOrOwed, Between
      <4>4. Uprooted(how, g, x) => Uprooted(how, g, x)'
        BY <1>1, <1>2, Unmoved
      <4> QED
        BY <1>1, <2>1, <4>3, <4>4 DEF Between, Gather!Holds, Gather!Owes
    <3>2. \A g \in Gather(how)!Gen : Concerns(how, g, h)' => Between(how, g, h)'
      BY <1>1, <2>1, <2>2, <2>31 DEF Between, Passing, AtWork, Concerns
    <3> QED
      BY <3>1, <3>2 DEF KeptOrOwed, Gather!Gen
  <2>9. Accounted(how)'
    BY <1>0, <1>1, <2>1 DEF Accounted, AtWork, Gather!Owes, Gather!Gen
  <2> QED
    BY <1>2, <2>4, <2>5, <2>7, <2>8, <2>9 DEF CcRest
<1>6. ASSUME NEW g \in Gather(how)!Gen, Gather(how)!JoinOwe(g) PROVE CcRest(how)'
  <2>0. PICK h, c : h = hand["compose"].at /\ c = hand["compose"].to
    OBVIOUS
  <2>1. /\ hand'["compose"].pc = "owe" /\ hand'["compose"].at = h /\ hand'["compose"].to = c
        /\ hand'["compose"].todo = hand["compose"].todo \ {<<g, 0>>}
        /\ hand["compose"].pc = "owe" /\ UNCHANGED member /\ Gather(how)!Owe(h, g)
        /\ <<g, 0>> \in hand["compose"].todo
    BY <1>0, <1>6, <2>0 DEF Gather!JoinOwe, Gather!Step, Gather!Hand
  <2>2. /\ h \in Harbor /\ c \in Cluster /\ member[h] = c /\ c # None /\ project[g] = c
        /\ hand["compose"].todo \subseteq Gather(how)!RowsOf(c) \X {0}
    <3>1. /\ h \in Harbor /\ c \in Cluster /\ member[h] = c
          /\ hand["compose"].todo \subseteq Gather(how)!RowsOf(c) \X {0}
      BY <1>0, <2>0, <2>1 DEF ComposeHand
    <3> QED
      BY <2>1, <3>1 DEF Gather!RowsOf, CcSorts
  <2>3. /\ \E op \in queue' : op.registry = h /\ op.kind = "PROJECT_CREATE" /\ op.key = g
        /\ \A op \in queue : op \in queue'
        /\ \A op \in queue' : op \in queue \/
             (/\ op.id = nextId /\ nextId' = nextId + 1
              /\ op.registry = h /\ op.kind = "PROJECT_CREATE" /\ op.key = g
              /\ op = Gather(how)!Row(nextId, h, "PROJECT_CREATE", g))
        /\ nextId' = nextId \/ nextId' = nextId + 1
    BY <1>0, <2>1, <2>2, OweAdds DEF Gather!Row
  <2>4. ComposeHand(how)'
    <3>1. Gather(how)!RowsOf(hand["compose"].to)' = Gather(how)!RowsOf(c)
      BY <2>1, <2>2, <1>1 DEF Gather!RowsOf, Gather!Gen
    <3> QED
      BY <2>1, <2>2, <3>1 DEF ComposeHand
  <2>5. Numbered(how)'
    BY <1>0, <1>1, <2>1, <2>3, CcFacts DEF Numbered, Gather!Gen
  <2>6. OfTheCluster(how)'
    BY <1>0, <1>1, <2>1, <2>2, <2>3 DEF OfTheCluster, Gather!Gen
  <2>7. DeletedBefore(how)'
    BY <1>0, <1>1, <1>2, <2>3, Unmoved, CcFacts DEF DeletedBefore, AtWork, Gather!Gen, Numbered
  <2>8. KeptOrOwed(how)'
    <3>1. ASSUME NEW f \in Gather(how)!Gen, NEW x \in Harbor, Concerns(how, f, x)'
          PROVE  Gather(how)!Holds(f, x)' \/ Gather(how)!Owes(x, "PROJECT_CREATE", f)' \/ Between(how, f, x)'
      <4>1. Concerns(how, f, x)
        BY <1>1, <1>2, <2>1, <3>1, Unmoved DEF Concerns
      <4>2. CASE Gather(how)!Owes(x, "PROJECT_CREATE", f) \/ (x = h /\ f = g)
        BY <2>3, <4>2, OwesIs
      <4>3. CASE Gather(how)!Holds(f, x)
        BY <1>1, <4>3 DEF Gather!Holds
      <4>4. CASE Between(how, f, x) /\ ~(x = h /\ f = g)
        <5>1. CASE Uprooted(how, f, x) \/ x \in torn
          BY <1>1, <1>2, <5>1, Unmoved DEF Between
        <5>2. CASE Passing(how, f, x)
          BY <2>0, <2>1, <4>4, <5>2 DEF Between, Passing, AtWork
        <5> QED
          BY <4>4, <5>1, <5>2 DEF Between
      <4> QED
        BY <1>0, <4>1, <4>2, <4>3, <4>4 DEF KeptOrOwed
    <3> QED
      BY <3>1 DEF KeptOrOwed, Gather!Gen
  <2>9. Accounted(how)'
    <3>1. \A x \in Harbor : Gather(how)!Owes(x, "PROJECT_DELETE", harbor[x].id) =>
                              Gather(how)!Owes(x, "PROJECT_DELETE", harbor[x].id)'
      BY <1>1, <2>3, OwesGrows
    <3> QED
      BY <1>0, <1>1, <2>1, <3>1 DEF Accounted, AtWork, Gather!Gen
  <2> QED
    BY <1>2, <2>4, <2>5, <2>6, <2>7, <2>8, <2>9 DEF CcRest
<1>7. CASE Gather(how)!JoinDone
  <2>1. /\ hand'["compose"].pc = "idle" /\ hand["compose"].pc = "owe" /\ hand["compose"].todo = {}
        /\ UNCHANGED <<member, queue, nextId>>
    BY <1>0, <1>7, IdleHandIs DEF Gather!JoinDone, Gather!Step, Gather!Answer
  <2>2. ComposeHand(how)'
    BY <2>1 DEF ComposeHand
  <2>3. Numbered(how)' /\ OfTheCluster(how)'
    BY <1>0, <1>1, <2>1, DataKept
  <2>4. DeletedBefore(how)'
    BY <1>0, <1>1, <1>2, <2>1, Unmoved DEF DeletedBefore, AtWork, Gather!Gen
  <2>5. KeptOrOwed(how)'
    BY <1>0, <1>1, <1>2, <2>1, Unmoved
       DEF KeptOrOwed, Concerns, Between, Passing, AtWork, Gather!Holds, Gather!Owes, Gather!Gen
  <2>6. Accounted(how)'
    BY <1>0, <1>1, <2>1 DEF Accounted, AtWork, Gather!Owes, Gather!Gen
  <2> QED
    BY <1>2, <2>2, <2>3, <2>4, <2>5, <2>6 DEF CcRest
<1> QED
  BY <1>3, <1>4, <1>5, <1>6, <1>7

\* A Harbor that leaves takes with it all that was owed to it and recorded of it.
LEMMA LeaveKeeps ==
  ASSUME NEW how, CcSorts(how), how.apart, CcInv(how), CcTyped(how)',
         (\E h \in Harbor : Gather(how)!Leave(h)) \/ Gather(how)!LeaveQueue \/ Gather(how)!LeavePlacements \/ Gather(how)!LeaveWrite
  PROVE  CcRest(how)'
<1>0. /\ CcTyped(how) /\ Gather(how)!TypeOK /\ OneName(how) /\ OneChange(how) /\ ComposeHand(how)
      /\ MoveHand(how) /\ AdoptHand(how) /\ PassHand(how)
      /\ Numbered(how) /\ OfTheCluster(how) /\ DeletedBefore(how) /\ KeptOrOwed(how)
      /\ Accounted(how)
      /\ "compose" \in Gather(how)!Role /\ "move" \in Gather(how)!Role
      /\ "adopt" \in Gather(how)!Role /\ hand["compose"] \in Gather(how)!Hand
      /\ hand \in [Gather(how)!Role -> Gather(how)!Hand]
  BY CcFacts DEF CcInv, CcRest, CcTyped, Gather!Role
<1>1. /\ pass.pc = "idle" /\ pass' = pass /\ \A q \in Gather(how)!Role : q # "compose" =>
           hand[q].pc = "idle"
      /\ UNCHANGED <<project, nextId, claimed>>
      /\ hand' = [hand EXCEPT !["compose"] = hand'["compose"]]
  <2>1. CASE \E h \in Harbor : Gather(how)!Leave(h)
    BY <1>0, <2>1 DEF Gather!Leave, Gather!Ask, Gather!Starts, Gather!Locked, Gather!Busy
  <2>2. CASE Gather(how)!LeaveQueue \/ Gather(how)!LeavePlacements \/ Gather(how)!LeaveWrite
    <3>1. hand["compose"].pc # "idle"
      BY <2>2 DEF Gather!LeaveQueue, Gather!LeavePlacements, Gather!LeaveWrite, Gather!Step
    <3> QED
      BY <1>0, <2>2, <3>1, AloneIs
         DEF Gather!LeaveQueue, Gather!LeavePlacements, Gather!LeaveWrite, Gather!Answer
  <2> QED
    BY <2>1, <2>2
<1>2. /\ OneChange(how)' /\ PassHand(how)' /\ MoveHand(how)' /\ AdoptHand(how)'
      /\ hand["move"].pc = "idle" /\ hand'["move"].pc = "idle"
  <2> DEFINE new == hand'["compose"]
  <2>1. hand' = [hand EXCEPT !["compose"] = new]
    BY <1>1
  <2> HIDE DEF new
  <2> QED
    BY <1>0, <1>1, <2>1, ComposerMoves
<1>3. ASSUME NEW h \in Harbor, Gather(how)!Leave(h) PROVE CcRest(how)'
  <2>1. /\ hand'["compose"].pc = "leave" /\ hand'["compose"].at = h
        /\ hand["compose"].pc = "idle" /\ member[h] # None
        /\ UNCHANGED <<member, placement, harbor, queue, torn>>
    BY <1>0, <1>3 DEF Gather!Leave, Gather!Ask, Gather!Starts, Gather!Busy, Gather!IdleHand
  <2>2. ComposeHand(how)'
    BY <2>1 DEF ComposeHand
  <2>3. /\ Numbered(how)' /\ OfTheCluster(how)' /\ DeletedBefore(how)' /\ KeptOrOwed(how)'
        /\ Accounted(how)'
    BY <1>0, <1>1, <1>2, <2>1, NothingWritten
  <2> QED
    BY <1>2, <2>2, <2>3 DEF CcRest
<1>4. CASE Gather(how)!LeaveQueue
  <2>0. PICK h : h = hand["compose"].at
    OBVIOUS
  <2>1. /\ hand'["compose"].pc = "unplace" /\ hand'["compose"].at = h
        /\ hand["compose"].pc = "leave" /\ queue' = queue \ Gather(how)!Owed(queue, h)
        /\ UNCHANGED <<member, placement, harbor, torn>>
    BY <1>0, <1>4, <2>0 DEF Gather!LeaveQueue, Gather!Step, Gather!Hand
  <2>2. h \in Harbor /\ member[h] # None
    BY <1>0, <2>0, <2>1 DEF ComposeHand
  <2>3. /\ \A op \in queue' : op \in queue /\ op.registry # h
        /\ \A op \in queue : op.registry # h => op \in queue'
    BY <2>1 DEF Gather!Owed
  <2>4. ComposeHand(how)'
    BY <2>1, <2>2, <2>3 DEF ComposeHand
  <2>5. Numbered(how)'
    BY <1>0, <1>1, <2>1, <2>3 DEF Numbered, Gather!Gen
  <2>6. OfTheCluster(how)'
    BY <1>0, <1>1, <2>1, <2>3 DEF OfTheCluster, Gather!Gen
  <2>7. DeletedBefore(how)'
    BY <1>0, <1>1, <1>2, <2>1, <2>3, Unmoved DEF DeletedBefore, AtWork, Gather!Gen
  <2>8. KeptOrOwed(how)'
    <3>1. ASSUME NEW g \in Gather(how)!Gen, NEW x \in Harbor, x # h, Concerns(how, g, x)'
          PROVE  Gather(how)!Holds(g, x)' \/ Gather(how)!Owes(x, "PROJECT_CREATE", g)' \/ Between(how, g, x)'
      <4>1. Concerns(how, g, x)
        BY <1>1, <1>2, <2>1, <3>1, Unmoved DEF Concerns
      <4>2. ~Passing(how, g, x)
        BY <2>0, <2>1, <3>1 DEF Passing, AtWork
      <4>3. Gather(how)!Holds(g, x) \/ Gather(how)!Owes(x, "PROJECT_CREATE", g) \/ Uprooted(how, g, x) \/ x \in torn
        BY <1>0, <4>1, <4>2 DEF KeptOrOwed, Between
      <4>4. Uprooted(how, g, x) => Uprooted(how, g, x)'
        BY <1>1, <1>2, <2>1, Unmoved
      <4>5. Gather(how)!Owes(x, "PROJECT_CREATE", g) => Gather(how)!Owes(x, "PROJECT_CREATE", g)'
        BY <2>3, <3>1, OwesIs
      <4> QED
        BY <1>1, <2>1, <4>3, <4>4, <4>5 DEF Between, Gather!Holds
    <3>2. \A g \in Gather(how)!Gen : Between(how, g, h)'
      BY <2>1 DEF Between, Passing, AtWork
    <3> QED
      BY <3>1, <3>2 DEF KeptOrOwed, Gather!Gen
  <2>9. Accounted(how)'
    <3>1. \A x \in Harbor : x # h => (Gather(how)!Owes(x, "PROJECT_DELETE", harbor[x].id) => Gather(how)!Owes(x, "PROJECT_DELETE", harbor[x].id)')
      BY <2>1, <2>3, OwesIs
    <3> QED
      BY <1>0, <1>1, <2>0, <2>1, <3>1 DEF Accounted, AtWork, Gather!Gen
  <2> QED
    BY <1>2, <2>4, <2>5, <2>6, <2>7, <2>8, <2>9 DEF CcRest
<1>5. CASE Gather(how)!LeavePlacements
  <2>0. PICK h : h = hand["compose"].at
    OBVIOUS
  <2>1. /\ hand'["compose"].pc = "part" /\ hand'["compose"].at = h
        /\ hand["compose"].pc = "unplace"
        /\ placement' = [g \in Gather(how)!Gen |-> [placement[g] EXCEPT ![h] = 0]]
        /\ UNCHANGED <<member, queue, harbor, torn>>
    BY <1>0, <1>5, <2>0 DEF Gather!LeavePlacements, Gather!Step, Gather!Hand
  <2>2. h \in Harbor /\ member[h] # None /\ \A op \in queue : op.registry # h
    BY <1>0, <2>0, <2>1 DEF ComposeHand
  <2>3. \A g \in Gather(how)!Gen : placement'[g][h] = 0 /\ \A x \in Harbor : x # h =>
                                     placement'[g][x] = placement[g][x]
    BY <1>0, <2>1, <2>2 DEF Gather!TypeOK
  <2>4. ComposeHand(how)'
    BY <2>1, <2>2, <2>3 DEF ComposeHand, Gather!Gen
  <2>5. Numbered(how)'
    BY <1>0, <1>1, <2>1, <2>2, <2>3, CcFacts DEF Numbered, Gather!Gen
  <2>6. OfTheCluster(how)'
    BY <1>0, <1>1, <2>1, <2>3 DEF OfTheCluster, Gather!Gen
  <2>7. DeletedBefore(how)'
    <3>1. \A op \in queue : op.registry \in Harbor /\ op.registry # h
      BY <1>0, <2>2, CcFacts
    <3> QED
      BY <1>0, <1>1, <1>2, <2>1, <2>3, <3>1, Unmoved DEF DeletedBefore, AtWork, Gather!Gen
  <2>8. KeptOrOwed(how)'
    <3>1. ASSUME NEW g \in Gather(how)!Gen, NEW x \in Harbor, x # h, Concerns(how, g, x)'
          PROVE  Gather(how)!Holds(g, x)' \/ Gather(how)!Owes(x, "PROJECT_CREATE", g)' \/ Between(how, g, x)'
      <4>1. Concerns(how, g, x)
        BY <1>1, <1>2, <2>1, <2>3, <3>1, Unmoved DEF Concerns
      <4>2. ~Passing(how, g, x)
        BY <2>0, <2>1, <3>1 DEF Passing, AtWork
      <4>3. Gather(how)!Holds(g, x) \/ Gather(how)!Owes(x, "PROJECT_CREATE", g) \/ Uprooted(how, g, x) \/ x \in torn
        BY <1>0, <4>1, <4>2 DEF KeptOrOwed, Between
      <4>4. Uprooted(how, g, x) => Uprooted(how, g, x)'
        BY <1>1, <1>2, <2>1, Unmoved
      <4> QED
        BY <1>1, <2>1, <2>3, <3>1, <4>3, <4>4 DEF Between, Gather!Holds, Gather!Owes
    <3>2. \A g \in Gather(how)!Gen : Between(how, g, h)'
      BY <2>1 DEF Between, Passing, AtWork
    <3> QED
      BY <3>1, <3>2 DEF KeptOrOwed, Gather!Gen
  <2>9. Accounted(how)'
    <3>1. ASSUME NEW x \in Harbor, x # h, harbor[x].ours
          PROVE  \/ \E g \in Gather(how)!Gen : placement'[g][x] = harbor[x].id
                 \/ Gather(how)!Owes(x, "PROJECT_DELETE", harbor[x].id) \/ harbor[x].told \/ x \in torn
      BY <1>0, <2>0, <2>1, <2>3, <3>1 DEF Accounted, AtWork
    <3> QED
      BY <1>1, <2>1, <3>1 DEF Accounted, AtWork, Gather!Owes, Gather!Gen
  <2> QED
    BY <1>2, <2>4, <2>5, <2>6, <2>7, <2>8, <2>9 DEF CcRest
<1>6. CASE Gather(how)!LeaveWrite
  <2>0. PICK h : h = hand["compose"].at
    OBVIOUS
  <2>1. /\ hand'["compose"].pc = "idle" /\ hand["compose"].pc = "part"
        /\ member' = [member EXCEPT ![h] = None] /\ torn' = torn \ {h}
        /\ harbor' = [harbor EXCEPT ![h] = [harbor[h] EXCEPT !.ours = FALSE]]
        /\ UNCHANGED <<placement, queue>>
    <3>1. h \in Harbor
      BY <1>0, <1>6, <2>0 DEF Gather!LeaveWrite, Gather!Step, ComposeHand
    <3> QED
      BY <1>0, <1>6, <2>0, <3>1, IdleHandIs
         DEF Gather!LeaveWrite, Gather!Step, Gather!Answer, Gather!TypeOK
  <2>2. h \in Harbor /\ (\A op \in queue : op.registry # h) /\ \A g \in Gather(how)!Gen : placement[g][h] = 0
    BY <1>0, <2>0, <2>1 DEF ComposeHand
  <2>3. /\ member'[h] = None /\ \A x \in Harbor : x # h =>
             member'[x] = member[x] /\ harbor'[x] = harbor[x]
        /\ harbor'[h].id = harbor[h].id /\ harbor'[h].there = harbor[h].there
        /\ harbor'[h].ours = FALSE
        /\ \A g \in Gather(how)!Gen : g \in torn => g \in torn'
        /\ \A x \in Harbor : x \in torn => x = h \/ x \in torn'
        /\ h \notin torn'
    <3>1. \A g \in Gather(how)!Gen : g # h
      BY <1>0, <2>2, CcFacts DEF CcTyped
    <3>2. harbor[h] \in Gather(how)!HarborProject
      BY <1>0, <2>2, CcFacts
    <3> QED
      BY <1>0, <2>1, <2>2, <3>1, <3>2 DEF Gather!TypeOK, Gather!HarborProject
  <2>4. ComposeHand(how)'
    BY <2>1 DEF ComposeHand
  <2>5. Numbered(how)'
    BY <1>0, <1>1, <2>1, <2>2, <2>3, CcFacts DEF Numbered, Gather!Gen
  <2>6. OfTheCluster(how)'
    BY <1>0, <1>1, <2>1, <2>2, <2>3, CcFacts DEF OfTheCluster, Gather!Gen
  <2>7. DeletedBefore(how)'
    <3>1. \A op \in queue : op.registry \in Harbor /\ op.registry # h
      BY <1>0, <2>2, CcFacts
    <3>2. \A op \in queue : op.kind = "PROJECT_CREATE" => op.key \in Gather(how)!Gen
      BY <1>0 DEF OfTheCluster
    <3> QED
      BY <1>0, <1>1, <1>2, <2>1, <2>3, <3>1, <3>2, Unmoved DEF DeletedBefore, AtWork, Gather!Gen
  <2>8. KeptOrOwed(how)'
    <3>1. ASSUME NEW g \in Gather(how)!Gen, NEW x \in Harbor, Concerns(how, g, x)'
          PROVE  Gather(how)!Holds(g, x)' \/ Gather(how)!Owes(x, "PROJECT_CREATE", g)' \/ Between(how, g, x)'
      <4>0. x # h
        BY <1>1, <2>3, <3>1 DEF Concerns
      <4>1. Concerns(how, g, x)
        BY <1>1, <1>2, <2>1, <2>3, <3>1, <4>0, Unmoved DEF Concerns
      <4>2. ~Passing(how, g, x)
        BY <2>0, <2>1, <4>0 DEF Passing, AtWork
      <4>3. Gather(how)!Holds(g, x) \/ Gather(how)!Owes(x, "PROJECT_CREATE", g) \/ Uprooted(how, g, x) \/ x \in torn
        BY <1>0, <4>1, <4>2 DEF KeptOrOwed, Between
      <4>4. Uprooted(how, g, x) => Uprooted(how, g, x)'
        BY <1>1, <1>2, <2>3, Unmoved
      <4> QED
        BY <1>1, <2>1, <2>3, <4>0, <4>3, <4>4 DEF Between, Gather!Holds, Gather!Owes
    <3> QED
      BY <3>1 DEF KeptOrOwed, Gather!Gen
  <2>9. Accounted(how)'
    <3>1. ASSUME NEW x \in Harbor, harbor'[x].ours
          PROVE  \/ \E g \in Gather(how)!Gen : placement[g][x] = harbor[x].id
                 \/ Gather(how)!Owes(x, "PROJECT_DELETE", harbor[x].id) \/ harbor[x].told \/ x \in torn
      BY <1>0, <2>0, <2>1, <2>3, <3>1 DEF Accounted, AtWork
    <3>2. \A x \in Harbor : harbor'[x].ours => x # h
      BY <2>3
    <3> QED
      BY <1>1, <2>1, <2>3, <3>1, <3>2 DEF Accounted, AtWork, Gather!Owes, Gather!Gen
  <2> QED
    BY <1>2, <2>4, <2>5, <2>6, <2>7, <2>8, <2>9 DEF CcRest
<1> QED
  BY <1>3, <1>4, <1>5, <1>6

\* A move begins, and asks whether it may.
LEMMA MoveBegins ==
  ASSUME NEW how, CcSorts(how), how.apart, CcInv(how), CcTyped(how)',
         (\E g \in Gather(how)!Gen, c \in Cluster : Gather(how)!Move(g, c)) \/ Gather(how)!MoveInspected
  PROVE  CcRest(how)'
<1>0. /\ CcTyped(how) /\ Gather(how)!TypeOK /\ OneName(how) /\ OneChange(how) /\ ComposeHand(how)
      /\ MoveHand(how) /\ AdoptHand(how) /\ PassHand(how)
      /\ Numbered(how) /\ OfTheCluster(how) /\ DeletedBefore(how) /\ KeptOrOwed(how)
      /\ Accounted(how)
      /\ "compose" \in Gather(how)!Role /\ "move" \in Gather(how)!Role
      /\ "adopt" \in Gather(how)!Role /\ hand["move"] \in Gather(how)!Hand
      /\ hand \in [Gather(how)!Role -> Gather(how)!Hand]
  BY CcFacts DEF CcInv, CcRest, CcTyped, Gather!Role
<1>1. /\ pass.pc = "idle" /\ pass' = pass /\ \A q \in Gather(how)!Role : q # "move" =>
           hand[q].pc = "idle"
      /\ UNCHANGED <<member, project, placement, harbor, queue, nextId, torn, claimed>>
      /\ hand' = [hand EXCEPT !["move"] = hand'["move"]]
  <2>1. CASE \E g \in Gather(how)!Gen, c \in Cluster : Gather(how)!Move(g, c)
    BY <1>0, <2>1 DEF Gather!Move, Gather!Ask, Gather!Starts, Gather!Busy
  <2>2. CASE Gather(how)!MoveInspected
    <3>1. hand["move"].pc # "idle"
      BY <2>2 DEF Gather!MoveInspected, Gather!Step
    <3> QED
      BY <1>0, <2>2, <3>1, AloneIs DEF Gather!MoveInspected, Gather!Answer
  <2> QED
    BY <2>1, <2>2
<1>2. /\ OneChange(how)' /\ PassHand(how)' /\ ComposeHand(how)' /\ AdoptHand(how)'
      /\ hand["compose"].pc = "idle" /\ hand'["compose"].pc = "idle"
  <2> DEFINE new == hand'["move"]
  <2>1. hand' = [hand EXCEPT !["move"] = new]
    BY <1>1
  <2> HIDE DEF new
  <2> QED
    BY <1>0, <1>1, <2>1, MoverMoves
<1>3. ASSUME NEW g \in Gather(how)!Gen, NEW c \in Cluster, Gather(how)!Move(g, c) PROVE CcRest(how)'
  <2>1. /\ hand'["move"].pc = "inspect" /\ hand'["move"].gen = g /\ hand'["move"].from = project[g]
        /\ hand'["move"].to = c /\ hand'["move"].todo = {} /\ hand'["move"].failed = {}
        /\ hand["move"].pc = "idle" /\ project[g] \notin {None, c} /\ Gather(how)!RowsOf(c) = {}
    BY <1>0, <1>3 DEF Gather!Move, Gather!Ask, Gather!Starts, Gather!Busy, Gather!IdleHand
  <2>2. project[g] \in Cluster /\ Gather(how)!RowsOf(c)' = {}
    BY <1>0, <1>1, <2>1, CcFacts DEF Gather!RowsOf, Gather!Gen
  <2>3. MoveHand(how)'
    BY <1>1, <2>1, <2>2 DEF MoveHand
  <2>4. /\ Numbered(how)' /\ OfTheCluster(how)' /\ DeletedBefore(how)' /\ KeptOrOwed(how)'
        /\ Accounted(how)'
    BY <1>0, <1>1, <1>2, <2>1, NothingWritten
  <2> QED
    BY <1>2, <2>3, <2>4 DEF CcRest
<1>4. CASE Gather(how)!MoveInspected /\ hand' = [hand EXCEPT !["move"] = Gather(how)!IdleHand]
  <2>1. hand'["move"].pc = "idle" /\ hand["move"].pc = "inspect"
    BY <1>0, <1>4, IdleHandIs DEF Gather!MoveInspected, Gather!Step
  <2>2. MoveHand(how)'
    BY <2>1 DEF MoveHand
  <2>3. /\ Numbered(how)' /\ OfTheCluster(how)' /\ DeletedBefore(how)' /\ KeptOrOwed(how)'
        /\ Accounted(how)'
    BY <1>0, <1>1, <1>2, <2>1, NothingWritten
  <2> QED
    BY <1>2, <2>2, <2>3 DEF CcRest
<1>5. CASE Gather(how)!MoveInspected /\ hand' # [hand EXCEPT !["move"] = Gather(how)!IdleHand]
  <2>0. PICK g, c : g = hand["move"].gen /\ c = hand["move"].to
    OBVIOUS
  <2>1. /\ hand'["move"].pc = "remove" /\ hand'["move"].gen = g
        /\ hand'["move"].from = hand["move"].from
        /\ hand'["move"].to = hand["move"].to /\ hand'["move"].todo = Gather(how)!Known(g)
        /\ hand'["move"].failed = hand["move"].failed /\ hand["move"].pc = "inspect"
    BY <1>0, <1>5, <2>0 DEF Gather!MoveInspected, Gather!Step, Gather!Answer, Gather!Hand
  <2>2. /\ g \in Gather(how)!Gen /\ hand["move"].from \in Cluster /\ hand["move"].to \in Cluster
        /\ hand["move"].from # hand["move"].to /\ project[g] = hand["move"].from
        /\ Gather(how)!RowsOf(hand["move"].to) = {}
        /\ hand["move"].failed = {}
    BY <1>0, <2>0, <2>1 DEF MoveHand
  <2>3. Gather(how)!RowsOf(c)' = {} /\ Gather(how)!Known(g)' = Gather(how)!Known(g)
    BY <1>1, <2>0, <2>1, <2>2 DEF Gather!RowsOf, Gather!Gen, Gather!Known
  <2>4. \A h \in Harbor : placement[g][h] # 0 => <<h, placement[g][h]>> \in Gather(how)!Known(g)
    BY DEF Gather!Known
  <2>5. MoveHand(how)'
    BY <1>1, <2>0, <2>1, <2>2, <2>3, <2>4 DEF MoveHand
  <2>6. Numbered(how)' /\ OfTheCluster(how)'
    BY <1>0, <1>1, DataKept
  <2>7. /\ ~AtWork(how, "move", {"clear"}) /\ ~AtWork(how, "move", {"owe"})
        /\ ~AtWork(how, "move", {"owe"})'
        /\ \A f : Loose(how, f) <=> f \in torn
        /\ \A f : f \in torn => Loose(how, f)'
        /\ \A f, h : Uprooted(how, f, h) => Uprooted(how, f, h)'
    BY <1>1, <2>1 DEF AtWork, Loose, Uprooted
  <2>8. DeletedBefore(how)'
    <3>1. ~(hand["move"].pc = "clear")
      BY <2>1
    <3> QED
      BY <1>0, <1>1, <2>7, <3>1 DEF DeletedBefore, Gather!Gen
  <2>9. KeptOrOwed(how)'
    <3>1. ASSUME NEW f \in Gather(how)!Gen, NEW x \in Harbor, Concerns(how, f, x)'
          PROVE  Gather(how)!Holds(f, x)' \/ Gather(how)!Owes(x, "PROJECT_CREATE", f)' \/ Between(how, f, x)'
      <4>1. Concerns(how, f, x)
        BY <1>1, <2>7, <3>1 DEF Concerns
      <4> QED
        BY <1>0, <1>1, <1>2, <2>7, <4>1, Uncomposed
           DEF KeptOrOwed, Between, Gather!Holds, Gather!Owes
    <3> QED
      BY <3>1 DEF KeptOrOwed, Gather!Gen
  <2>10. Accounted(how)'
    BY <1>0, <1>1, <1>2, Uncomposed DEF Accounted, Gather!Owes, Gather!Gen
  <2> QED
    BY <1>2, <2>5, <2>6, <2>8, <2>9, <2>10 DEF CcRest
<1> QED
  BY <1>3, <1>4, <1>5

\* Removing a project's old copies takes nothing from any other, and what could not be removed is owed.
LEMMA MoveRemoves ==
  ASSUME NEW how, CcSorts(how), how.apart, CcInv(how), CcTyped(how)', NEW h, NEW id,
         Gather(how)!MoveRemoved(h, id) \/ Gather(how)!MoveRefused(h, id) \/ Gather(how)!MoveFailed(h, id) \/ Gather(how)!MoveOweRemoval(h, id)
  PROVE  CcRest(how)'
<1>0. /\ CcTyped(how) /\ Gather(how)!TypeOK /\ OneName(how) /\ OneChange(how) /\ ComposeHand(how)
      /\ MoveHand(how) /\ AdoptHand(how) /\ PassHand(how)
      /\ Numbered(how) /\ OfTheCluster(how) /\ DeletedBefore(how) /\ KeptOrOwed(how)
      /\ Accounted(how)
      /\ "compose" \in Gather(how)!Role /\ "move" \in Gather(how)!Role
      /\ "adopt" \in Gather(how)!Role /\ hand["move"] \in Gather(how)!Hand
      /\ hand \in [Gather(how)!Role -> Gather(how)!Hand]
  BY CcFacts DEF CcInv, CcRest, CcTyped, Gather!Role
<1>1. /\ pass.pc = "idle" /\ pass' = pass /\ \A q \in Gather(how)!Role : q # "move" =>
           hand[q].pc = "idle"
      /\ UNCHANGED <<member, project, placement, torn, claimed>>
      /\ hand' = [hand EXCEPT !["move"] = hand'["move"]]
  <2>1. hand["move"].pc # "idle"
    BY DEF Gather!MoveRemoved, Gather!MoveRefused, Gather!MoveFailed, Gather!MoveOweRemoval,
       Gather!Step
  <2> QED
    BY <1>0, <2>1, AloneIs
       DEF Gather!MoveRemoved, Gather!MoveRefused, Gather!MoveFailed, Gather!MoveOweRemoval
<1>2. /\ OneChange(how)' /\ PassHand(how)' /\ ComposeHand(how)' /\ AdoptHand(how)'
      /\ hand["compose"].pc = "idle" /\ hand'["compose"].pc = "idle"
  <2> DEFINE new == hand'["move"]
  <2>1. hand' = [hand EXCEPT !["move"] = new]
    BY <1>1
  <2> HIDE DEF new
  <2> QED
    BY <1>0, <1>1, <2>1, MoverMoves
<1>3. PICK g, c : g = hand["move"].gen /\ c = hand["move"].to
  OBVIOUS
\* The pair that is called, and what the step leaves of the others.
<1>4. /\ hand["move"].pc = "remove" /\ hand'["move"].pc = "remove" /\ hand'["move"].gen = g
      /\ hand'["move"].from = hand["move"].from /\ hand'["move"].to = hand["move"].to
      /\ <<h, id>> \in hand["move"].todo \union hand["move"].failed
      /\ hand'["move"].todo \union hand'["move"].failed \subseteq hand["move"].todo \union hand["move"].failed
      /\ (hand["move"].todo \union hand["move"].failed) \ {<<h, id>>} \subseteq hand'["move"].todo \union hand'["move"].failed
  <2>1. CASE Gather(how)!MoveRemoved(h, id) \/ Gather(how)!MoveRefused(h, id)
    <3>1. /\ hand["move"].pc = "remove" /\ hand'["move"].pc = "remove" /\ hand'["move"].gen = g
          /\ hand'["move"].from = hand["move"].from /\ hand'["move"].to = hand["move"].to
          /\ <<h, id>> \in hand["move"].todo /\ hand'["move"].failed = hand["move"].failed
          /\ hand'["move"].todo = hand["move"].todo \ {<<h, id>>}
      BY <1>0, <1>3, <2>1 DEF Gather!MoveRemoved, Gather!MoveRefused, Gather!Step, Gather!Hand
    <3> QED
      BY <3>1
  <2>2. CASE Gather(how)!MoveFailed(h, id)
    <3>1. /\ hand["move"].pc = "remove" /\ hand'["move"].pc = "remove" /\ hand'["move"].gen = g
          /\ hand'["move"].from = hand["move"].from /\ hand'["move"].to = hand["move"].to
          /\ <<h, id>> \in hand["move"].todo
          /\ hand'["move"].failed = hand["move"].failed \union {<<h, id>>}
          /\ hand'["move"].todo = hand["move"].todo \ {<<h, id>>}
      BY <1>0, <1>3, <2>2 DEF Gather!MoveFailed, Gather!Step, Gather!Hand
    <3> QED
      BY <3>1
  <2>3. CASE Gather(how)!MoveOweRemoval(h, id)
    <3>1. /\ hand["move"].pc = "remove" /\ hand'["move"].pc = "remove" /\ hand'["move"].gen = g
          /\ hand'["move"].from = hand["move"].from /\ hand'["move"].to = hand["move"].to
          /\ <<h, id>> \in hand["move"].failed
          /\ hand'["move"].failed = hand["move"].failed \ {<<h, id>>}
          /\ hand'["move"].todo = hand["move"].todo
      BY <1>0, <1>3, <2>3 DEF Gather!MoveOweRemoval, Gather!Step, Gather!Hand
    <3> QED
      BY <3>1
  <2> QED
    BY <2>1, <2>2, <2>3
<1>5. /\ g \in Gather(how)!Gen /\ hand["move"].from \in Cluster /\ hand["move"].to \in Cluster
      /\ hand["move"].from # hand["move"].to /\ project[g] = hand["move"].from
      /\ Gather(how)!RowsOf(hand["move"].to) = {}
      /\ hand["move"].todo \subseteq Gather(how)!Known(g)
      /\ hand["move"].failed \subseteq Gather(how)!Known(g)
      /\ \A x \in Harbor : placement[g][x] # 0 =>
           <<x, placement[g][x]>> \in hand["move"].todo \union hand["move"].failed \/ Spare(how, x, placement[g][x])
  BY <1>0, <1>3, <1>4 DEF MoveHand
<1>6. /\ h \in Harbor /\ id = placement[g][h] /\ id # 0 /\ id \in Nat /\ member[h] = project[g]
      /\ project[g] # None
  <2>1. <<h, id>> \in Gather(how)!Known(g)
    BY <1>4, <1>5
  <2>2. h \in Harbor /\ id = placement[g][h] /\ id # 0
    BY <2>1 DEF Gather!Known
  <2> QED
    BY <1>0, <1>5, <2>2, CcFacts DEF OfTheCluster
\* No other project is placed there.
<1>7. \A f \in Gather(how)!Gen : placement[f][h] # 0 => f = g
  BY <1>0, <1>5, <1>6 DEF OfTheCluster, OneName
\* What the step does to the Harbor and to the queue.
<1>8. /\ \A x \in Harbor : x # h => harbor'[x] = harbor[x]
      /\ \A x \in Harbor : harbor'[x].id = harbor[x].id
      /\ harbor'[h].there => harbor[h].there /\ harbor'[h].ours = harbor[h].ours
      /\ harbor'[h].ours => harbor'[h].there
      /\ ~harbor'[h].there => id = harbor[h].id \/ ~harbor[h].there
      /\ harbor[h].told /\ harbor'[h].there => harbor'[h].told
      /\ \A op \in queue : op \in queue' \/ (op.registry = h /\ op.kind = "PROJECT_CREATE" /\ op.key = g)
      /\ \A op \in queue' : op \in queue \/
           /\ op.id = nextId /\ nextId' = nextId + 1 /\ op.registry = h
           /\ op.kind = "PROJECT_DELETE" /\ op.key = id
           /\ op = Gather(how)!Row(nextId, h, "PROJECT_DELETE", id)
      /\ nextId' = nextId \/ nextId' = nextId + 1
      /\ \/ ~(harbor'[h].there /\ harbor'[h].id = id) \/ harbor'[h].told
         \/ \E op \in queue' : op.registry = h /\ op.kind = "PROJECT_DELETE" /\ op.key = id
         \/ <<h, id>> \in hand'["move"].todo \union hand'["move"].failed
  <2>0. harbor[h] \in Gather(how)!HarborProject /\ harbor \in [Harbor -> Gather(how)!HarborProject] /\ (harbor[h].ours => harbor[h].there)
    BY <1>0, <1>6, CcFacts DEF Gather!TypeOK, Numbered
  <2>1. CASE Gather(how)!MoveRemoved(h, id)
    <3>1. harbor' = [harbor EXCEPT ![h] = Gather(how)!Deleted(h, id)] /\ UNCHANGED <<queue, nextId>>
      BY <2>1 DEF Gather!MoveRemoved
    <3>2. CASE harbor[h].there /\ harbor[h].id = id
      <4>1. /\ Gather(how)!Deleted(h, id).id = id /\ Gather(how)!Deleted(h, id).there = FALSE
            /\ Gather(how)!Deleted(h, id).ours = FALSE
        BY <3>2 DEF Gather!Deleted, Gather!NoProject
      <4> QED
        BY <1>6, <2>0, <3>1, <3>2, <4>1
    <3>3. CASE ~(harbor[h].there /\ harbor[h].id = id)
      <4>1. harbor' = harbor
        BY <2>0, <3>1, <3>3 DEF Gather!Deleted
      <4> QED
        BY <2>0, <3>1, <3>3, <4>1
    <3> QED
      BY <3>2, <3>3
  <2>2. CASE Gather(how)!MoveRefused(h, id)
    <3>1. /\ harbor' = [harbor EXCEPT ![h] = [harbor[h] EXCEPT !.told = TRUE]]
          /\ UNCHANGED <<queue, nextId>>
      BY <1>6, <2>0, <2>2 DEF Gather!MoveRefused
    <3>2. /\ harbor'[h].told /\ harbor'[h].id = harbor[h].id /\ harbor'[h].there = harbor[h].there
          /\ harbor'[h].ours = harbor[h].ours /\ \A x \in Harbor : x # h => harbor'[x] = harbor[x]
      BY <1>6, <2>0, <3>1 DEF Gather!HarborProject
    <3> QED
      BY <2>0, <3>1, <3>2
  <2>3. CASE Gather(how)!MoveFailed(h, id)
    <3>1. harbor' = harbor /\ UNCHANGED <<queue, nextId>>
      BY <2>3 DEF Gather!MoveFailed
    <3>2. <<h, id>> \in hand'["move"].failed
      BY <1>0, <2>3 DEF Gather!MoveFailed, Gather!Hand
    <3> QED
      BY <2>0, <3>1, <3>2
  <2>4. CASE Gather(how)!MoveOweRemoval(h, id)
    <3> DEFINE new == Gather(how)!Row(nextId, h, "PROJECT_DELETE", id)
    <3>1. /\ harbor' = harbor /\ nextId' = nextId + 1
          /\ queue' = (queue \ Gather(how)!Subject(queue, h, {"PROJECT_CREATE"}, g)) \union {new}
      BY <1>3, <2>4 DEF Gather!MoveOweRemoval
    <3>2. new.id = nextId /\ new.registry = h /\ new.kind = "PROJECT_DELETE" /\ new.key = id
      BY DEF Gather!Row
    <3>3. \A op \in Gather(how)!Subject(queue, h, {"PROJECT_CREATE"}, g) : op.registry = h /\ op.kind = "PROJECT_CREATE" /\ op.key = g
      BY DEF Gather!Subject
    <3>4. new \in queue' /\ \A op \in queue' : op \in queue \/ op = new
      BY <3>1
    <3>5. \A op \in queue : op \in queue' \/ op \in Gather(how)!Subject(queue, h, {"PROJECT_CREATE"}, g)
      BY <3>1
    <3> HIDE DEF new
    <3>6. \A op \in queue' : op \in queue \/
           /\ op.id = nextId /\ nextId' = nextId + 1 /\ op.registry = h
           /\ op.kind = "PROJECT_DELETE" /\ op.key = id
           /\ op = Gather(how)!Row(nextId, h, "PROJECT_DELETE", id)
      BY <3>1, <3>2, <3>4 DEF new
    <3> QED
      BY <2>0, <3>1, <3>2, <3>3, <3>4, <3>5, <3>6
  <2> QED
    BY <2>1, <2>2, <2>3, <2>4
<1>9. MoveHand(how)'
  <2>1. Gather(how)!RowsOf(c)' = {} /\ Gather(how)!Known(g)' = Gather(how)!Known(g)
    BY <1>1, <1>3, <1>5 DEF Gather!RowsOf, Gather!Gen, Gather!Known
  <2>2. ASSUME NEW x \in Harbor, placement[g][x] # 0
        PROVE  <<x, placement[g][x]>> \in hand'["move"].todo \union hand'["move"].failed \/ Spare(how, x, placement[g][x])'
    <3>1. CASE x = h
      BY <1>1, <1>6, <1>8, <3>1, OwesIs DEF Spare
    <3>2. CASE x # h
      <4>1. <<x, placement[g][x]>> \in hand["move"].todo \union hand["move"].failed =>
              <<x, placement[g][x]>> \in hand'["move"].todo \union hand'["move"].failed
        BY <1>4, <3>2
      <4>2. Spare(how, x, placement[g][x]) => Spare(how, x, placement[g][x])'
        BY <1>1, <1>8, <3>2, OwesIs DEF Spare
      <4> QED
        BY <1>5, <2>2, <4>1, <4>2
    <3> QED
      BY <3>1, <3>2
  <2>3. /\ hand'["move"].todo \subseteq Gather(how)!Known(g)
        /\ hand'["move"].failed \subseteq Gather(how)!Known(g)
    BY <1>4, <1>5
  <2> QED
    BY <1>1, <1>3, <1>4, <1>5, <2>1, <2>2, <2>3 DEF MoveHand
<1>10. Numbered(how)'
  <2>1. id <= harbor[h].id
    BY <1>0, <1>5, <1>6 DEF Numbered
  <2> QED
    BY <1>0, <1>1, <1>6, <1>8, <2>1, CcFacts DEF Numbered, Gather!Gen
<1>11. OfTheCluster(how)'
  BY <1>0, <1>1, <1>6, <1>8 DEF OfTheCluster, Gather!Gen
<1>12. /\ \A f : Loose(how, f)' <=> Loose(how, f)
       /\ Loose(how, g) /\ ~AtWork(how, "move", {"clear"}) /\ ~AtWork(how, "move", {"owe"})
       /\ ~AtWork(how, "move", {"owe"})'
       /\ \A f, x : Uprooted(how, f, x) => Uprooted(how, f, x)'
       /\ \A x : Uprooted(how, g, x)'
  BY <1>1, <1>3, <1>4 DEF Loose, AtWork, Uprooted
<1>13. DeletedBefore(how)'
  <2>1. ASSUME NEW op \in queue', NEW f \in Gather(how)!Gen, op.kind = "PROJECT_DELETE",
               harbor'[op.registry].there /\ harbor'[op.registry].id = op.key, placement[f][op.registry] = op.key
        PROVE  Loose(how, f)
    <3>1. CASE op \in queue
      <4>1. op.registry \in Harbor
        BY <1>0, <3>1, CcFacts
      <4>2. harbor[op.registry].there /\ harbor[op.registry].id = op.key
        BY <1>8, <2>1, <4>1
      <4> QED
        BY <1>0, <1>4, <2>1, <3>1, <4>2 DEF DeletedBefore
    <3>2. CASE op \notin queue
      BY <1>6, <1>7, <1>8, <1>12, <2>1, <3>2
    <3> QED
      BY <3>1, <3>2
  <2>2. ASSUME NEW op \in queue', NEW other \in queue', op.kind = "PROJECT_DELETE", other.kind = "PROJECT_CREATE",
               op.registry = other.registry, harbor'[op.registry].there /\ harbor'[op.registry].id = op.key
        PROVE  op.id < other.id \/ Loose(how, other.key)
    <3>0. other \in queue
      BY <1>8, <2>2
    <3>1. CASE op \in queue
      <4>1. op.registry \in Harbor
        BY <1>0, <3>1, CcFacts
      <4>2. harbor[op.registry].there /\ harbor[op.registry].id = op.key
        BY <1>8, <2>2, <4>1
      <4> QED
        BY <1>0, <2>2, <3>0, <3>1, <4>2 DEF DeletedBefore
    <3>2. CASE op \notin queue
      <4>1. op.registry = h
        BY <1>8, <3>2
      <4>2. other.key \in Gather(how)!Gen /\ project[other.key] = member[h]
        BY <1>0, <2>2, <3>0, <4>1 DEF OfTheCluster
      <4>3. other.key = g
        BY <1>0, <1>5, <1>6, <4>2 DEF OneName
      <4> QED
        BY <1>12, <4>3
    <3> QED
      BY <3>1, <3>2
  <2> QED
    BY <1>1, <1>12, <2>1, <2>2 DEF DeletedBefore, Gather!Gen
<1>14. KeptOrOwed(how)'
  <2>1. ASSUME NEW f \in Gather(how)!Gen, NEW x \in Harbor, Concerns(how, f, x)', f # g
        PROVE  Gather(how)!Holds(f, x)' \/ Gather(how)!Owes(x, "PROJECT_CREATE", f)' \/ Between(how, f, x)'
    <3>1. Concerns(how, f, x)
      BY <1>1, <1>12, <2>1 DEF Concerns
    <3>2. Gather(how)!Holds(f, x) => Gather(how)!Holds(f, x)'
      <4>1. CASE x = h
        \* Nothing of f is placed there, so what f holds there is not it.
        BY <1>0, <1>1, <1>7, <2>1, <4>1 DEF Gather!Holds, Numbered
      <4>2. CASE x # h
        BY <1>1, <1>8, <4>2 DEF Gather!Holds
      <4> QED
        BY <4>1, <4>2
    <3>3. Gather(how)!Owes(x, "PROJECT_CREATE", f) => Gather(how)!Owes(x, "PROJECT_CREATE", f)'
      BY <1>8, <2>1, OwesIs
    <3>4. Between(how, f, x) => Between(how, f, x)'
      BY <1>1, <1>2, <1>12, Uncomposed DEF Between
    <3> QED
      BY <1>0, <3>1, <3>2, <3>3, <3>4 DEF KeptOrOwed
  <2>2. \A x \in Harbor : Between(how, g, x)'
    BY <1>12 DEF Between
  <2> QED
    BY <2>1, <2>2 DEF KeptOrOwed, Gather!Gen
<1>15. Accounted(how)'
  <2>1. ASSUME NEW x \in Harbor, harbor'[x].ours, NEW key, key = harbor[x].id
        PROVE  \/ \E f \in Gather(how)!Gen : placement[f][x] = key
               \/ Gather(how)!Owes(x, "PROJECT_DELETE", key)' \/ harbor'[x].told \/ x \in torn
    <3>1. harbor[x].ours /\ (harbor[x].told => harbor'[x].told)
      BY <1>8, <2>1
    <3>2. Gather(how)!Owes(x, "PROJECT_DELETE", key) => Gather(how)!Owes(x, "PROJECT_DELETE", key)'
      BY <1>8, OwesIs
    <3>3. \/ \E f \in Gather(how)!Gen : placement[f][x] = key
          \/ Gather(how)!Owes(x, "PROJECT_DELETE", key) \/ harbor[x].told \/ x \in torn
      BY <1>0, <1>2, <2>1, <3>1, Uncomposed DEF Accounted
    <3> QED
      BY <3>1, <3>2, <3>3
  <2> QED
    BY <1>1, <1>8, <2>1, OwesIs DEF Accounted, Gather!Gen
<1> QED
  BY <1>2, <1>9, <1>10, <1>11, <1>13, <1>14, <1>15 DEF CcRest

\* What is forgotten of a project that moves is owed to nobody, and what is recorded of it is nowhere.
LEMMA MoveTurns ==
  ASSUME NEW how, CcSorts(how), how.apart, CcInv(how), CcTyped(how)',
         Gather(how)!MoveForget \/ Gather(how)!MoveUnplace \/ Gather(how)!MoveRow
  PROVE  CcRest(how)'
<1>0. /\ CcTyped(how) /\ Gather(how)!TypeOK /\ OneName(how) /\ OneChange(how) /\ ComposeHand(how)
      /\ MoveHand(how) /\ AdoptHand(how) /\ PassHand(how)
      /\ Numbered(how) /\ OfTheCluster(how) /\ DeletedBefore(how) /\ KeptOrOwed(how)
      /\ Accounted(how)
      /\ "compose" \in Gather(how)!Role /\ "move" \in Gather(how)!Role
      /\ "adopt" \in Gather(how)!Role /\ hand["move"] \in Gather(how)!Hand
      /\ hand \in [Gather(how)!Role -> Gather(how)!Hand] /\ hand["move"].pc # "idle"
  BY CcFacts
     DEF CcInv, CcRest, CcTyped, Gather!Role, Gather!MoveForget, Gather!MoveUnplace, Gather!MoveRow,
         Gather!Step
<1>g. PICK g, b, c : g = hand["move"].gen /\ b = hand["move"].from /\ c = hand["move"].to
  OBVIOUS
<1>w. /\ g \in Gather(how)!Gen /\ b \in Cluster /\ c \in Cluster /\ b # c /\ project[g] = b
      /\ Gather(how)!RowsOf(c) = {} /\ c # None
  BY <1>0, <1>g, CcFacts
     DEF Gather!MoveForget, Gather!MoveUnplace, Gather!MoveRow, Gather!Step, MoveHand
<1>1. /\ pass.pc = "idle" /\ pass' = pass /\ \A q \in Gather(how)!Role : q # "move" =>
           hand[q].pc = "idle"
      /\ UNCHANGED <<member, harbor, nextId, torn, claimed>>
      /\ hand' = [hand EXCEPT !["move"] = hand'["move"]]
      /\ hand'["move"].gen = g /\ hand'["move"].from = b /\ hand'["move"].to = c
      /\ hand'["move"].todo = hand["move"].todo
  <2>1. pass.pc = "idle" /\ \A q \in Gather(how)!Role : q # "move" => hand[q].pc = "idle"
    BY <1>0, AloneIs
  <2>2. Gather(how)!MoveRow => project' = [project EXCEPT ![g] = c] /\ hand' = [hand EXCEPT !["move"].pc = "targets"] /\ torn' = torn
    BY <1>g, <1>w DEF Gather!MoveRow
  <2> QED
    BY <1>0, <1>g, <2>1, <2>2 DEF Gather!MoveForget, Gather!MoveUnplace, Gather!MoveRow, Gather!Hand
<1>2. /\ OneChange(how)' /\ PassHand(how)' /\ ComposeHand(how)' /\ AdoptHand(how)'
      /\ hand["compose"].pc = "idle" /\ hand'["compose"].pc = "idle"
  <2> DEFINE new == hand'["move"]
  <2>1. hand' = [hand EXCEPT !["move"] = new]
    BY <1>1
  <2> HIDE DEF new
  <2> QED
    BY <1>0, <1>1, <2>1, MoverMoves
<1>3. CASE Gather(how)!MoveForget
  <2>1. /\ hand["move"].pc = "remove" /\ hand["move"].todo = {} /\ hand["move"].failed = {}
        /\ hand'["move"].pc = "clear" /\ UNCHANGED <<project, placement>>
        /\ queue' = {op \in queue : ~(op.kind = "PROJECT_CREATE" /\ op.key = g)}
    BY <1>0, <1>3, <1>g DEF Gather!MoveForget, Gather!Step, Gather!Hand
  <2>2. \A x \in Harbor : placement[g][x] # 0 => Spare(how, x, placement[g][x])
    BY <1>0, <1>g, <2>1 DEF MoveHand
  <2>3. /\ \A op \in queue' : op \in queue /\ ~(op.kind = "PROJECT_CREATE" /\ op.key = g)
        /\ \A op \in queue : ~(op.kind = "PROJECT_CREATE" /\ op.key = g) => op \in queue'
    BY <2>1
  <2>4. MoveHand(how)'
    <3>1. Gather(how)!RowsOf(c)' = {} /\ project'[g] = b
      BY <1>w, <2>1 DEF Gather!RowsOf, Gather!Gen
    <3>2. ASSUME NEW x \in Harbor, placement[g][x] # 0 PROVE Spare(how, x, placement[g][x])'
      BY <1>1, <2>1, <2>2, <2>3, <3>2, OwesIs DEF Spare
    <3> QED
      BY <1>1, <1>w, <2>1, <2>3, <3>1, <3>2 DEF MoveHand
  <2>5. Numbered(how)'
    BY <1>0, <1>1, <2>1, <2>3 DEF Numbered, Gather!Gen
  <2>6. OfTheCluster(how)'
    BY <1>0, <1>1, <2>1, <2>3 DEF OfTheCluster, Gather!Gen
  <2>7. /\ \A f : Loose(how, f) /\ f # g => Loose(how, f)'
        /\ ~AtWork(how, "move", {"clear"}) /\ ~AtWork(how, "move", {"owe"})
        /\ ~AtWork(how, "move", {"owe"})'
        /\ hand["move"].pc # "clear" /\ hand'["move"].pc = "clear" /\ hand'["move"].gen = g
        /\ \A f, x : f # g /\ Uprooted(how, f, x) => Uprooted(how, f, x)'
        /\ \A x : Uprooted(how, g, x)'
    BY <1>1, <1>g, <2>1 DEF Loose, AtWork, Uprooted
  <2>8. DeletedBefore(how)'
    BY <1>0, <1>1, <2>1, <2>3, <2>7 DEF DeletedBefore, Gather!Gen
  <2>9. KeptOrOwed(how)'
    <3>1. ASSUME NEW f \in Gather(how)!Gen, NEW x \in Harbor, Concerns(how, f, x)', f # g
          PROVE  Gather(how)!Holds(f, x)' \/ Gather(how)!Owes(x, "PROJECT_CREATE", f)' \/ Between(how, f, x)'
      <4>1. Concerns(how, f, x)
        BY <1>1, <2>1, <2>7, <3>1 DEF Concerns
      <4>2. Gather(how)!Owes(x, "PROJECT_CREATE", f) => Gather(how)!Owes(x, "PROJECT_CREATE", f)'
        BY <2>3, <3>1, OwesIs
      <4>3. Between(how, f, x) => Between(how, f, x)'
        BY <1>1, <1>2, <2>7, <3>1, Uncomposed DEF Between
      <4> QED
        BY <1>0, <1>1, <2>1, <4>1, <4>2, <4>3 DEF KeptOrOwed, Gather!Holds
    <3>2. \A x \in Harbor : Between(how, g, x)'
      BY <2>7 DEF Between
    <3> QED
      BY <3>1, <3>2 DEF KeptOrOwed, Gather!Gen
  <2>10. Accounted(how)'
    <3>1. \A x, key : Gather(how)!Owes(x, "PROJECT_DELETE", key) =>
                        Gather(how)!Owes(x, "PROJECT_DELETE", key)'
      BY <2>3, OwesIs
    <3> QED
      BY <1>0, <1>1, <1>2, <2>1, <3>1, Uncomposed DEF Accounted, Gather!Gen
  <2> QED
    BY <1>2, <2>4, <2>5, <2>6, <2>8, <2>9, <2>10 DEF CcRest
<1>4. CASE Gather(how)!MoveUnplace
  <2>1. /\ hand["move"].pc = "clear" /\ hand'["move"].pc = "row" /\ UNCHANGED <<project, queue>>
        /\ placement' = [placement EXCEPT ![g] = [x \in Harbor |-> IF x \in Gather(how)!Members(b) THEN 0 ELSE placement[g][x]]]
    BY <1>0, <1>4, <1>g, <1>w DEF Gather!MoveUnplace, Gather!Step, Gather!Hand, Gather!TypeOK
  <2>2. /\ \A x \in Harbor : placement[g][x] # 0 => Spare(how, x, placement[g][x])
        /\ \A op \in queue : ~(op.kind = "PROJECT_CREATE" /\ op.key = g)
    BY <1>0, <1>g, <2>1 DEF MoveHand
  <2>3. /\ \A x \in Harbor : placement'[g][x] = 0
        /\ \A f \in Gather(how)!Gen, x \in Harbor : f # g => placement'[f][x] = placement[f][x]
    <3>1. \A x \in Harbor : placement[g][x] # 0 => x \in Gather(how)!Members(b)
      BY <1>0, <1>w DEF OfTheCluster, Gather!Members
    <3> QED
      BY <1>0, <1>w, <2>1, <3>1 DEF Gather!TypeOK
  <2>4. MoveHand(how)'
    <3>1. Gather(how)!RowsOf(c)' = {} /\ project'[g] = b
      BY <1>w, <2>1 DEF Gather!RowsOf, Gather!Gen
    <3> QED
      BY <1>1, <1>w, <2>1, <2>2, <2>3, <3>1 DEF MoveHand
  <2>5. Numbered(how)'
    BY <1>0, <1>1, <2>1, <2>3, CcFacts DEF Numbered, Gather!Gen
  <2>6. OfTheCluster(how)'
    BY <1>0, <1>1, <2>1, <2>3 DEF OfTheCluster, Gather!Gen
  <2>7. /\ \A f : Loose(how, f) <=> Loose(how, f)'
        /\ ~AtWork(how, "move", {"owe"}) /\ ~AtWork(how, "move", {"owe"})' /\ hand["move"].gen = g
        /\ \A f, x : Uprooted(how, f, x) => Uprooted(how, f, x)'
        /\ \A x : Uprooted(how, g, x)'
    BY <1>1, <1>g, <2>1 DEF Loose, AtWork, Uprooted
  <2>8. DeletedBefore(how)'
    <3>1. \A op \in queue : op.registry \in Harbor
      BY <1>0, CcFacts
    <3>2. \A x \in Harbor : harbor[x].there => harbor[x].id # 0
      BY <1>0 DEF Numbered
    <3> QED
      BY <1>0, <1>1, <2>1, <2>3, <2>7, <3>1, <3>2 DEF DeletedBefore, Gather!Gen
  <2>9. KeptOrOwed(how)'
    <3>1. ASSUME NEW f \in Gather(how)!Gen, NEW x \in Harbor, Concerns(how, f, x)', f # g
          PROVE  Gather(how)!Holds(f, x)' \/ Gather(how)!Owes(x, "PROJECT_CREATE", f)' \/ Between(how, f, x)'
      <4>1. Concerns(how, f, x)
        BY <1>1, <2>1, <2>3, <2>7, <3>1 DEF Concerns
      <4>3. Between(how, f, x) => Between(how, f, x)'
        BY <1>1, <1>2, <2>7, Uncomposed DEF Between
      <4> QED
        BY <1>0, <1>1, <2>1, <2>3, <3>1, <4>1, <4>3 DEF KeptOrOwed, Gather!Holds, Gather!Owes
    <3>2. \A x \in Harbor : Between(how, g, x)'
      BY <2>7 DEF Between
    <3> QED
      BY <3>1, <3>2 DEF KeptOrOwed, Gather!Gen
  <2>10. Accounted(how)'
    <3>1. ASSUME NEW x \in Harbor, harbor[x].ours
          PROVE  \/ \E f \in Gather(how)!Gen : placement'[f][x] = harbor[x].id
                 \/ Gather(how)!Owes(x, "PROJECT_DELETE", harbor[x].id) \/ harbor[x].told \/ x \in torn
      <4>1. harbor[x].there /\ harbor[x].id # 0
        BY <1>0, <3>1 DEF Numbered
      <4>2. CASE placement[g][x] = harbor[x].id
        BY <2>2, <4>1, <4>2 DEF Spare
      <4>3. CASE placement[g][x] # harbor[x].id
        BY <1>0, <1>2, <2>3, <3>1, <4>3, Uncomposed DEF Accounted
      <4> QED
        BY <4>2, <4>3
    <3> QED
      BY <1>1, <2>1, <3>1 DEF Accounted, Gather!Owes, Gather!Gen
  <2> QED
    BY <1>2, <2>4, <2>5, <2>6, <2>8, <2>9, <2>10 DEF CcRest
<1>5. CASE Gather(how)!MoveRow
  <2>1. /\ hand["move"].pc = "row" /\ hand'["move"].pc = "targets" /\ UNCHANGED <<placement, queue>>
        /\ project' = [project EXCEPT ![g] = c]
    BY <1>0, <1>5, <1>g, <1>w DEF Gather!MoveRow, Gather!Step, Gather!Hand
  <2>2. /\ \A x \in Harbor : placement[g][x] = 0
        /\ \A op \in queue : ~(op.kind = "PROJECT_CREATE" /\ op.key = g)
    BY <1>0, <1>g, <2>1 DEF MoveHand
  <2>3. project'[g] = c /\ \A f \in Gather(how)!Gen : f # g => project'[f] = project[f]
    BY <1>0, <1>w, <2>1 DEF Gather!TypeOK
  <2>4. MoveHand(how)'
    BY <1>1, <1>w, <2>1, <2>2, <2>3 DEF MoveHand
  <2>5. Numbered(how)'
    BY <1>0, <1>1, <2>1 DEF Numbered, Gather!Gen
  <2>6. OfTheCluster(how)'
    BY <1>0, <1>1, <2>1, <2>2, <2>3 DEF OfTheCluster, Gather!Gen
  <2>7. /\ \A f : Loose(how, f) <=> Loose(how, f)'
        /\ hand["move"].pc # "clear"
        /\ ~AtWork(how, "move", {"owe"}) /\ ~AtWork(how, "move", {"owe"})'
        /\ \A f, x : Uprooted(how, f, x) => Uprooted(how, f, x)'
        /\ \A x : Uprooted(how, g, x)'
    BY <1>1, <1>g, <2>1 DEF Loose, AtWork, Uprooted
  <2>8. DeletedBefore(how)'
    BY <1>0, <1>1, <2>1, <2>7 DEF DeletedBefore, Gather!Gen
  <2>9. KeptOrOwed(how)'
    <3>1. ASSUME NEW f \in Gather(how)!Gen, NEW x \in Harbor, Concerns(how, f, x)', f # g
          PROVE  Gather(how)!Holds(f, x)' \/ Gather(how)!Owes(x, "PROJECT_CREATE", f)' \/ Between(how, f, x)'
      <4>1. Concerns(how, f, x)
        BY <1>1, <2>1, <2>3, <2>7, <3>1 DEF Concerns
      <4>3. Between(how, f, x) => Between(how, f, x)'
        BY <1>1, <1>2, <2>7, Uncomposed DEF Between
      <4> QED
        BY <1>0, <1>1, <2>1, <4>1, <4>3 DEF KeptOrOwed, Gather!Holds, Gather!Owes
    <3>2. \A x \in Harbor : Between(how, g, x)'
      BY <2>7 DEF Between
    <3> QED
      BY <3>1, <3>2 DEF KeptOrOwed, Gather!Gen
  <2>10. Accounted(how)'
    BY <1>0, <1>1, <1>2, <2>1, Uncomposed DEF Accounted, Gather!Owes, Gather!Gen
  <2> QED
    BY <1>2, <2>4, <2>5, <2>6, <2>8, <2>9, <2>10 DEF CcRest
<1> QED
  BY <1>3, <1>4, <1>5

\* Every member of the new cluster is owed the project that came.
LEMMA MoveArrives ==
  ASSUME NEW how, CcSorts(how), how.apart, CcInv(how), CcTyped(how)',
         Gather(how)!MoveTargets \/ (\E h : Gather(how)!MoveOwe(h)) \/ Gather(how)!MoveDone
  PROVE  CcRest(how)'
<1>0. /\ CcTyped(how) /\ Gather(how)!TypeOK /\ OneName(how) /\ OneChange(how) /\ ComposeHand(how)
      /\ MoveHand(how) /\ AdoptHand(how) /\ PassHand(how)
      /\ Numbered(how) /\ OfTheCluster(how) /\ DeletedBefore(how) /\ KeptOrOwed(how)
      /\ Accounted(how)
      /\ "compose" \in Gather(how)!Role /\ "move" \in Gather(how)!Role
      /\ "adopt" \in Gather(how)!Role /\ hand["move"] \in Gather(how)!Hand
      /\ hand \in [Gather(how)!Role -> Gather(how)!Hand] /\ hand["move"].pc # "idle"
  BY CcFacts
     DEF CcInv, CcRest, CcTyped, Gather!Role, Gather!MoveTargets, Gather!MoveOwe, Gather!MoveDone,
         Gather!Step
<1>g. PICK g, b, c : g = hand["move"].gen /\ b = hand["move"].from /\ c = hand["move"].to
  OBVIOUS
<1>w. /\ g \in Gather(how)!Gen /\ b \in Cluster /\ c \in Cluster /\ b # c /\ project[g] = c
      /\ c # None
      /\ \A x \in Harbor : placement[g][x] = 0
  BY <1>0, <1>g, CcFacts
     DEF Gather!MoveTargets, Gather!MoveOwe, Gather!MoveDone, Gather!Step, MoveHand
<1>1. /\ pass.pc = "idle" /\ pass' = pass /\ \A q \in Gather(how)!Role : q # "move" =>
           hand[q].pc = "idle"
      /\ UNCHANGED <<member, project, placement, harbor>>
      /\ hand' = [hand EXCEPT !["move"] = hand'["move"]]
  BY <1>0, AloneIs DEF Gather!MoveTargets, Gather!MoveOwe, Gather!MoveDone, Gather!Answer
<1>2. /\ OneChange(how)' /\ PassHand(how)' /\ ComposeHand(how)' /\ AdoptHand(how)'
      /\ hand["compose"].pc = "idle" /\ hand'["compose"].pc = "idle"
  <2> DEFINE new == hand'["move"]
  <2>1. hand' = [hand EXCEPT !["move"] = new]
    BY <1>1
  <2> HIDE DEF new
  <2> QED
    BY <1>0, <1>1, <2>1, MoverMoves
<1>3. CASE Gather(how)!MoveTargets
  <2>1. /\ hand["move"].pc = "targets" /\ hand'["move"].pc = "owe"
        /\ UNCHANGED <<queue, nextId, torn, claimed>>
        /\ hand'["move"].gen = g /\ hand'["move"].from = b /\ hand'["move"].to = c
        /\ hand'["move"].todo = Gather(how)!Members(c) \X {0}
    BY <1>0, <1>3, <1>g DEF Gather!MoveTargets, Gather!Step, Gather!Hand
  <2>2. Gather(how)!Members(c)' = Gather(how)!Members(c) /\ \A x \in Harbor : member[x] = c =>
          <<x, 0>> \in hand'["move"].todo
    BY <1>1, <2>1 DEF Gather!Members
  <2>4. MoveHand(how)'
    BY <1>1, <1>w, <2>1, <2>2 DEF MoveHand
  <2>5. Numbered(how)' /\ OfTheCluster(how)'
    BY <1>0, <1>1, <2>1, DataKept
  <2>7. /\ \A f : Loose(how, f) <=> Loose(how, f)'
        /\ hand["move"].pc # "clear"
        /\ \A f, x : f # g /\ Uprooted(how, f, x) => Uprooted(how, f, x)'
        /\ \A x : <<x, 0>> \in hand'["move"].todo => Uprooted(how, g, x)'
    BY <1>1, <1>g, <2>1 DEF Loose, AtWork, Uprooted
  <2>8. DeletedBefore(how)'
    BY <1>0, <1>1, <2>1, <2>7 DEF DeletedBefore, Gather!Gen
  <2>9. KeptOrOwed(how)'
    <3>1. ASSUME NEW f \in Gather(how)!Gen, NEW x \in Harbor, Concerns(how, f, x)', f # g
          PROVE  Gather(how)!Holds(f, x)' \/ Gather(how)!Owes(x, "PROJECT_CREATE", f)' \/ Between(how, f, x)'
      <4>1. Concerns(how, f, x)
        BY <1>1, <2>1, <3>1 DEF Concerns
      <4>3. Between(how, f, x) => Between(how, f, x)'
        BY <1>1, <1>2, <2>1, <2>7, <3>1, Uncomposed DEF Between
      <4> QED
        BY <1>0, <1>1, <2>1, <4>1, <4>3 DEF KeptOrOwed, Gather!Holds, Gather!Owes
    <3>2. \A x \in Harbor : Concerns(how, g, x)' => Between(how, g, x)'
      BY <1>1, <1>w, <2>2, <2>7 DEF Between, Concerns
    <3> QED
      BY <3>1, <3>2 DEF KeptOrOwed, Gather!Gen
  <2>10. Accounted(how)'
    BY <1>0, <1>1, <1>2, <2>1, Uncomposed DEF Accounted, Gather!Owes, Gather!Gen
  <2> QED
    BY <1>2, <2>4, <2>5, <2>8, <2>9, <2>10 DEF CcRest
<1>4. ASSUME NEW h, Gather(how)!MoveOwe(h) PROVE CcRest(how)'
  <2>1. /\ hand["move"].pc = "owe" /\ hand'["move"].pc = "owe" /\ UNCHANGED <<torn, claimed>>
        /\ hand'["move"].gen = g /\ hand'["move"].from = b /\ hand'["move"].to = c
        /\ hand'["move"].todo = hand["move"].todo \ {<<h, 0>>} /\ Gather(how)!Owe(h, g)
        /\ <<h, 0>> \in hand["move"].todo
    BY <1>0, <1>4, <1>g DEF Gather!MoveOwe, Gather!Step, Gather!Hand
  <2>2. /\ hand["move"].todo \subseteq Gather(how)!Members(c) \X {0}
        /\ Gather(how)!Members(c)' = Gather(how)!Members(c)
        /\ h \in Harbor /\ member[h] = c
    <3>1. hand["move"].todo \subseteq Gather(how)!Members(c) \X {0}
      BY <1>0, <1>g, <2>1 DEF MoveHand
    <3> QED
      BY <1>1, <2>1, <3>1 DEF Gather!Members
  <2>3. /\ \E op \in queue' : op.registry = h /\ op.kind = "PROJECT_CREATE" /\ op.key = g
        /\ \A op \in queue : op \in queue'
        /\ \A op \in queue' : op \in queue \/
             (/\ op.id = nextId /\ nextId' = nextId + 1
              /\ op.registry = h /\ op.kind = "PROJECT_CREATE" /\ op.key = g
              /\ op = Gather(how)!Row(nextId, h, "PROJECT_CREATE", g))
        /\ nextId' = nextId \/ nextId' = nextId + 1
    BY <1>0, <1>w, <2>1, <2>2, OweAdds DEF Gather!Row
  <2>4. MoveHand(how)'
    BY <1>1, <1>w, <2>1, <2>2 DEF MoveHand
  <2>5. Numbered(how)'
    BY <1>0, <1>1, <2>1, <2>3, CcFacts DEF Numbered, Gather!Gen
  <2>6. OfTheCluster(how)'
    BY <1>0, <1>1, <1>w, <2>1, <2>2, <2>3 DEF OfTheCluster, Gather!Gen
  <2>7. /\ \A f : Loose(how, f) <=> Loose(how, f)'
        /\ hand["move"].pc # "clear"
        /\ \A f, x : Uprooted(how, f, x) /\ ~(f = g /\ x = h) => Uprooted(how, f, x)'
        /\ \A f : AtWork(how, "move", {"owe"})' /\ hand'["move"].gen = f <=> AtWork(how, "move", {"owe"}) /\ hand["move"].gen = f
    BY <1>1, <1>g, <2>1 DEF Loose, AtWork, Uprooted
  <2>8. DeletedBefore(how)'
    BY <1>0, <1>1, <2>3, <2>7, CcFacts DEF DeletedBefore, Gather!Gen, Numbered
  <2>9. KeptOrOwed(how)'
    <3>1. ASSUME NEW f \in Gather(how)!Gen, NEW x \in Harbor, Concerns(how, f, x)'
          PROVE  Gather(how)!Holds(f, x)' \/ Gather(how)!Owes(x, "PROJECT_CREATE", f)' \/ Between(how, f, x)'
      <4>1. Concerns(how, f, x)
        BY <1>1, <2>1, <2>7, <3>1 DEF Concerns
      <4>2. CASE Gather(how)!Owes(x, "PROJECT_CREATE", f) \/ (x = h /\ f = g)
        BY <2>3, <4>2, OwesIs
      <4>3. Between(how, f, x) /\ ~(x = h /\ f = g) => Between(how, f, x)'
        BY <1>1, <1>2, <2>1, <2>7, Uncomposed DEF Between
      <4> QED
        BY <1>0, <1>1, <2>1, <4>1, <4>2, <4>3 DEF KeptOrOwed, Gather!Holds
    <3> QED
      BY <3>1 DEF KeptOrOwed, Gather!Gen
  <2>10. Accounted(how)'
    <3>1. \A x, key : Gather(how)!Owes(x, "PROJECT_DELETE", key) =>
                        Gather(how)!Owes(x, "PROJECT_DELETE", key)'
      BY <2>3, OwesIs
    <3> QED
      BY <1>0, <1>1, <1>2, <2>1, <3>1, Uncomposed DEF Accounted, Gather!Gen
  <2> QED
    BY <1>2, <2>4, <2>5, <2>6, <2>8, <2>9, <2>10 DEF CcRest
<1>5. CASE Gather(how)!MoveDone
  <2>1. /\ hand["move"].pc = "owe" /\ hand'["move"].pc = "idle" /\ UNCHANGED <<queue, nextId>>
        /\ hand["move"].todo = {} /\ torn' = torn \ {g} /\ claimed' = claimed \ {g}
    BY <1>0, <1>5, <1>g, IdleHandIs DEF Gather!MoveDone, Gather!Step, Gather!Answer
  <2>2. /\ \A x \in Harbor : x \in torn <=> x \in torn'
        /\ \A f \in Gather(how)!Gen : f # g => (f \in torn <=> f \in torn') /\ (f \in claimed <=> f \in claimed')
        /\ g \notin torn' /\ g \notin claimed'
    <3>1. \A x \in Harbor : x # g
      BY <1>0, <1>w, CcFacts
    <3> QED
      BY <2>1, <3>1
  <2>4. MoveHand(how)'
    BY <2>1 DEF MoveHand
  <2>5. Numbered(how)'
    BY <1>0, <1>1, <2>1 DEF Numbered, Gather!Gen
  <2>6. OfTheCluster(how)'
    BY <1>0, <1>1, <2>1, <2>2 DEF OfTheCluster, Gather!Gen
  <2>7. /\ \A f : Loose(how, f) => Loose(how, f)'
        /\ hand["move"].pc # "clear"
        /\ \A f, x : f # g /\ Uprooted(how, f, x) => Uprooted(how, f, x)'
        /\ \A x : ~Uprooted(how, g, x)
        /\ ~AtWork(how, "move", {"owe"})' /\ AtWork(how, "move", {"owe"}) /\ hand["move"].gen = g
    BY <1>1, <1>g, <2>1 DEF Loose, AtWork, Uprooted
  <2>8. DeletedBefore(how)'
    BY <1>0, <1>1, <2>1, <2>7 DEF DeletedBefore, Gather!Gen
  <2>9. KeptOrOwed(how)'
    <3>1. ASSUME NEW f \in Gather(how)!Gen, NEW x \in Harbor, Concerns(how, f, x)'
          PROVE  Gather(how)!Holds(f, x)' \/ Gather(how)!Owes(x, "PROJECT_CREATE", f)' \/ Between(how, f, x)'
      <4>1. Concerns(how, f, x)
        BY <1>1, <2>1, <2>2, <2>7, <3>1 DEF Concerns
      <4>3. Between(how, f, x) => Between(how, f, x)'
        BY <1>1, <1>2, <2>2, <2>7, Uncomposed DEF Between
      <4> QED
        BY <1>0, <1>1, <2>1, <4>1, <4>3 DEF KeptOrOwed, Gather!Holds, Gather!Owes
    <3> QED
      BY <3>1 DEF KeptOrOwed, Gather!Gen
  <2>10. Accounted(how)'
    BY <1>0, <1>1, <1>2, <2>1, <2>2, Uncomposed DEF Accounted, Gather!Owes, Gather!Gen
  <2> QED
    BY <1>2, <2>4, <2>5, <2>6, <2>8, <2>9, <2>10 DEF CcRest
<1> QED
  BY <1>3, <1>4, <1>5

\* An adopted project is recorded where it was seen, and nowhere else.
LEMMA AdoptKeeps ==
  ASSUME NEW how, CcSorts(how), how.apart, how.patient, CcInv(how), CcTyped(how)',
         Gather(how)!Adopting
  PROVE  CcRest(how)'
<1>0. /\ CcTyped(how) /\ Gather(how)!TypeOK /\ OneName(how) /\ OneChange(how) /\ ComposeHand(how)
      /\ MoveHand(how) /\ AdoptHand(how) /\ PassHand(how)
      /\ Numbered(how) /\ OfTheCluster(how) /\ DeletedBefore(how) /\ KeptOrOwed(how)
      /\ Accounted(how)
      /\ "compose" \in Gather(how)!Role /\ "move" \in Gather(how)!Role
      /\ "adopt" \in Gather(how)!Role /\ hand["adopt"] \in Gather(how)!Hand
      /\ hand \in [Gather(how)!Role -> Gather(how)!Hand]
  BY CcFacts DEF CcInv, CcRest, CcTyped, Gather!Role
<1>1. /\ pass.pc = "idle" /\ pass' = pass /\ \A q \in Gather(how)!Role : q # "adopt" =>
           hand[q].pc = "idle"
      /\ UNCHANGED <<member, queue, nextId, torn>>
      /\ hand' = [hand EXCEPT !["adopt"] = hand'["adopt"]]
  <2>1. CASE \E c \in Cluster : Gather(how)!Adopt(c)
    BY <1>0, <2>1 DEF Gather!Adopt, Gather!Starts, Gather!Busy
  <2>2. CASE (\E h \in Harbor : Gather(how)!AdoptList(h) \/ Gather(how)!AdoptUnreachable(h)) \/ Gather(how)!AdoptKnown \/ Gather(how)!AdoptCreate
    <3>1. hand["adopt"].pc # "idle"
      BY <2>2
         DEF Gather!AdoptList, Gather!AdoptUnreachable, Gather!AdoptKnown, Gather!AdoptCreate,
             Gather!Step
    <3> QED
      BY <1>0, <2>2, <3>1, AloneIs
         DEF Gather!AdoptList, Gather!AdoptUnreachable, Gather!AdoptKnown, Gather!AdoptCreate,
             Gather!Answer
  <2> QED
    BY <2>1, <2>2 DEF Gather!Adopting
<1>2. /\ OneChange(how)' /\ PassHand(how)' /\ ComposeHand(how)' /\ MoveHand(how)'
      /\ hand["compose"].pc = "idle" /\ hand'["compose"].pc = "idle"
      /\ hand["move"].pc = "idle" /\ hand'["move"].pc = "idle"
  <2> DEFINE new == hand'["adopt"]
  <2>1. hand' = [hand EXCEPT !["adopt"] = new]
    BY <1>1
  <2> HIDE DEF new
  <2> QED
    BY <1>0, <1>1, <2>1, AdopterMoves
<1>3. ASSUME UNCHANGED <<project, placement, harbor, claimed>>, AdoptHand(how)' PROVE CcRest(how)'
  <2>1. /\ Numbered(how)' /\ OfTheCluster(how)' /\ DeletedBefore(how)' /\ KeptOrOwed(how)'
        /\ Accounted(how)'
    BY <1>0, <1>1, <1>2, <1>3, NothingWritten
  <2> QED
    BY <1>2, <1>3, <2>1 DEF CcRest
<1>4. ASSUME NEW c \in Cluster, Gather(how)!Adopt(c) PROVE CcRest(how)'
  <2>1. /\ hand'["adopt"].pc = "list" /\ hand'["adopt"].to = c
        /\ hand'["adopt"].todo = Gather(how)!Members(c) \X {0}
        /\ hand'["adopt"].seen = {} /\ Gather(how)!RowsOf(None) # {}
        /\ UNCHANGED <<project, placement, harbor, claimed>>
    BY <1>0, <1>4 DEF Gather!Adopt, Gather!IdleHand
  <2>2. /\ Gather(how)!Members(c)' = Gather(how)!Members(c)
        /\ Gather(how)!RowsOf(None)' = Gather(how)!RowsOf(None)
    BY <1>1, <2>1 DEF Gather!Members, Gather!RowsOf, Gather!Gen
  <2>3. AdoptHand(how)'
    BY <2>1, <2>2 DEF AdoptHand
  <2> QED
    BY <1>3, <2>1, <2>3
<1>5. ASSUME NEW h \in Harbor, Gather(how)!AdoptList(h) \/ Gather(how)!AdoptUnreachable(h)
      PROVE  CcRest(how)'
  <2>0. PICK c : c = hand["adopt"].to
    OBVIOUS
  <2>1. /\ hand["adopt"].pc = "list" /\ hand'["adopt"].pc = "list" /\ hand'["adopt"].to = c
        /\ <<h, 0>> \in hand["adopt"].todo /\ hand'["adopt"].todo \subseteq hand["adopt"].todo
        /\ UNCHANGED <<project, placement, harbor, claimed>>
    BY <1>0, <1>5, <2>0 DEF Gather!AdoptList, Gather!AdoptUnreachable, Gather!Step, Gather!Hand
  <2>2. \A s \in hand'["adopt"].seen : s \in hand["adopt"].seen \/
          /\ s = <<h, harbor[h].id>> /\ harbor[h].there
          /\ \A op \in queue : op.registry = h => op.kind # "PROJECT_DELETE"
    <3>1. CASE Gather(how)!AdoptUnreachable(h)
      BY <1>0, <3>1 DEF Gather!AdoptUnreachable, Gather!Hand
    <3>2. CASE Gather(how)!AdoptList(h)
      <4>1. \A op \in queue : op.registry = h => op.kind # "PROJECT_DELETE"
        BY <3>2 DEF Gather!AdoptList, Gather!Owed
      <4>2. hand'["adopt"].seen = hand["adopt"].seen \union IF harbor[h].there THEN {<<h, harbor[h].id>>} ELSE {}
        BY <1>0, <3>2 DEF Gather!AdoptList, Gather!Hand
      <4> QED
        BY <4>1, <4>2
    <3> QED
      BY <1>5, <3>1, <3>2
  <2>3. /\ c \in Cluster /\ Gather(how)!RowsOf(None) # {}
        /\ hand["adopt"].todo \subseteq Gather(how)!Members(c) \X {0} /\ member[h] = c
        /\ Gather(how)!Members(c)' = Gather(how)!Members(c)
        /\ Gather(how)!RowsOf(None)' = Gather(how)!RowsOf(None)
    <3>1. /\ c \in Cluster /\ Gather(how)!RowsOf(None) # {}
          /\ hand["adopt"].todo \subseteq Gather(how)!Members(c) \X {0}
      BY <1>0, <2>0, <2>1 DEF AdoptHand
    <3> QED
      BY <1>1, <2>1, <3>1 DEF Gather!Members, Gather!RowsOf, Gather!Gen
  <2>4. \A s \in hand'["adopt"].seen :
         /\ s[1] \in Harbor /\ s = <<s[1], harbor[s[1]].id>> /\ harbor[s[1]].there
         /\ member[s[1]] = c
         /\ \A op \in queue : op.registry = s[1] => op.kind # "PROJECT_DELETE"
    <3>1. \A s \in hand["adopt"].seen :
         /\ s[1] \in Harbor /\ s = <<s[1], harbor[s[1]].id>> /\ harbor[s[1]].there
         /\ member[s[1]] = c
         /\ \A op \in queue : op.registry = s[1] => op.kind # "PROJECT_DELETE"
      BY <1>0, <2>0, <2>1 DEF AdoptHand
    <3>2. ASSUME NEW s, s = <<h, harbor[h].id>>, harbor[h].there, \A op \in queue : op.registry = h => op.kind # "PROJECT_DELETE"
          PROVE /\ s[1] \in Harbor /\ s = <<s[1], harbor[s[1]].id>> /\ harbor[s[1]].there /\ member[s[1]] = c
                /\ \A op \in queue : op.registry = s[1] => op.kind # "PROJECT_DELETE"
      BY <2>3, <3>2
    <3> QED
      BY <2>2, <3>1, <3>2
  <2>5. AdoptHand(how)'
    BY <1>1, <2>1, <2>3, <2>4 DEF AdoptHand
  <2> QED
    BY <1>3, <2>1, <2>5
<1>6. CASE Gather(how)!AdoptKnown
  <2>0. PICK c : c = hand["adopt"].to
    OBVIOUS
  <2>1. UNCHANGED <<project, placement, harbor, claimed>> /\ hand["adopt"].pc = "list"
    BY <1>6 DEF Gather!AdoptKnown, Gather!Step
  <2>2. CASE hand' = [hand EXCEPT !["adopt"] = Gather(how)!IdleHand]
    <3>1. hand'["adopt"].pc = "idle"
      BY <1>0, <2>2, IdleHandIs
    <3>2. AdoptHand(how)'
      BY <3>1 DEF AdoptHand
    <3> QED
      BY <1>3, <2>1, <3>2
  <2>3. CASE hand' # [hand EXCEPT !["adopt"] = Gather(how)!IdleHand]
    <3>1. /\ hand'["adopt"].pc = "create" /\ hand'["adopt"].to = c
          /\ hand'["adopt"].seen = hand["adopt"].seen
          /\ Gather(how)!RowsOf(c) = {}
      BY <1>0, <1>6, <2>0, <2>3 DEF Gather!AdoptKnown, Gather!Answer, Gather!Hand
    <3>2. Gather(how)!RowsOf(c)' = {} /\ Gather(how)!RowsOf(None)' = Gather(how)!RowsOf(None)
      BY <2>1, <3>1 DEF Gather!RowsOf, Gather!Gen
    <3>3. AdoptHand(how)'
      BY <1>0, <1>1, <2>0, <2>1, <3>1, <3>2 DEF AdoptHand
    <3> QED
      BY <1>3, <2>1, <3>3
  <2> QED
    BY <2>2, <2>3
<1>7. CASE Gather(how)!AdoptCreate
  <2>0. PICK c : c = hand["adopt"].to
    OBVIOUS
  <2>1. hand["adopt"].pc = "create" /\ hand'["adopt"].pc = "idle"
    BY <1>0, <1>7, IdleHandIs DEF Gather!AdoptCreate, Gather!Step, Gather!Answer
  <2>2. /\ c \in Cluster /\ c # None /\ Gather(how)!RowsOf(c) = {}
        /\ \A s \in hand["adopt"].seen :
             /\ s[1] \in Harbor /\ s = <<s[1], harbor[s[1]].id>> /\ harbor[s[1]].there
             /\ member[s[1]] = c
             /\ \A op \in queue : op.registry = s[1] => op.kind # "PROJECT_DELETE"
    BY <1>0, <2>0, <2>1, CcFacts DEF AdoptHand
  <2> DEFINE at(h) == {s \in hand["adopt"].seen : s[1] = h}
             Seen(h) == at(h) # {}
  <2>3. PICK g \in Gather(how)!RowsOf(None) :
          /\ project' = [project EXCEPT ![g] = c]
          /\ placement' = [placement EXCEPT ![g] = [h \in Harbor |->
               IF at(h) = {} THEN 0 ELSE (CHOOSE s \in at(h) : TRUE)[2]]]
          /\ harbor' = [h \in Harbor |->
               IF at(h) # {} /\ harbor[h].there
               THEN [harbor[h] EXCEPT !.ours = TRUE, !.told = FALSE] ELSE harbor[h]]
          /\ claimed' = claimed \union {g}
    BY <1>7, <2>0, <2>2 DEF Gather!AdoptCreate
  <2>4. g \in Gather(how)!Gen /\ project[g] = None /\ \A h \in Harbor : placement[g][h] = 0
    BY <1>0, <2>3 DEF Gather!RowsOf, OfTheCluster
  <2>5. \A h \in Harbor : Seen(h) =>
          /\ harbor[h].there /\ member[h] = c /\ (CHOOSE s \in at(h) : TRUE)[2] = harbor[h].id
          /\ \A op \in queue : op.registry = h => op.kind # "PROJECT_DELETE"
    <3> SUFFICES ASSUME NEW h \in Harbor, Seen(h)
                 PROVE  /\ harbor[h].there /\ member[h] = c /\ (CHOOSE s \in at(h) : TRUE)[2] = harbor[h].id
                        /\ \A op \in queue : op.registry = h => op.kind # "PROJECT_DELETE"
      OBVIOUS
    <3>1. PICK s : s = CHOOSE t \in at(h) : TRUE
      OBVIOUS
    <3>2. s \in at(h)
      BY <3>1
    <3>3. s \in hand["adopt"].seen /\ s[1] = h
      BY <3>2
    <3>4. s = <<h, harbor[h].id>>
      BY <2>2, <3>3
    <3>5. s[2] = harbor[h].id
      BY <3>4
    <3>6. (CHOOSE t \in at(h) : TRUE)[2] = harbor[h].id
      BY <3>1, <3>5
    <3> QED
      BY <2>2, <3>3, <3>6
  <2>6. /\ project'[g] = c /\ \A f \in Gather(how)!Gen : f # g => project'[f] = project[f]
        /\ \A f \in Gather(how)!Gen, h \in Harbor : f # g => placement'[f][h] = placement[f][h]
        /\ \A h \in Harbor : placement'[g][h] = IF Seen(h) THEN harbor[h].id ELSE 0
    <3> DEFINE fresh == [h \in Harbor |-> IF at(h) = {} THEN 0 ELSE (CHOOSE s \in at(h) : TRUE)[2]]
    <3>1. placement' = [placement EXCEPT ![g] = fresh]
      BY <2>3
    <3>2. \A h \in Harbor : fresh[h] = IF Seen(h) THEN harbor[h].id ELSE 0
      BY <2>5
    <3> HIDE DEF fresh, at, Seen
    <3> QED
      BY <1>0, <2>3, <2>4, <3>1, <3>2 DEF Gather!TypeOK
  <2>7. \A h \in Harbor : /\ harbor'[h].id = harbor[h].id /\ harbor'[h].there = harbor[h].there
                          /\ Seen(h) => harbor'[h].ours
                          /\ ~Seen(h) => harbor'[h] = harbor[h]
    <3>1. \A h \in Harbor : harbor[h] \in Gather(how)!HarborProject
      BY <1>0, CcFacts
    <3>2. \A h \in Harbor : harbor'[h] = IF Seen(h) THEN [harbor[h] EXCEPT !.ours = TRUE, !.told = FALSE] ELSE harbor[h]
      BY <2>3, <2>5
    <3> HIDE DEF at, Seen
    <3> QED
      BY <3>1, <3>2 DEF Gather!HarborProject
  <2> HIDE DEF at, Seen
  <2>8. claimed' = claimed \union {g}
    BY <2>3
  <2>9. AdoptHand(how)'
    BY <2>1 DEF AdoptHand
  <2>10. Numbered(how)'
    BY <1>0, <1>1, <2>2, <2>4, <2>5, <2>6, <2>7, CcFacts DEF Numbered, Gather!Gen
  <2>11. OfTheCluster(how)'
    <3>1. \A op \in queue' : op \in queue /\ member'[op.registry] = member[op.registry]
      BY <1>0, <1>1
    <3>2. \A op \in queue : op.kind = "PROJECT_CREATE" =>
            op.key \in Gather(how)!Gen /\ op.key # g /\ project[op.key] = member[op.registry]
      BY <1>0, <2>4 DEF OfTheCluster
    <3>3. \A f \in Gather(how)!Gen, h \in Harbor : placement'[f][h] # 0 =>
            project'[f] = member[h] /\ project'[f] # None
      <4> SUFFICES ASSUME NEW f \in Gather(how)!Gen, NEW h \in Harbor, placement'[f][h] # 0
                   PROVE  project'[f] = member[h] /\ project'[f] # None
        OBVIOUS
      <4>1. CASE f = g
        BY <2>2, <2>5, <2>6, <4>1
      <4>2. CASE f # g
        BY <1>0, <2>6, <4>2 DEF OfTheCluster
      <4> QED
        BY <4>1, <4>2
    <3> QED
      BY <1>0, <1>1, <2>6, <3>1, <3>2, <3>3 DEF OfTheCluster, Gather!Gen
  <2>12. DeletedBefore(how)'
    <3>1. \A op \in queue : op.registry \in Harbor
      BY <1>0, CcFacts
    <3>2. \A h \in Harbor : harbor[h].there => harbor[h].id # 0
      BY <1>0 DEF Numbered
    <3>3. ASSUME NEW op \in queue, NEW f \in Gather(how)!Gen, op.kind = "PROJECT_DELETE",
                 harbor[op.registry].there /\ harbor[op.registry].id = op.key, placement'[f][op.registry] = op.key
          PROVE  f \in torn
      <4>1. f # g
        BY <2>5, <2>6, <3>1, <3>2, <3>3
      <4> QED
        BY <1>0, <1>2, <2>6, <3>1, <3>3, <4>1, Unmoved DEF DeletedBefore
    <3> QED
      BY <1>0, <1>1, <1>2, <2>7, <3>1, <3>3, Unmoved DEF DeletedBefore, Gather!Gen
  <2>13. KeptOrOwed(how)'
    <3>1. ASSUME NEW f \in Gather(how)!Gen, NEW x \in Harbor, Concerns(how, f, x)', f # g
          PROVE  Gather(how)!Holds(f, x)' \/ Gather(how)!Owes(x, "PROJECT_CREATE", f)' \/ Between(how, f, x)'
      <4>1. Concerns(how, f, x)
        BY <1>1, <1>2, <2>6, <2>8, <3>1, Unmoved DEF Concerns
      <4>2. Between(how, f, x) => Between(how, f, x)'
        BY <1>1, <1>2, Unmoved, Uncomposed DEF Between
      <4> QED
        BY <1>0, <1>1, <2>6, <2>7, <3>1, <4>1, <4>2 DEF KeptOrOwed, Gather!Holds, Gather!Owes
    <3>2. \A x \in Harbor : Concerns(how, g, x)' => Gather(how)!Holds(g, x)'
      BY <1>2, <2>5, <2>6, <2>7, <2>8, Unmoved DEF Concerns, Gather!Holds
    <3> QED
      BY <3>1, <3>2 DEF KeptOrOwed, Gather!Gen
  <2>14. Accounted(how)'
    <3>1. ASSUME NEW x \in Harbor, harbor'[x].ours, ~Seen(x)
          PROVE  \/ \E f \in Gather(how)!Gen : placement'[f][x] = harbor[x].id
                 \/ Gather(how)!Owes(x, "PROJECT_DELETE", harbor[x].id) \/ harbor[x].told \/ x \in torn
      <4>1. harbor[x].ours /\ harbor[x].id # 0
        BY <1>0, <2>7, <3>1 DEF Numbered
      <4> QED
        BY <1>0, <1>2, <2>4, <2>6, <4>1, Uncomposed DEF Accounted
    <3>2. \A x \in Harbor : Seen(x) => placement'[g][x] = harbor'[x].id
      BY <2>6, <2>7
    <3> QED
      BY <1>1, <2>4, <2>7, <3>1, <3>2 DEF Accounted, Gather!Owes, Gather!Gen
  <2> QED
    BY <1>2, <2>9, <2>10, <2>11, <2>12, <2>13, <2>14 DEF CcRest
<1> QED
  BY <1>4, <1>5, <1>6, <1>7 DEF Gather!Adopting

\* A pass replays what is owed to one Harbor, the oldest first.
LEMMA ReplayKeeps ==
  ASSUME NEW how, CcSorts(how), how.apart, CcInv(how), CcTyped(how)', Gather(how)!Replay
  PROVE  CcRest(how)'
<1>0. /\ CcTyped(how) /\ Gather(how)!TypeOK /\ OneName(how) /\ OneChange(how) /\ ComposeHand(how)
      /\ MoveHand(how) /\ AdoptHand(how) /\ PassHand(how)
      /\ Numbered(how) /\ OfTheCluster(how) /\ DeletedBefore(how) /\ KeptOrOwed(how)
      /\ Accounted(how)
      /\ "compose" \in Gather(how)!Role /\ "move" \in Gather(how)!Role
      /\ "adopt" \in Gather(how)!Role
  BY CcFacts DEF CcInv, CcRest, CcTyped, Gather!Role
<1>1. /\ hand' = hand /\ \A q \in Gather(how)!Role : hand[q].pc = "idle"
      /\ UNCHANGED <<member, project, nextId, torn, claimed>>
  <2>1. CASE \E h \in Harbor : Gather(how)!PassStart(h)
    BY <1>0, <2>1 DEF Gather!PassStart, Gather!Busy
  <2>2. CASE (\E op \in pass.ops : Gather(how)!PassTake(op)) \/ Gather(how)!PassCreate \/ Gather(how)!PassRemove \/ Gather(how)!PassDelete \/ Gather(how)!PassEnds
    <3>1. pass.pc # "idle"
      BY <2>2
         DEF Gather!PassTake, Gather!PassCreate, Gather!PassRemove, Gather!PassDelete,
             Gather!PassEnds
    <3> QED
      BY <1>0, <2>2, <3>1
         DEF Gather!PassTake, Gather!PassCreate, Gather!PassRemove, Gather!PassDelete,
             Gather!PassEnds, OneChange, Gather!Busy
  <2> QED
    BY <2>1, <2>2 DEF Gather!Replay
<1>2. /\ OneChange(how)' /\ ComposeHand(how)' /\ MoveHand(how)' /\ AdoptHand(how)'
      /\ hand["compose"].pc = "idle" /\ hand'["compose"].pc = "idle"
      /\ hand["move"].pc = "idle" /\ hand'["move"].pc = "idle"
  BY <1>0, <1>1, HandsIdle
<1>3. \A f \in Gather(how)!Gen, x \in Harbor : Concerns(how, f, x)' => project[f] # None /\ member[x] = project[f] /\ (f \notin claimed \/ placement'[f][x] # 0)
  BY <1>1, <1>2, Unmoved DEF Concerns
<1>4. \A f \in Gather(how)!Gen, x \in Harbor : Between(how, f, x) => Between(how, f, x)'
  BY <1>1, <1>2, Unmoved, Uncomposed DEF Between
<1>5. ASSUME UNCHANGED <<placement, harbor, queue>>, PassHand(how)' PROVE CcRest(how)'
  <2>1. /\ Numbered(how)' /\ OfTheCluster(how)' /\ DeletedBefore(how)' /\ KeptOrOwed(how)'
        /\ Accounted(how)'
    BY <1>0, <1>1, <1>2, <1>5, NothingWritten
  <2> QED
    BY <1>2, <1>5, <2>1 DEF CcRest
<1>6. ASSUME NEW h \in Harbor, Gather(how)!PassStart(h) PROVE CcRest(how)'
  <2>1. /\ pass'.pc = "next" /\ pass'.registry = h /\ pass'.ops = Gather(how)!Owed(queue, h)
        /\ UNCHANGED <<placement, harbor, queue>>
    BY <1>6 DEF Gather!PassStart, Gather!IdlePass
  <2>2. PassHand(how)'
    BY <2>1 DEF PassHand, Gather!Owed
  <2> QED
    BY <1>5, <2>1, <2>2
<1>7. ASSUME NEW op \in pass.ops, Gather(how)!PassTake(op) PROVE CcRest(how)'
  <2>0. pass \in Gather(how)!Pass
    BY <1>0, CcFacts
  <2>1. /\ pass.pc = "next" /\ Gather(how)!IsOldest(op, pass.ops) /\ pass'.at = op
        /\ pass'.registry = pass.registry /\ pass'.ops = pass.ops
        /\ pass'.pc = IF op.kind = "PROJECT_DELETE" THEN "remove" ELSE "create"
        /\ UNCHANGED <<placement, harbor, queue>>
    BY <1>7, <2>0 DEF Gather!PassTake, Gather!Pass
  <2>2. /\ pass.registry \in Harbor /\ pass.ops = Gather(how)!Owed(queue, pass.registry)
        /\ op.kind \in Gather(how)!Kind
    BY <1>0, <1>7, <2>1, CcFacts DEF PassHand, Gather!Owed
  <2>3. PassHand(how)'
    BY <2>1, <2>2 DEF PassHand, Gather!Owed, Gather!IsOldest, Gather!Kind
  <2> QED
    BY <1>5, <2>1, <2>3
<1>8. CASE Gather(how)!PassEnds
  <2>1. pass'.pc = "idle" /\ UNCHANGED <<placement, harbor, queue>>
    BY <1>8 DEF Gather!PassEnds, Gather!IdlePass
  <2>2. PassHand(how)'
    BY <2>1 DEF PassHand
  <2> QED
    BY <1>5, <2>1, <2>2
<1>9. CASE Gather(how)!PassCreate
  <2>0. PICK h, op, g : h = pass.registry /\ op = pass.at /\ g = pass.at.key
    OBVIOUS
  <2>1. /\ pass \in Gather(how)!Pass /\ pass.pc = "create" /\ h \in Harbor /\ op \in queue
        /\ op.registry = h
        /\ op.kind = "PROJECT_CREATE" /\ op.key = g /\ g \in Gather(how)!Gen
        /\ project[g] = member[h] /\ member[h] # None
        /\ \A other \in queue : other.registry = h => op.id <= other.id
        /\ Gather(how)!IsOldest(pass.at, pass.ops)
        /\ pass.ops = Gather(how)!Owed(queue, pass.registry)
    <3>1. pass.pc = "create" /\ pass \in Gather(how)!Pass
      BY <1>0, <1>9, CcFacts DEF Gather!PassCreate
    <3>2. /\ h \in Harbor /\ pass.ops = Gather(how)!Owed(queue, h)
          /\ Gather(how)!IsOldest(op, pass.ops) /\ op.kind = "PROJECT_CREATE"
          /\ Gather(how)!IsOldest(pass.at, pass.ops)
          /\ pass.ops = Gather(how)!Owed(queue, pass.registry)
      BY <1>0, <2>0, <3>1 DEF PassHand
    <3>3. op \in queue /\ op.registry = h /\ \A other \in queue : other.registry = h =>
            op.id <= other.id
      BY <3>2 DEF Gather!IsOldest, Gather!Owed
    <3> QED
      BY <1>0, <2>0, <3>1, <3>2, <3>3 DEF OfTheCluster
  <2>2. /\ harbor' = [harbor EXCEPT ![h] = Gather(how)!Created(h)] /\ queue' = queue
        /\ placement' = [placement EXCEPT ![g] = [placement[g] EXCEPT ![h] = harbor'[h].id]]
        /\ pass' = [pass EXCEPT !.pc = "delete"]
    BY <1>0, <1>9, <2>0, <2>1 DEF Gather!PassCreate, Gather!TypeOK
  <2>3. /\ \A x \in Harbor : x # h => harbor'[x] = harbor[x]
        /\ harbor'[h].there /\ harbor'[h].ours
        /\ harbor[h].there => harbor'[h].id = harbor[h].id
        /\ ~harbor[h].there => harbor'[h].id = harbor[h].id + 1
        /\ harbor[h].id \in Nat /\ harbor'[h].id \in Nat /\ harbor'[h].id # 0
        /\ harbor[h].id <= harbor'[h].id
    <3>1. harbor[h] \in Gather(how)!HarborProject /\ harbor \in [Harbor -> Gather(how)!HarborProject] /\ harbor[h].id \in Nat /\ (harbor[h].there => harbor[h].id # 0)
      BY <1>0, <2>1, CcFacts DEF Gather!TypeOK, Numbered
    <3>2. harbor'[h] = Gather(how)!Created(h) /\ \A x \in Harbor : x # h => harbor'[x] = harbor[x]
      BY <2>1, <2>2, <3>1
    <3>3. CASE harbor[h].there
      <4>1. /\ Gather(how)!Created(h).there /\ Gather(how)!Created(h).ours
            /\ Gather(how)!Created(h).id = harbor[h].id
        BY <3>1, <3>3 DEF Gather!Created, Gather!HarborProject
      <4> QED
        BY <3>1, <3>2, <3>3, <4>1
    <3>4. CASE ~harbor[h].there
      <4>1. /\ Gather(how)!Created(h).there /\ Gather(how)!Created(h).ours
            /\ Gather(how)!Created(h).id = harbor[h].id + 1
        BY <3>4 DEF Gather!Created, Gather!NoProject
      <4> QED
        BY <3>1, <3>2, <3>4, <4>1
    <3> QED
      BY <3>3, <3>4
  <2>4. /\ placement'[g][h] = harbor'[h].id
        /\ \A f \in Gather(how)!Gen, x \in Harbor : ~(f = g /\ x = h) =>
                                                      placement'[f][x] = placement[f][x]
    BY <1>0, <2>1, <2>2 DEF Gather!TypeOK
  <2>5. PassHand(how)'
    <3>1. pass'.pc = "delete" /\ pass'.registry = h /\ pass'.at = op /\ pass'.ops = pass.ops
      BY <2>0, <2>1, <2>2 DEF Gather!Pass
    <3>2. Gather(how)!Holds(op.key, h)'
      BY <2>1, <2>3, <2>4 DEF Gather!Holds
    <3>3. pass'.ops = Gather(how)!Owed(queue, h)' /\ Gather(how)!IsOldest(op, pass'.ops)
      BY <2>0, <2>1, <2>2, <3>1 DEF Gather!Owed
    <3> QED
      BY <2>0, <2>1, <2>2, <3>1, <3>2, <3>3 DEF PassHand, Gather!IsOldest
  <2>6. Numbered(how)'
    <3>1. /\ \A x \in Harbor : harbor[x].id \in Nat
          /\ \A f \in Gather(how)!Gen, x \in Harbor : placement[f][x] \in Nat
          /\ \A o \in queue : o.key \in Nat /\ o.registry \in Harbor
      BY <1>0, CcFacts
    <3>2. \A x \in Harbor : harbor'[x].ours => harbor'[x].there /\ member[x] # None
      BY <1>0, <2>1, <2>3 DEF Numbered
    <3>3. \A x \in Harbor : harbor'[x].there => harbor'[x].id # 0
      BY <1>0, <2>3 DEF Numbered
    <3>4. \A f \in Gather(how)!Gen, x \in Harbor : placement'[f][x] <= harbor'[x].id
      <4> SUFFICES ASSUME NEW f \in Gather(how)!Gen, NEW x \in Harbor PROVE placement'[f][x] <= harbor'[x].id
        OBVIOUS
      <4>1. placement[f][x] <= harbor[x].id
        BY <1>0 DEF Numbered
      <4> QED
        BY <2>1, <2>3, <2>4, <3>1, <4>1
    <3>5. ASSUME NEW o \in queue, o.kind = "PROJECT_DELETE" PROVE o.key <= harbor'[o.registry].id
      <4>1. o.key <= harbor[o.registry].id
        BY <1>0, <3>5 DEF Numbered
      <4> QED
        BY <2>3, <3>1, <4>1
    <3> QED
      BY <1>0, <1>1, <2>2, <3>2, <3>3, <3>4, <3>5 DEF Numbered, Gather!Gen
  <2>7. OfTheCluster(how)'
    BY <1>0, <1>1, <2>1, <2>2, <2>4 DEF OfTheCluster, Gather!Gen
  <2>8. DeletedBefore(how)'
    <3>0. \A o \in queue : o.key \in Nat /\ o.registry \in Harbor /\ o.id \in Nat
      BY <1>0, CcFacts
    \* What was to be deleted and is there now was there before.
    <3>1. ASSUME NEW o \in queue, o.kind = "PROJECT_DELETE", harbor'[o.registry].there /\ harbor'[o.registry].id = o.key
          PROVE  harbor[o.registry].there /\ harbor[o.registry].id = o.key
      <4>1. o.key <= harbor[o.registry].id
        BY <1>0, <3>1 DEF Numbered
      <4> QED
        BY <2>3, <3>0, <3>1, <4>1
    <3>2. ASSUME NEW o \in queue, NEW f \in Gather(how)!Gen, o.kind = "PROJECT_DELETE",
                 harbor'[o.registry].there /\ harbor'[o.registry].id = o.key, placement'[f][o.registry] = o.key
          PROVE  f \in torn
      <4>1. harbor[o.registry].there /\ harbor[o.registry].id = o.key
        BY <3>1, <3>2
      <4>2. CASE f = g /\ o.registry = h
        <5>1. o.id < op.id \/ Loose(how, g)
          BY <1>0, <2>1, <3>2, <4>1, <4>2 DEF DeletedBefore
        <5>2. op.id <= o.id
          BY <2>1, <4>2
        <5> QED
          BY <1>2, <2>1, <3>0, <4>2, <5>1, <5>2, Unmoved
      <4>3. CASE ~(f = g /\ o.registry = h)
        <5>1. placement[f][o.registry] = o.key
          BY <2>4, <3>0, <3>2, <4>3
        <5>2. Loose(how, f) \/ (hand["move"].pc = "clear" /\ hand["move"].gen = f)
          BY <1>0, <3>2, <4>1, <5>1 DEF DeletedBefore
        <5> QED
          BY <1>2, <5>2, Unmoved
      <4> QED
        BY <4>2, <4>3
    <3>3. ASSUME NEW o \in queue, NEW other \in queue, o.kind = "PROJECT_DELETE", other.kind = "PROJECT_CREATE",
                 o.registry = other.registry, harbor'[o.registry].there /\ harbor'[o.registry].id = o.key
          PROVE  o.id < other.id \/ other.key \in torn
      <4>1. harbor[o.registry].there /\ harbor[o.registry].id = o.key
        BY <3>1, <3>3
      <4>2. o.id < other.id \/ Loose(how, other.key)
        BY <1>0, <3>3, <4>1 DEF DeletedBefore
      <4> QED
        BY <1>2, <4>2, Unmoved
    <3> QED
      BY <1>1, <1>2, <2>2, <3>2, <3>3, Unmoved DEF DeletedBefore, Gather!Gen
  <2>9. KeptOrOwed(how)'
    <3>1. ASSUME NEW f \in Gather(how)!Gen, NEW x \in Harbor, Concerns(how, f, x)'
          PROVE  Gather(how)!Holds(f, x)' \/ Gather(how)!Owes(x, "PROJECT_CREATE", f)' \/ Between(how, f, x)'
      <4>1. CASE f = g /\ x = h
        BY <2>3, <2>4, <4>1 DEF Gather!Holds
      <4>2. CASE ~(f = g /\ x = h)
        <5>1. Concerns(how, f, x)
          BY <1>3, <2>4, <3>1, <4>2 DEF Concerns
        <5>2. Gather(how)!Holds(f, x) => Gather(how)!Holds(f, x)'
          BY <2>3, <2>4, <4>2 DEF Gather!Holds
        <5> QED
          BY <1>0, <1>4, <2>2, <5>1, <5>2 DEF KeptOrOwed, Gather!Owes
      <4> QED
        BY <4>1, <4>2
    <3> QED
      BY <3>1 DEF KeptOrOwed, Gather!Gen
  <2>10. Accounted(how)'
    <3>1. ASSUME NEW x \in Harbor, x # h, harbor'[x].ours
          PROVE  \/ \E f \in Gather(how)!Gen : placement'[f][x] = harbor[x].id
                 \/ Gather(how)!Owes(x, "PROJECT_DELETE", harbor[x].id) \/ harbor[x].told \/ x \in torn
      BY <1>0, <1>2, <2>3, <2>4, <3>1, Uncomposed DEF Accounted
    <3> QED
      BY <1>1, <2>1, <2>2, <2>3, <2>4, <3>1 DEF Accounted, Gather!Owes, Gather!Gen
  <2> QED
    BY <1>2, <2>5, <2>6, <2>7, <2>8, <2>9, <2>10 DEF CcRest
<1>10. CASE Gather(how)!PassRemove
  <2>0. PICK h, op, key : h = pass.registry /\ op = pass.at /\ key = pass.at.key
    OBVIOUS
  <2>1. /\ pass \in Gather(how)!Pass /\ pass.pc = "remove" /\ h \in Harbor /\ op \in queue
        /\ op.registry = h
        /\ op.kind = "PROJECT_DELETE" /\ op.key = key
        /\ Gather(how)!IsOldest(pass.at, pass.ops)
        /\ pass.ops = Gather(how)!Owed(queue, pass.registry)
    <3>1. pass.pc = "remove" /\ pass \in Gather(how)!Pass
      BY <1>0, <1>10, CcFacts DEF Gather!PassRemove
    <3>2. /\ h \in Harbor /\ pass.ops = Gather(how)!Owed(queue, h)
          /\ Gather(how)!IsOldest(op, pass.ops) /\ op.kind = "PROJECT_DELETE"
          /\ Gather(how)!IsOldest(pass.at, pass.ops)
          /\ pass.ops = Gather(how)!Owed(queue, pass.registry)
      BY <1>0, <2>0, <3>1 DEF PassHand
    <3> QED
      BY <2>0, <3>1, <3>2 DEF Gather!IsOldest, Gather!Owed
  <2>2. /\ harbor' = [harbor EXCEPT ![h] = Gather(how)!Deleted(h, key)]
        /\ UNCHANGED <<queue, placement>>
        /\ pass' = [pass EXCEPT !.pc = "delete"]
    BY <1>10, <2>0 DEF Gather!PassRemove
  <2>3. /\ \A x \in Harbor : x # h => harbor'[x] = harbor[x]
        /\ harbor'[h].id = harbor[h].id
        /\ ~(harbor'[h].there /\ harbor'[h].id = key)
        /\ harbor'[h].there => harbor'[h] = harbor[h]
        /\ harbor'[h].ours => harbor'[h] = harbor[h]
        /\ harbor[h].there /\ harbor[h].id # key => harbor'[h] = harbor[h]
    <3>1. harbor \in [Harbor -> Gather(how)!HarborProject]
      BY <1>0 DEF Gather!TypeOK
    <3>2. harbor'[h] = Gather(how)!Deleted(h, key) /\ \A x \in Harbor : x # h =>
            harbor'[x] = harbor[x]
      BY <2>1, <2>2, <3>1
    <3>3. CASE harbor[h].there /\ harbor[h].id = key
      <4>1. /\ Gather(how)!Deleted(h, key).there = FALSE
            /\ Gather(how)!Deleted(h, key).ours = FALSE /\ Gather(how)!Deleted(h, key).id = key
        BY <3>3 DEF Gather!Deleted, Gather!NoProject
      <4> QED
        BY <3>2, <3>3, <4>1
    <3>4. CASE ~(harbor[h].there /\ harbor[h].id = key)
      <4>1. Gather(how)!Deleted(h, key) = harbor[h]
        BY <3>4 DEF Gather!Deleted
      <4> QED
        BY <3>2, <3>4, <4>1
    <3> QED
      BY <3>3, <3>4
  <2>5. PassHand(how)'
    <3>1. pass'.pc = "delete" /\ pass'.registry = h /\ pass'.at = op /\ pass'.ops = pass.ops
      BY <2>0, <2>1, <2>2 DEF Gather!Pass
    <3>3. pass'.ops = Gather(how)!Owed(queue, h)' /\ Gather(how)!IsOldest(op, pass'.ops)
      BY <2>0, <2>1, <2>2, <3>1 DEF Gather!Owed
    <3> QED
      BY <2>0, <2>1, <2>2, <2>3, <3>1, <3>3 DEF PassHand, Gather!IsOldest
  <2>6. Numbered(how)'
    <3>1. \A x \in Harbor : harbor'[x].id = harbor[x].id
      BY <2>3
    <3>2. \A o \in queue : o.registry \in Harbor
      BY <1>0, CcFacts
    <3> QED
      BY <1>0, <1>1, <2>1, <2>2, <2>3, <3>1, <3>2 DEF Numbered, Gather!Gen
  <2>7. OfTheCluster(how)'
    BY <1>0, <1>1, <2>2 DEF OfTheCluster, Gather!Gen
  <2>8. DeletedBefore(how)'
    <3>1. \A o \in queue : o.registry \in Harbor
      BY <1>0, CcFacts
    <3>2. \A x \in Harbor : harbor'[x].there => harbor[x].there /\ harbor'[x].id = harbor[x].id
      BY <2>3
    <3> QED
      BY <1>0, <1>1, <1>2, <2>2, <3>1, <3>2, Unmoved DEF DeletedBefore, Gather!Gen
  <2>9. KeptOrOwed(how)'
    <3>1. ASSUME NEW f \in Gather(how)!Gen, NEW x \in Harbor, Concerns(how, f, x)'
          PROVE  Gather(how)!Holds(f, x)' \/ Gather(how)!Owes(x, "PROJECT_CREATE", f)' \/ Between(how, f, x)'
      <4>1. Concerns(how, f, x)
        BY <1>3, <2>2, <3>1 DEF Concerns
      <4>2. CASE Gather(how)!Holds(f, x)
        <5>1. CASE x = h /\ harbor[h].id = key
          <6>1. Loose(how, f) \/ (hand["move"].pc = "clear" /\ hand["move"].gen = f)
            BY <1>0, <2>1, <4>2, <5>1 DEF DeletedBefore, Gather!Holds
          <6>2. Uprooted(how, f, x)
            BY <1>2, <6>1, Unmoved
          <6> QED
            BY <1>4, <6>2 DEF Between
        <5>2. CASE ~(x = h /\ harbor[h].id = key)
          BY <2>2, <2>3, <4>2, <5>2 DEF Gather!Holds
        <5> QED
          BY <5>1, <5>2
      <4>3. CASE Gather(how)!Owes(x, "PROJECT_CREATE", f) \/ Between(how, f, x)
        BY <1>4, <2>2, <4>3 DEF Gather!Owes
      <4> QED
        BY <1>0, <4>1, <4>2, <4>3 DEF KeptOrOwed
    <3> QED
      BY <3>1 DEF KeptOrOwed, Gather!Gen
  <2>10. Accounted(how)'
    BY <1>0, <1>1, <1>2, <2>2, <2>3, Uncomposed DEF Accounted, Gather!Owes, Gather!Gen
  <2> QED
    BY <1>2, <2>5, <2>6, <2>7, <2>8, <2>9, <2>10 DEF CcRest
<1>11. CASE Gather(how)!PassDelete
  <2>0. PICK h, op : h = pass.registry /\ op = pass.at
    OBVIOUS
  <2>1. /\ h \in Harbor /\ op \in queue /\ op.registry = h /\ pass.ops = Gather(how)!Owed(queue, h)
        /\ op.kind = "PROJECT_CREATE" => Gather(how)!Holds(op.key, h)
        /\ op.kind # "PROJECT_CREATE" => ~(harbor[h].there /\ harbor[h].id = op.key)
    <3>1. pass.pc = "delete"
      BY <1>11 DEF Gather!PassDelete
    <3>2. /\ h \in Harbor /\ pass.ops = Gather(how)!Owed(queue, h)
          /\ Gather(how)!IsOldest(op, pass.ops)
      BY <1>0, <2>0, <3>1 DEF PassHand
    <3> QED
      BY <1>0, <2>0, <3>1, <3>2 DEF PassHand, Gather!IsOldest, Gather!Owed
  <2>2. /\ queue' = queue \ {op} /\ UNCHANGED <<harbor, placement>>
        /\ pass'.pc = "next" /\ pass'.registry = h /\ pass'.ops = pass.ops \ {op}
    BY <1>11, <2>0 DEF Gather!PassDelete, Gather!IdlePass
  <2>5. PassHand(how)'
    BY <2>1, <2>2 DEF PassHand, Gather!Owed
  <2>6. Numbered(how)'
    BY <1>0, <1>1, <2>2 DEF Numbered, Gather!Gen
  <2>7. OfTheCluster(how)'
    BY <1>0, <1>1, <2>2 DEF OfTheCluster, Gather!Gen
  <2>8. DeletedBefore(how)'
    BY <1>0, <1>1, <1>2, <2>2, Unmoved DEF DeletedBefore, Gather!Gen
  <2>9. KeptOrOwed(how)'
    <3>1. ASSUME NEW f \in Gather(how)!Gen, NEW x \in Harbor, Concerns(how, f, x)'
          PROVE  Gather(how)!Holds(f, x)' \/ Gather(how)!Owes(x, "PROJECT_CREATE", f)' \/ Between(how, f, x)'
      <4>1. Concerns(how, f, x)
        BY <1>3, <2>2, <3>1 DEF Concerns
      <4>2. Gather(how)!Owes(x, "PROJECT_CREATE", f) =>
              Gather(how)!Owes(x, "PROJECT_CREATE", f)' \/ Gather(how)!Holds(f, x)
        BY <2>1, <2>2, OwesIs
      <4>3. Gather(how)!Holds(f, x) => Gather(how)!Holds(f, x)'
        BY <2>2 DEF Gather!Holds
      <4> QED
        BY <1>0, <1>4, <4>1, <4>2, <4>3 DEF KeptOrOwed
    <3> QED
      BY <3>1 DEF KeptOrOwed, Gather!Gen
  <2>10. Accounted(how)'
    <3>1. ASSUME NEW x \in Harbor, harbor[x].ours
          PROVE  \/ \E f \in Gather(how)!Gen : placement[f][x] = harbor[x].id
                 \/ Gather(how)!Owes(x, "PROJECT_DELETE", harbor[x].id) \/ harbor[x].told \/ x \in torn
      BY <1>0, <1>2, <3>1, Uncomposed DEF Accounted
    <3>2. ASSUME NEW x \in Harbor, NEW key, key = harbor[x].id, harbor[x].ours, Gather(how)!Owes(x, "PROJECT_DELETE", key)
          PROVE  Gather(how)!Owes(x, "PROJECT_DELETE", key)'
      <4>1. harbor[x].there
        BY <1>0, <3>2 DEF Numbered
      <4> QED
        BY <2>1, <2>2, <3>2, <4>1, OwesIs
    <3> QED
      BY <1>1, <2>2, <3>1, <3>2 DEF Accounted, Gather!Gen
  <2> QED
    BY <1>2, <2>5, <2>6, <2>7, <2>8, <2>9, <2>10 DEF CcRest
<1> QED
  BY <1>6, <1>7, <1>8, <1>9, <1>10, <1>11 DEF Gather!Replay

\* A handler that dies leaves what it had begun among the torn.
LEMMA CrashKeeps ==
  ASSUME NEW how, CcSorts(how), how.apart, CcInv(how), CcTyped(how)', NEW r \in Gather(how)!Role,
         Gather(how)!Crash(r)
  PROVE  CcRest(how)'
<1>0. /\ CcTyped(how) /\ Gather(how)!TypeOK /\ OneName(how) /\ OneChange(how) /\ ComposeHand(how)
      /\ MoveHand(how) /\ AdoptHand(how) /\ PassHand(how)
      /\ Numbered(how) /\ OfTheCluster(how) /\ DeletedBefore(how) /\ KeptOrOwed(how)
      /\ Accounted(how)
      /\ "compose" \in Gather(how)!Role /\ "move" \in Gather(how)!Role
      /\ "adopt" \in Gather(how)!Role /\ hand[r].pc # "idle"
      /\ hand' = [hand EXCEPT ![r] = Gather(how)!IdleHand]
      /\ hand \in [Gather(how)!Role -> Gather(how)!Hand]
      /\ UNCHANGED <<member, project, placement, harbor, queue, nextId, pass, claimed>>
  BY CcFacts DEF CcInv, CcRest, CcTyped, Gather!Role, Gather!Crash, Gather!Busy, Gather!Answer
<1>1. pass.pc = "idle" /\ \A q \in Gather(how)!Role : q # r => hand[q].pc = "idle"
  BY <1>0, AloneIs
<1>2. /\ OneChange(how)' /\ PassHand(how)' /\ \A q \in Gather(how)!Role : hand'[q].pc = "idle"
  BY <1>0, <1>1, OneHandMoves, IdleHandIs
<1>3. ComposeHand(how)' /\ MoveHand(how)' /\ AdoptHand(how)'
  BY <1>0, <1>2 DEF ComposeHand, MoveHand, AdoptHand
<1>4. Numbered(how)'
  BY <1>0 DEF Numbered, Gather!Gen
<1>5. /\ \A f : f \in torn => f \in torn'
      /\ r = "move" /\ hand["move"].pc # "inspect" => hand["move"].gen \in torn'
      /\ r = "compose" /\ hand["compose"].pc \in {"backlog", "owe", "unplace", "part"} =>
           hand["compose"].at \in torn'
      /\ \A x \in Harbor : x \in torn' => x \in torn \/
           (r = "compose" /\ hand["compose"].pc \in {"backlog", "owe", "unplace", "part"} /\ x = hand["compose"].at)
  <2>1. CASE r = "move"
    <3>1. hand["move"].gen \in Gather(how)!Gen
      BY <1>0, <2>1 DEF MoveHand
    <3>2. \A x \in Harbor : x # hand["move"].gen
      BY <1>0, <3>1, CcFacts
    <3> QED
      BY <2>1, <3>2 DEF Gather!Crash
  <2>2. CASE r = "compose"
    BY <2>2 DEF Gather!Crash
  <2>3. CASE r = "adopt"
    BY <2>3 DEF Gather!Crash
  <2> QED
    BY <2>1, <2>2, <2>3 DEF Gather!Role
<1>6. OfTheCluster(how)'
  <2>1. \A x \in Harbor : x \in torn' => member[x] # None
    BY <1>0, <1>5, CcFacts DEF OfTheCluster, ComposeHand
  <2> QED
    BY <1>0, <2>1 DEF OfTheCluster, Gather!Gen
<1>7. /\ \A f : Loose(how, f)' <=> f \in torn'
      /\ \A f : Loose(how, f) => f \in torn'
      /\ \A f, x : Uprooted(how, f, x) => Uprooted(how, f, x)'
      /\ \A f, x : Passing(how, f, x) => x \in torn'
      /\ ~AtWork(how, "move", {"owe"})'
      /\ \A f : hand["move"].pc = "clear" /\ hand["move"].gen = f => f \in torn'
  <2>1. hand'["move"].pc = "idle" /\ (r # "move" => hand["move"].pc = "idle") /\ (r # "compose" => hand["compose"].pc = "idle")
    BY <1>0, <1>1, <1>2
  <2> QED
    BY <1>5, <2>1 DEF Loose, Uprooted, Passing, AtWork
<1>8. DeletedBefore(how)'
  BY <1>0, <1>7 DEF DeletedBefore, Gather!Gen
<1>9. KeptOrOwed(how)'
  <2>1. ASSUME NEW f \in Gather(how)!Gen, NEW x \in Harbor, Concerns(how, f, x)'
        PROVE  Gather(how)!Holds(f, x)' \/ Gather(how)!Owes(x, "PROJECT_CREATE", f)' \/ Between(how, f, x)'
    <3>1. Concerns(how, f, x)
      BY <1>0, <1>7, <2>1 DEF Concerns
    <3> QED
      BY <1>0, <1>5, <1>7, <3>1 DEF KeptOrOwed, Between, Gather!Holds, Gather!Owes
  <2> QED
    BY <2>1 DEF KeptOrOwed, Gather!Gen
<1>10. Accounted(how)'
  <2>1. \A x \in Harbor : AtWork(how, "compose", {"part", "unplace"}) /\ hand["compose"].at = x =>
                            x \in torn'
    <3>1. r # "compose" => hand["compose"].pc = "idle"
      BY <1>0, <1>1
    <3> QED
      BY <1>5, <3>1 DEF AtWork
  <2> QED
    BY <1>0, <1>5, <2>1 DEF Accounted, Gather!Owes, AtWork, Gather!Gen
<1> QED
  BY <1>2, <1>3, <1>4, <1>6, <1>8, <1>9, <1>10 DEF CcRest

LEMMA CcNext ==
  ASSUME NEW how, CcSorts(how), how.apart, how.patient, CcInv(how),
         [Gather(how)!Next]_(Gather(how)!vars)
  PROVE  CcInv(how)'
<1>1. CcTyped(how)'
  BY CcTypesNext DEF CcInv
<1>2. CASE UNCHANGED Gather(how)!vars
  <2>1. UNCHANGED <<member, project, placement, harbor, queue, nextId, hand, pass, claimed, torn, served, crashes>>
    BY <1>2 DEF Gather!vars
  <2>2. CcRest(how)'
    <3>1. /\ OneChange(how)' /\ ComposeHand(how)' /\ MoveHand(how)' /\ AdoptHand(how)'
          /\ PassHand(how)'
      BY <2>1
         DEF CcInv, CcRest, OneChange, ComposeHand, MoveHand, AdoptHand, PassHand, Gather!Busy,
             Gather!RowsOf,
                  Gather!Known, Spare, Gather!Owes, Gather!Members, Gather!Holds, Gather!Gen
    <3>2. Numbered(how)' /\ OfTheCluster(how)'
      BY <2>1 DEF CcInv, CcRest, Numbered, OfTheCluster, Gather!Gen
    <3>3. DeletedBefore(how)' /\ KeptOrOwed(how)' /\ Accounted(how)'
      BY <2>1
         DEF CcInv, CcRest, DeletedBefore, KeptOrOwed, Accounted, Loose, AtWork, Concerns,
             Gather!Holds,
                  Gather!Owes, Between, Uprooted, Passing, Gather!Gen
    <3> QED
      BY <3>1, <3>2, <3>3 DEF CcRest
  <2> QED
    BY <1>1, <2>2 DEF CcInv
<1>3. CASE Gather(how)!Compose
  BY <1>1, <1>3, JoinKeeps, LeaveKeeps DEF Gather!Compose, CcInv
<1>4. CASE Gather(how)!Moving
  BY <1>1, <1>4, MoveBegins, MoveRemoves, MoveTurns, MoveArrives DEF Gather!Moving, CcInv
<1>5. CASE Gather(how)!Adopting
  BY <1>1, <1>5, AdoptKeeps DEF CcInv
<1>6. CASE Gather(how)!Replay
  BY <1>1, <1>6, ReplayKeeps DEF CcInv
<1>7. ASSUME NEW r \in Gather(how)!Role, Gather(how)!Crash(r) PROVE CcInv(how)'
  BY <1>1, <1>7, CrashKeeps DEF CcInv
<1> QED
  BY <1>2, <1>3, <1>4, <1>5, <1>6, <1>7 DEF Gather!Next

LEMMA CcStart == ASSUME NEW how, CcSorts(how), Gather(how)!Init PROVE CcInv(how)
<1>0. /\ member \in [Harbor -> Cluster \union {None}]
      /\ project = [g \in Gather(how)!Gen |-> IF g = 1 THEN Home ELSE None]
      /\ harbor \in [Harbor -> {Gather(how)!NoProject, [Gather(how)!NoProject EXCEPT !.id = 1, !.there = TRUE],
                                [Gather(how)!NoProject EXCEPT !.id = 1, !.there = TRUE, !.ours = TRUE]}]
      /\ \A h \in Harbor : harbor[h].there => (harbor[h].ours <=> member[h] = Home)
      /\ placement = [g \in Gather(how)!Gen |-> [h \in Harbor |->
                        IF g = 1 /\ harbor[h].ours THEN harbor[h].id ELSE 0]]
      /\ queue = {Gather(how)!Row(0, h, "PROJECT_CREATE", 1) : h \in {x \in Gather(how)!Members(Home) : ~harbor[x].there}}
      /\ nextId = 1 /\ hand = [r \in Gather(how)!Role |-> Gather(how)!IdleHand]
      /\ pass = Gather(how)!IdlePass
      /\ claimed = {} /\ torn = {}
  BY DEF Gather!Init
<1>1. 1 \in Gather(how)!Gen /\ Home \in Cluster /\ Home # None /\ CcTyped(how)
  BY CcTypesInit DEF Gather!Gen, CcSorts
<1>2. \A h \in Harbor :
        /\ harbor[h].ours => harbor[h].there
        /\ harbor[h].there => harbor[h].id = 1
        /\ harbor[h].id \in Nat
  <2> SUFFICES ASSUME NEW h \in Harbor
               PROVE  (harbor[h].ours => harbor[h].there) /\ (harbor[h].there => harbor[h].id = 1) /\ harbor[h].id \in Nat
    OBVIOUS
  <2>0. \/ harbor[h] = Gather(how)!NoProject \/ harbor[h] = [Gather(how)!NoProject EXCEPT !.id = 1, !.there = TRUE]
        \/ harbor[h] = [Gather(how)!NoProject EXCEPT !.id = 1, !.there = TRUE, !.ours = TRUE]
    BY <1>0
  <2>1. CASE harbor[h] = Gather(how)!NoProject
    BY <2>1 DEF Gather!NoProject
  <2>2. CASE harbor[h] = [Gather(how)!NoProject EXCEPT !.id = 1, !.there = TRUE]
    BY <2>2 DEF Gather!NoProject
  <2>3. CASE harbor[h] = [Gather(how)!NoProject EXCEPT !.id = 1, !.there = TRUE, !.ours = TRUE]
    BY <2>3 DEF Gather!NoProject
  <2> QED
    BY <2>0, <2>1, <2>2, <2>3
<1>3. \A op \in queue : \E h \in Harbor :
        /\ op = Gather(how)!Row(0, h, "PROJECT_CREATE", 1) /\ op.id = 0 /\ op.registry = h
        /\ op.kind = "PROJECT_CREATE"
        /\ op.key = 1 /\ member[h] = Home
  BY <1>0 DEF Gather!Members, Gather!Row
<1>4. /\ \A r \in Gather(how)!Role : hand[r].pc = "idle"
      /\ pass.pc = "idle" /\ "compose" \in Gather(how)!Role /\ "move" \in Gather(how)!Role
      /\ "adopt" \in Gather(how)!Role
  BY <1>0, IdleHandIs DEF Gather!IdlePass, Gather!Role
<1>5. OneChange(how) /\ ComposeHand(how) /\ MoveHand(how) /\ AdoptHand(how) /\ PassHand(how)
  BY <1>4 DEF OneChange, Gather!Busy, ComposeHand, MoveHand, AdoptHand, PassHand
<1>6. \A g \in Gather(how)!Gen, h \in Harbor : placement[g][h] = IF g = 1 /\ harbor[h].ours THEN harbor[h].id ELSE 0
  BY <1>0
<1>7. Numbered(how)
  <2>1. \A op, other \in queue : op.registry = other.registry => op = other
    BY <1>3
  <2>2. \A h \in Harbor : harbor[h].ours => harbor[h].there /\ member[h] # None
    BY <1>0, <1>1, <1>2
  <2>3. \A g \in Gather(how)!Gen, h \in Harbor : placement[g][h] <= harbor[h].id
    <3> SUFFICES ASSUME NEW g \in Gather(how)!Gen, NEW h \in Harbor
                 PROVE  placement[g][h] <= harbor[h].id
      OBVIOUS
    <3>1. harbor[h].id \in Nat
      BY <1>2
    <3>2. placement[g][h] = harbor[h].id \/ placement[g][h] = 0
      BY <1>6
    <3> QED
      BY <3>1, <3>2
  <2>4. nextId = 1 /\ \A op \in queue : op.id = 0 /\ op.kind # "PROJECT_DELETE"
    BY <1>0, <1>3
  <2> QED
    BY <1>2, <2>1, <2>2, <2>3, <2>4 DEF Numbered
<1>8. OfTheCluster(how)
  BY <1>0, <1>1, <1>2, <1>3, <1>6 DEF OfTheCluster
<1>9. DeletedBefore(how)
  BY <1>3 DEF DeletedBefore
<1>10. KeptOrOwed(how)
  <2>1. ASSUME NEW g \in Gather(how)!Gen, NEW h \in Harbor, Concerns(how, g, h)
        PROVE  Gather(how)!Holds(g, h) \/ Gather(how)!Owes(h, "PROJECT_CREATE", g)
    <3>1. g = 1 /\ member[h] = Home
      BY <1>0, <2>1 DEF Concerns
    <3>2. CASE harbor[h].there
      BY <1>0, <1>2, <1>6, <3>1, <3>2 DEF Gather!Holds
    <3>3. CASE ~harbor[h].there
      <4>1. Gather(how)!Row(0, h, "PROJECT_CREATE", 1) \in queue
        BY <1>0, <3>1, <3>3 DEF Gather!Members
      <4> QED
        BY <3>1, <4>1, OwesIs DEF Gather!Row
    <3> QED
      BY <3>2, <3>3
  <2> QED
    BY <2>1 DEF KeptOrOwed
<1>11. Accounted(how)
  BY <1>1, <1>6 DEF Accounted
<1> QED
  BY <1>1, <1>5, <1>7, <1>8, <1>9, <1>10, <1>11 DEF CcInv, CcRest

\* What the invariant says where nobody is half way.
LEMMA CcShows ==
  ASSUME NEW how, CcSorts(how), CcInv(how)
  PROVE  Gather(how)!MemberHolds /\ Gather(how)!PlacementIsTrue /\ Gather(how)!NothingStray
<1>0. OfTheCluster(how) /\ KeptOrOwed(how) /\ Accounted(how)
  BY DEF CcInv, CcRest
<1>1. ASSUME NEW g \in Gather(how)!Gen, NEW h \in Harbor, Gather(how)!Settled(g, h),
             Between(how, g, h)
      PROVE  FALSE
  BY <1>1 DEF Gather!Settled, Between, Uprooted, Passing, AtWork, Gather!Busy
<1>2. Gather(how)!MemberHolds
  BY <1>0, <1>1 DEF Gather!MemberHolds, KeptOrOwed, Concerns
<1>3. Gather(how)!PlacementIsTrue
  BY <1>0, <1>1 DEF Gather!PlacementIsTrue, KeptOrOwed, Concerns, OfTheCluster
<1>4. Gather(how)!NothingStray
  BY <1>0 DEF Gather!NothingStray, Accounted, AtWork, Gather!Busy
<1> QED
  BY <1>2, <1>3, <1>4

\* What the constants have to be for any instance whose bounds are numbers.
Berths(how) == None \notin Gather(how)!Op
Grounds ==
  /\ Harbor \intersect Nat = {} /\ None \notin Cluster /\ None \notin Harbor
  /\ Home \in Cluster

LEMMA ClustersAreSpelt ==
  ASSUME Grounds, Berths(Meet), Berths(Rush)
  PROVE  CcSorts(Meet) /\ CcSorts(Rush)
<1>1. /\ Meet.projects = 2 /\ Meet.requests = 3 /\ Meet.crashes = 1
      /\ Rush.projects = 2 /\ Rush.requests = 2 /\ Rush.crashes = 0
  BY DEF Meet, Rush
<1> QED
  BY <1>1 DEF CcSorts, Grounds, Berths

-----------------------------------------------------------------------------
(* The theorems about MCProjects.                                          *)

\* What the constants have to be: None is not a row of the queue, nor a Harbor or a cluster, and
\* no Harbor is a number.
Sorts == None \notin LifeProof!Op /\ None \notin NameProof!Op /\ ArtSorts(Wipe)
         /\ NobodyIsNone(Names) /\ NobodyIsNone(Moves)
         /\ Grounds /\ Berths(Meet) /\ Berths(Rush)

\* The instance a behaviour follows stays the same, and moves as it does on its own.
LEMMA Follows ==
  ASSUME [Next]_vars
  PROVE  /\ part' = part
         /\ part = "life" => [LifeProof!Next]_(LifeProof!vars)
         /\ part = "name" => [NameProof!Next]_(NameProof!vars)
         /\ part = "wipe" => [Removal(Wipe)!Next]_(Removal(Wipe)!vars)
         /\ part = "names" => [Naming(Names)!Next]_(Naming(Names)!vars)
         /\ part = "moves" => [Naming(Moves)!Next]_(Naming(Moves)!vars)
         /\ part = "meet" => [Gather(Meet)!Next]_(Gather(Meet)!vars)
         /\ part = "rush" => [Gather(Rush)!Next]_(Gather(Rush)!vars)
<1>1. CASE UNCHANGED vars
  BY <1>1
     DEF vars, lifeVars, clusterVars, imageVars, nameVars, LifeProof!vars, NameProof!vars,
         Removal!vars, Naming!vars, Gather!vars
<1>2. CASE Next
  BY <1>2, SameLife, SameName DEF Next
<1> QED
  BY <1>1, <1>2

\* A behaviour begins as that of one instance.
LEMMA Begins ==
  ASSUME Init
  PROVE  /\ part = "life" => LifeProof!Init
         /\ part = "name" => NameProof!Init
         /\ part = "wipe" => Removal(Wipe)!Init
         /\ part = "names" => Naming(Names)!Init
         /\ part = "moves" => Naming(Moves)!Init
         /\ part = "meet" => Gather(Meet)!Init
         /\ part = "rush" => Gather(Rush)!Init
  BY SameLife, SameName DEF Init

\* What follows from the theorems for the constants of the two instances.
LEMMA Instances ==
  ASSUME Sorts
  PROVE  /\ LifeProof!Spec => []LifeProof!ActiveIsHeld
         /\ LifeProof!Spec => []LifeProof!FailedIsOwed
         /\ LifeProof!Spec => []LifeProof!DeletedIsOwed
         /\ LifeProof!Spec => []LifeProof!TypeOK
         /\ NameProof!Spec => []NameProof!ActiveIsHeld
         /\ NameProof!Spec => []NameProof!FailedIsOwed
         /\ NameProof!Spec => []NameProof!DeletedIsOwed
         /\ NameProof!Spec => []NameProof!TypeOK
<1>1. LifeProof!Sorts /\ NameProof!Sorts
  BY DEF Sorts, LifeProof!Sorts, NameProof!Sorts
<1> QED
  BY <1>1, LifeProof!ActiveHolds, LifeProof!FailedHolds, LifeProof!DeletedHolds,
     NameProof!ActiveHolds, NameProof!FailedHolds, NameProof!DeletedHolds,
     LifeProof!TypeCorrect, NameProof!TypeCorrect

\* An active project is on every Harbor of its cluster or owed to it, some Harbor holds it, and
\* a placement shown as failed is owed its replay: for any Harbors and any administrators who
\* approve and delete it.
THEOREM ActiveIsHeldHolds == ASSUME Sorts PROVE Spec => []ActiveIsHeld
<1>1. /\ Init /\ part = "life" => LifeProof!Init
      /\ Init /\ part = "name" => NameProof!Init
  BY Begins
<1>2. [Next]_vars /\ part = "life" => (part = "life")' /\ [LifeProof!Next]_(LifeProof!vars)
  BY Follows
<1>3. [Next]_vars /\ part = "name" => (part = "name")' /\ [NameProof!Next]_(NameProof!vars)
  BY Follows
<1>4. /\ [Next]_vars /\ ~(part = "life") => ~(part = "life")'
      /\ [Next]_vars /\ ~(part = "name") => ~(part = "name")'
  BY Follows
<1>5. /\ LifeProof!Spec => []LifeProof!ActiveIsHeld
      /\ LifeProof!Spec => []LifeProof!FailedIsOwed
  BY Instances
<1>6. /\ NameProof!Spec => []NameProof!ActiveIsHeld
      /\ NameProof!Spec => []NameProof!FailedIsOwed
  BY Instances
<1>7. /\ (LifeProof!ActiveIsHeld /\ LifeProof!FailedIsOwed) \/ ~(part = "life")
      /\ (NameProof!ActiveIsHeld /\ NameProof!FailedIsOwed) \/ ~(part = "name")
      => ActiveIsHeld
  BY SameLife, SameName DEF ActiveIsHeld
<1> QED
  BY <1>1, <1>2, <1>3, <1>4, <1>5, <1>6, <1>7, PTL DEF Spec, LifeProof!Spec, NameProof!Spec

\* What a Harbor holds of a deleted project is owed its deletion, or was refused as not empty,
\* and no Harbor is owed its creation: for any Harbors and any administrators.
THEOREM DeletedIsOwedHolds == ASSUME Sorts PROVE Spec => []DeletedIsOwed
<1>1. /\ Init /\ part = "life" => LifeProof!Init
      /\ Init /\ part = "name" => NameProof!Init
  BY Begins
<1>2. [Next]_vars /\ part = "life" => (part = "life")' /\ [LifeProof!Next]_(LifeProof!vars)
  BY Follows
<1>3. [Next]_vars /\ part = "name" => (part = "name")' /\ [NameProof!Next]_(NameProof!vars)
  BY Follows
<1>4. /\ [Next]_vars /\ ~(part = "life") => ~(part = "life")'
      /\ [Next]_vars /\ ~(part = "name") => ~(part = "name")'
  BY Follows
<1>5. LifeProof!Spec => []LifeProof!DeletedIsOwed
  BY Instances
<1>6. NameProof!Spec => []NameProof!DeletedIsOwed
  BY Instances
<1>7. /\ LifeProof!DeletedIsOwed \/ ~(part = "life")
      /\ NameProof!DeletedIsOwed \/ ~(part = "name")
      => DeletedIsOwed
  BY SameLife, SameName DEF DeletedIsOwed
<1> QED
  BY <1>1, <1>2, <1>3, <1>4, <1>5, <1>6, <1>7, PTL DEF Spec, LifeProof!Spec, NameProof!Spec

\* The invariant of the images holds of the behaviours that remove them.
LEMMA ArtHolds == ASSUME Sorts PROVE Spec => [](part = "wipe" => ArtInv(Wipe))
<1>1. Init => (part = "wipe" => ArtInv(Wipe))
  BY Begins, ArtStarts DEF Sorts
<1>2. (part = "wipe" => ArtInv(Wipe)) /\ [Next]_vars => (part = "wipe" => ArtInv(Wipe))'
  BY Follows, ArtNext DEF Sorts
<1> QED
  BY <1>1, <1>2, PTL DEF Spec

\* Once all that was queued has been replayed, an image that was removed is on no Harbor,
\* unless the mesh copies at times (deleteProjectArtifact, fanout.ts): whatever fails, whatever
\* answer is lost, for any Harbors and images.
THEOREM StaysRemovedHolds == ASSUME Sorts PROVE Spec => []StaysRemoved
<1>1. Spec => [](part = "wipe" => ArtInv(Wipe))
  BY ArtHolds
<1>2. (part = "wipe" => ArtInv(Wipe)) => StaysRemoved
  BY RemovedShown DEF Sorts, StaysRemoved
<1> QED
  BY <1>1, <1>2, PTL

\* An image that was not removed is on some Harbor: no removal takes what it does not name,
\* now or when its row is replayed (deleteProjectArtifact, replay): for any Harbors and images.
THEOREM KeptIsServedHolds == ASSUME Sorts PROVE Spec => []KeptIsServed
<1>1. Spec => [](part = "wipe" => ArtInv(Wipe))
  BY ArtHolds
<1>2. (part = "wipe" => ArtInv(Wipe)) => KeptIsServed
  BY DEF KeptIsServed, ArtInv
<1> QED
  BY <1>1, <1>2, PTL

\* The invariant of the accounts holds of the behaviours that change them.
Told == /\ part = "names" => IdInv(Names)
        /\ part = "moves" => IdInv(Moves)
LEMMA IdHolds == ASSUME Sorts PROVE Spec => []Told
<1>0. IdSorts(Names) /\ IdSorts(Moves)
  BY NamesAreSpelt, MovesAreSpelt DEF Sorts
<1>1. Init => Told
  BY <1>0, Begins, IdStarts DEF Told
<1>2. Told /\ [Next]_vars => Told'
  <2> SUFFICES ASSUME Told, [Next]_vars PROVE Told'
    OBVIOUS
  <2>0. part' = part
    BY Follows
  <2>1. CASE part = "names"
    <3>1. IdInv(Names) /\ [Naming(Names)!Next]_(Naming(Names)!vars)
      BY <2>1, Follows DEF Told
    <3>2. IdInv(Names)'
      BY <1>0, <3>1, IdNext
    <3> QED
      BY <2>0, <2>1, <3>2 DEF Told
  <2>2. CASE part = "moves"
    <3>1. IdInv(Moves) /\ [Naming(Moves)!Next]_(Naming(Moves)!vars)
      BY <2>2, Follows DEF Told
    <3>2. IdInv(Moves)'
      BY <1>0, <3>1, IdNext
    <3> QED
      BY <2>0, <2>2, <3>2 DEF Told
  <2> QED
    BY <2>0, <2>1, <2>2 DEF Told
<1> QED
  BY <1>1, <1>2, PTL DEF Spec

\* Whoever a Harbor lets in is what some member goes by, or is owed the removal, and every member
\* is let in or owed the grant, at any moment no request is being served and no row replayed
\* (mapIdentity, unmapIdentity, syncMemberAdd, replay): whichever calls fail, whatever accounts
\* people are given, taken and given again.
THEOREM AccountsAreTrueHolds == ASSUME Sorts PROVE Spec => []AccountsAreTrue
<1>0. IdSorts(Names) /\ IdSorts(Moves)
  BY NamesAreSpelt, MovesAreSpelt DEF Sorts
<1>1. Spec => []Told
  BY IdHolds
<1>2. Told => AccountsAreTrue
  <2> SUFFICES ASSUME Told PROVE AccountsAreTrue
    OBVIOUS
  <2>1. CASE part = "names"
    <3>1. IdInv(Names)
      BY <2>1 DEF Told
    <3>2. Naming(Names)!GrantIsSomebodys /\ Naming(Names)!MemberIsLetIn
      BY <1>0, <3>1, AccountsShown
    <3> QED
      BY <2>1, <3>2 DEF AccountsAreTrue
  <2>2. CASE part = "moves"
    <3>1. IdInv(Moves)
      BY <2>2 DEF Told
    <3>2. Naming(Moves)!GrantIsSomebodys /\ Naming(Moves)!MemberIsLetIn
      BY <1>0, <3>1, AccountsShown
    <3> QED
      BY <2>2, <3>2 DEF AccountsAreTrue
  <2> QED
    BY <2>1, <2>2 DEF AccountsAreTrue
<1> QED
  BY <1>1, <1>2, PTL

\* One change at a time, the whole invariant of the clusters holds; with every step interleaved,
\* the types, and that a name is that of one project in its cluster.
Gathered == /\ part = "meet" => CcInv(Meet)
            /\ part = "rush" => CcTyped(Rush)
LEMMA GatheredHolds == ASSUME Sorts PROVE Spec => []Gathered
<1>0. CcSorts(Meet) /\ CcSorts(Rush) /\ Meet.apart /\ Meet.patient
  BY ClustersAreSpelt DEF Sorts, Meet
<1>1. Init => Gathered
  BY <1>0, Begins, CcStart, CcTypesInit DEF Gathered
<1>2. Gathered /\ [Next]_vars => Gathered'
  <2> SUFFICES ASSUME Gathered, [Next]_vars PROVE Gathered'
    OBVIOUS
  <2>0. part' = part
    BY Follows
  <2>1. CASE part = "meet"
    <3>1. CcInv(Meet) /\ [Gather(Meet)!Next]_(Gather(Meet)!vars)
      BY <2>1, Follows DEF Gathered
    <3>2. CcInv(Meet)'
      BY <1>0, <3>1, CcNext
    <3> QED
      BY <2>0, <2>1, <3>2 DEF Gathered
  <2>2. CASE part = "rush"
    <3>1. CcTyped(Rush) /\ [Gather(Rush)!Next]_(Gather(Rush)!vars)
      BY <2>2, Follows DEF Gathered
    <3>2. CcTyped(Rush)'
      BY <1>0, <3>1, CcTypesNext
    <3> QED
      BY <2>0, <2>2, <3>2 DEF Gathered
  <2> QED
    BY <2>0, <2>1, <2>2 DEF Gathered
<1> QED
  BY <1>1, <1>2, PTL DEF Spec

\* One change at a time, every member of a project's cluster holds the project or is owed it: a
\* Harbor that joins is owed the backlog, one that leaves is owed nothing, a project that moves is
\* owed to the cluster it moves to, an adopted one to the members that lack it (service.ts,
\* move-project.ts, adopt.ts), whatever fails or dies half way.  With every step interleaved this
\* is false in larger instances.
THEOREM MemberHoldsApart == ASSUME Sorts PROVE Spec => [](part = "meet" => MemberHolds)
<1>0. CcSorts(Meet)
  BY ClustersAreSpelt DEF Sorts
<1>1. Spec => []Gathered
  BY GatheredHolds
<1>2. Gathered => (part = "meet" => MemberHolds)
  BY <1>0, CcShows DEF Gathered, MemberHolds
<1> QED
  BY <1>1, <1>2, PTL

\* One change at a time, a placement is of a member of the project's cluster and names the project
\* the Harbor holds (leaveRegistry forgets the placements of a Harbor, moveProject those of the
\* cluster it leaves).
THEOREM PlacementIsTrueHolds == ASSUME Sorts PROVE Spec => []PlacementIsTrue
<1>0. CcSorts(Meet)
  BY ClustersAreSpelt DEF Sorts
<1>1. Spec => []Gathered
  BY GatheredHolds
<1>2. Gathered => PlacementIsTrue
  BY <1>0, CcShows DEF Gathered, PlacementIsTrue
<1> QED
  BY <1>1, <1>2, PTL

\* One change at a time, what the Gateway put on a member is known by its id, or its deletion is
\* owed or was refused: no move and no departure leaves a project behind on a member of a cluster.
THEOREM NothingStrayHolds == ASSUME Sorts PROVE Spec => []NothingStray
<1>0. CcSorts(Meet)
  BY ClustersAreSpelt DEF Sorts
<1>1. Spec => []Gathered
  BY GatheredHolds
<1>2. Gathered => NothingStray
  BY <1>0, CcShows DEF Gathered, NothingStray
<1> QED
  BY <1>1, <1>2, PTL

\* A behaviour follows one of the instances, all the way.
Followed == part \in {"life", "name", "meet", "rush", "wipe", "names", "moves"}

\* Type correctness of every instance, with every step of the cluster changes interleaved in one
\* of them.
THEOREM TypesHold == ASSUME Sorts PROVE Spec => []TypeOK
<1>1. /\ Init /\ part = "life" => LifeProof!Init
      /\ Init /\ part = "name" => NameProof!Init
  BY Begins
<1>2. [Next]_vars /\ part = "life" => (part = "life")' /\ [LifeProof!Next]_(LifeProof!vars)
  BY Follows
<1>3. [Next]_vars /\ part = "name" => (part = "name")' /\ [NameProof!Next]_(NameProof!vars)
  BY Follows
<1>4. /\ [Next]_vars /\ ~(part = "life") => ~(part = "life")'
      /\ [Next]_vars /\ ~(part = "name") => ~(part = "name")'
      /\ [Next]_vars /\ Followed => Followed'
  BY Follows DEF Followed
<1>5. Init => Followed
  BY DEF Init, Followed
<1>6. LifeProof!Spec => []LifeProof!TypeOK
  BY Instances
<1>7. NameProof!Spec => []NameProof!TypeOK
  BY Instances
<1>8. Spec => []Gathered
  BY GatheredHolds
<1>9. Spec => []Told
  BY IdHolds
<1>10. Spec => [](part = "wipe" => ArtInv(Wipe))
  BY ArtHolds
<1>11. /\ LifeProof!TypeOK \/ ~(part = "life")
       /\ NameProof!TypeOK \/ ~(part = "name")
       /\ Followed /\ Gathered /\ Told /\ (part = "wipe" => ArtInv(Wipe))
       => TypeOK
  BY SameLife, SameName
     DEF TypeOK, Followed, Gathered, Told, CcInv, CcTyped, IdInv, ArtInv, ArtTyped
<1> QED
  BY <1>1, <1>2, <1>3, <1>4, <1>5, <1>6, <1>7, <1>8, <1>9, <1>10, <1>11, PTL
     DEF Spec, LifeProof!Spec, NameProof!Spec

=============================================================================
