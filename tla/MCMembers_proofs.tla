-------------------------- MODULE MCMembers_proofs --------------------------
(***************************************************************************)
(* What holds of the links of a cluster's mesh, of the robots of a project *)
(* and of the Gateway's own robot, for any registries, edges and handlers, *)
(* and any number of requests and of deaths.  The theorems about MCMembers *)
(* are at the end: they follow from those about the components, of which   *)
(* ReplicationMesh has its proofs in a module of its own.                  *)
(***************************************************************************)
EXTENDS MCMembers, FiniteSetTheorems, TLAPS

MeshProof == INSTANCE ReplicationMesh_proofs WITH Founders <- Harbor

-----------------------------------------------------------------------------
(* The Gateway's own robot on a Harbor.                                    *)

\* What the constants have to be: there is always a secret that is in use nowhere.
OwnSorts(how) ==
  /\ IsFiniteSet(how.callers) /\ worker \notin how.callers /\ None \notin Own(how)!Actor
  /\ how.faults \in BOOLEAN /\ how.apart \in BOOLEAN
  /\ MaxSecrets \in Nat /\ MaxSecrets > 4 + 2 * Cardinality(Own(how)!Actor)
  /\ admin \notin Own(how)!Secret /\ None \notin Own(how)!Secret /\ admin # None
  /\ MaxRequests \in Nat /\ how.crashes \in Nat

\* The secrets that are in use.
SecretsInUse(how) == {robot, row, link.login, link.fp}
           \union {hand[c].secret : c \in Own(how)!Actor} \union {hand[c].issued : c \in Own(how)!Actor}

\* An element more makes a set larger by one at most.
LEMMA OneMore ==
  ASSUME NEW S, IsFiniteSet(S), NEW x
  PROVE  /\ IsFiniteSet(S \union {x})
         /\ Cardinality(S) \in Nat /\ Cardinality(S \union {x}) \in Nat
         /\ Cardinality(S \union {x}) <= Cardinality(S) + 1
<1>1. Cardinality(S) \in Nat
  BY FS_CardinalityType
<1>2. /\ IsFiniteSet(S \union {x})
      /\ \/ Cardinality(S \union {x}) = Cardinality(S)
         \/ Cardinality(S \union {x}) = Cardinality(S) + 1
  BY FS_AddElement
<1> QED
  BY <1>1, <1>2

\* Two sets are together no larger than the sum of their sizes.
LEMMA Together ==
  ASSUME NEW S, IsFiniteSet(S), NEW k \in Nat, Cardinality(S) <= k,
         NEW T, IsFiniteSet(T), NEW m \in Nat, Cardinality(T) <= m
  PROVE  IsFiniteSet(S \union T) /\ Cardinality(S \union T) <= k + m
<1>1. Cardinality(S \union T)
        = Cardinality(S) + Cardinality(T) - Cardinality(S \intersect T)
  BY FS_Union
<1>2. IsFiniteSet(S \union T) /\ IsFiniteSet(S \intersect T)
  BY FS_Union, FS_Intersection
<1>3. /\ Cardinality(S) \in Nat /\ Cardinality(T) \in Nat
      /\ Cardinality(S \intersect T) \in Nat
  BY <1>2, FS_CardinalityType
<1> QED
  BY <1>1, <1>2, <1>3

\* The values of a function are no more than its arguments.
LEMMA ImageIsNoLarger ==
  ASSUME NEW S, IsFiniteSet(S), NEW f, f \in [S -> {f[x] : x \in S}]
  PROVE  IsFiniteSet({f[x] : x \in S}) /\ Cardinality({f[x] : x \in S}) <= Cardinality(S)
<1> DEFINE T == {f[x] : x \in S}
<1>1. f \in Surjection(S, T)
  BY DEF Surjection
<1> HIDE DEF T
<1> QED
  BY <1>1, FS_Surjection DEF T

\* Four things are no more than four.
LEMMA FourAtMost ==
  ASSUME NEW a, NEW b, NEW d, NEW e
  PROVE  IsFiniteSet({a, b, d, e}) /\ Cardinality({a, b, d, e}) <= 4
<1> DEFINE A == {a}
           B == A \union {b}
           C == B \union {d}
           D == C \union {e}
<1>1. IsFiniteSet(A) /\ Cardinality(A) <= 1
  BY FS_Singleton
<1> HIDE DEF A
<1>2. IsFiniteSet(B) /\ Cardinality(B) <= 2
  <2>1. /\ IsFiniteSet(B) /\ Cardinality(A) \in Nat /\ Cardinality(B) \in Nat
        /\ Cardinality(B) <= Cardinality(A) + 1
    BY <1>1, OneMore, Zenon
  <2> QED
    BY <1>1, <2>1
<1> HIDE DEF B
<1>3. IsFiniteSet(C) /\ Cardinality(C) <= 3
  <2>1. /\ IsFiniteSet(C) /\ Cardinality(B) \in Nat /\ Cardinality(C) \in Nat
        /\ Cardinality(C) <= Cardinality(B) + 1
    BY <1>2, OneMore, Zenon
  <2> QED
    BY <1>2, <2>1
<1> HIDE DEF C
<1>4. IsFiniteSet(D) /\ Cardinality(D) <= 4
  <2>1. /\ IsFiniteSet(D) /\ Cardinality(C) \in Nat /\ Cardinality(D) \in Nat
        /\ Cardinality(D) <= Cardinality(C) + 1
    BY <1>3, OneMore, Zenon
  <2> QED
    BY <1>3, <2>1
<1>5. {a, b, d, e} = D
  BY DEF A, B, C
<1> QED
  BY <1>4, <1>5

\* The secret chosen is in use nowhere: there are more than the rows and hands can hold.
LEMMA FreshIsSecret ==
  ASSUME NEW how, OwnSorts(how)
  PROVE  Own(how)!Fresh \in Own(how)!Secret /\ Own(how)!Fresh # None /\ Own(how)!Fresh \notin SecretsInUse(how)
<1> DEFINE f == [c \in Own(how)!Actor |-> hand[c].secret]
           g == [c \in Own(how)!Actor |-> hand[c].issued]
           given == {f[c] : c \in Own(how)!Actor}
           issued == {g[c] : c \in Own(how)!Actor}
           four == {robot, row, link.login, link.fp}
           n == Cardinality(Own(how)!Actor)
<1>1. IsFiniteSet(Own(how)!Actor) /\ n \in Nat
  BY FS_AddElement, FS_CardinalityType, FS_EmptySet, FS_Union, FS_Singleton DEF OwnSorts, Own!Actor
<1>2. IsFiniteSet(given) /\ Cardinality(given) <= n
  BY <1>1, ImageIsNoLarger
<1>3. IsFiniteSet(issued) /\ Cardinality(issued) <= n
  BY <1>1, ImageIsNoLarger
<1>4. IsFiniteSet(four) /\ Cardinality(four) <= 4
  BY FourAtMost
<1>6. IsFiniteSet(SecretsInUse(how)) /\ Cardinality(SecretsInUse(how)) <= 4 + n + n
  <2>1. given = {hand[c].secret : c \in Own(how)!Actor} /\ issued = {hand[c].issued : c \in Own(how)!Actor}
    OBVIOUS
  <2>2. SecretsInUse(how) = (four \union given) \union issued
    BY <2>1 DEF SecretsInUse
  <2> HIDE DEF given, four, issued, n
  <2>3. IsFiniteSet(four \union given) /\ Cardinality(four \union given) <= 4 + n
    BY <1>1, <1>2, <1>4, Together
  <2> DEFINE both == four \union given
             k == 4 + n
  <2>4. k \in Nat /\ IsFiniteSet(both) /\ Cardinality(both) <= k
    BY <1>1, <2>3
  <2> HIDE DEF both, k
  <2>5. IsFiniteSet(both \union issued) /\ Cardinality(both \union issued) <= k + n
    BY <1>1, <1>3, <2>4, Together
  <2> QED
    BY <2>2, <2>5 DEF both, k
<1>7. Cardinality(Own(how)!Secret) = MaxSecrets
  BY FS_Interval DEF Own!Secret, OwnSorts
<1>8. \E s \in Own(how)!Secret : s \notin SecretsInUse(how)
  <2>1. SUFFICES ASSUME Own(how)!Secret \subseteq SecretsInUse(how) PROVE FALSE
    OBVIOUS
  <2>2. Cardinality(Own(how)!Secret) <= Cardinality(SecretsInUse(how))
    BY <2>1, <1>6, FS_Subset
  <2>3. Cardinality(SecretsInUse(how)) \in Nat
    BY <1>6, FS_CardinalityType
  <2>4. MaxSecrets \in Nat /\ MaxSecrets > 4 + 2 * n
    BY DEF OwnSorts
  <2> HIDE DEF n
  <2> QED
    BY <1>1, <1>6, <1>7, <2>2, <2>3, <2>4
<1>9. Own(how)!Fresh = CHOOSE s \in Own(how)!Secret : s \notin SecretsInUse(how)
  BY Zenon DEF Own!Fresh, SecretsInUse
<1> QED
  BY <1>8, <1>9 DEF OwnSorts

-----------------------------------------------------------------------------
\* Whoever is about to store a secret has one.
HasSecret(how) == \A c \in Own(how)!Actor : hand[c].pc \in {"before", "write", "owe"} => hand[c].secret \in Own(how)!Secret

\* The types, and what they rest on.
OwnTyped(how) == Own(how)!TypeOK /\ HasSecret(how)

\* The types hold at first.
LEMMA OwnTypedInit == ASSUME NEW how, OwnSorts(how), Own(how)!Init PROVE OwnTyped(how)
<1>1. 1 \in Own(how)!Secret
  <2>1. Cardinality(Own(how)!Actor) \in Nat
    BY FS_CardinalityType, FS_AddElement DEF OwnSorts, Own!Actor
  <2> QED
    BY <2>1 DEF OwnSorts, Own!Secret
<1>2. Own(how)!IdleHand \in Own(how)!Hand
  BY DEF Own!IdleHand, Own!Hand, Own!Login
<1>3. hand \in [Own(how)!Actor -> Own(how)!Hand] /\ HasSecret(how)
  BY <1>2 DEF Own!Init, HasSecret, Own!IdleHand
<1>4. healthy \in BOOLEAN
  BY DEF Own!Init, OwnSorts
<1>5. link \in [login : Own(how)!Login, fp : Own(how)!Login] /\ robot \in Own(how)!Secret \union {None}
  BY <1>1 DEF Own!Init, Own!Login
<1>6. requests \in 0..MaxRequests /\ crashes \in 0..how.crashes
  BY DEF Own!Init, OwnSorts
<1> QED
  BY <1>3, <1>4, <1>5, <1>6, Zenon DEF Own!Init, OwnTyped, Own!TypeOK

\* What one hand does to its own record.
LEMMA OwnTypedMove ==
  ASSUME NEW how, OwnSorts(how), OwnTyped(how), NEW c \in Own(how)!Actor, NEW new \in Own(how)!Hand,
         hand' = [hand EXCEPT ![c] = new],
         new.pc \in {"before", "write", "owe"} => new.secret \in Own(how)!Secret
  PROVE  hand' \in [Own(how)!Actor -> Own(how)!Hand] /\ HasSecret(how)'
  BY DEF OwnTyped, Own!TypeOK, HasSecret

\* A request keeps the types.
LEMMA OwnTypedStart ==
  ASSUME NEW how, OwnSorts(how), OwnTyped(how), NEW c \in how.callers,
         Own(how)!Ensure(c) \/ Own(how)!Rotate(c) \/ Own(how)!Forget(c)
  PROVE  OwnTyped(how)'
<1>1. ASSUME NEW new \in Own(how)!Hand, Own(how)!Start(c, new),
             row' \in Own(how)!Secret \union {None},
             new.pc \notin {"before", "write", "owe"}
      PROVE  OwnTyped(how)'
  <2>1. hand' \in [Own(how)!Actor -> Own(how)!Hand] /\ HasSecret(how)'
    BY <1>1, OwnTypedMove DEF Own!Start, Own!Actor
  <2> QED
    BY <1>1, <2>1 DEF Own!Start, OwnTyped, Own!TypeOK, OwnSorts
<1> QED
  BY <1>1
     DEF Own!Ensure, Own!Rotate, Own!Forget, Own!IdleHand, Own!Hand, Own!Login, OwnTyped, Own!TypeOK

\* A step of a provision keeps the types.
LEMMA OwnTypedHand ==
  ASSUME NEW how, OwnSorts(how), OwnTyped(how), NEW c \in Own(how)!Actor, Own(how)!HandStep(c)
  PROVE  OwnTyped(how)'
<1> DEFINE old == hand[c]
<1>0. /\ old \in Own(how)!Hand /\ hand \in [Own(how)!Actor -> Own(how)!Hand] /\ lock \in Own(how)!Actor \union {None}
      /\ row \in Own(how)!Secret \union {None} /\ robot \in Own(how)!Secret \union {None}
      /\ Own(how)!IdleHand \in Own(how)!Hand
  BY DEF OwnTyped, Own!TypeOK, Own!IdleHand, Own!Hand, Own!Login
<1>1. Own(how)!Fresh \in Own(how)!Secret
  BY FreshIsSecret
<1>2. ASSUME NEW s \in Own(how)!Login, Own(how)!Given(c, s)
      PROVE  hand' \in [Own(how)!Actor -> Own(how)!Hand] /\ HasSecret(how)' /\ lock' \in Own(how)!Actor \union {None}
  <2> DEFINE new == IF c = worker
               THEN [Own(how)!IdleHand EXCEPT !.pc = "endpoint", !.force = hand[c].force, !.secret = s]
               ELSE Own(how)!IdleHand
  <2>1. new \in Own(how)!Hand /\ new.pc \notin {"before", "write", "owe"}
    BY <1>0 DEF Own!IdleHand, Own!Hand, Own!Login
  <2>2. hand' = [hand EXCEPT ![c] = new]
    BY <1>2 DEF Own!Given
  <2>3. hand' \in [Own(how)!Actor -> Own(how)!Hand] /\ HasSecret(how)'
    <3> HIDE DEF new
    <3> QED
      BY <2>1, <2>2, OwnTypedMove
  <2> QED
    BY <1>0, <1>2, <2>3 DEF Own!Given
<1>3. CASE Own(how)!TryLock(c)
  <2>1. PICK new \in Own(how)!Hand : new.pc \notin {"before", "write", "owe"}
                            /\ hand' = [hand EXCEPT ![c] = new]
    <3>1. CASE lock # None
      BY <1>0, <1>3, <3>1 DEF Own!TryLock, Own!IdleHand
    <3>2. CASE lock = None
      <4> DEFINE new == [old EXCEPT !.pc = IF old.kind = "ensure" THEN "again" ELSE "find"]
      <4>1. new \in Own(how)!Hand /\ new.pc \notin {"before", "write", "owe"}
        BY <1>0 DEF Own!Hand
      <4>2. hand' = [hand EXCEPT ![c] = new]
        BY <1>3, <3>2 DEF Own!TryLock
      <4> QED
        BY <4>1, <4>2
    <3> QED
      BY <3>1, <3>2
  <2>2. hand' \in [Own(how)!Actor -> Own(how)!Hand] /\ HasSecret(how)'
    BY <2>1, OwnTypedMove
  <2> QED
    BY <1>3, <2>2 DEF Own!TryLock, OwnTyped, Own!TypeOK
<1>4. CASE Own(how)!Again(c)
  <2>1. CASE row = None
    <3>1. [old EXCEPT !.pc = "find"] \in Own(how)!Hand
      BY <1>0 DEF Own!Hand
    <3>2. hand' = [hand EXCEPT ![c] = [old EXCEPT !.pc = "find"]]
      BY <1>4, <2>1 DEF Own!Again
    <3>3. hand' \in [Own(how)!Actor -> Own(how)!Hand] /\ HasSecret(how)'
      BY <1>0, <3>1, <3>2, OwnTypedMove DEF Own!Hand
    <3> QED
      BY <1>4, <2>1, <3>3 DEF Own!Again, OwnTyped, Own!TypeOK
  <2>2. CASE row # None
    <3>1. row \in Own(how)!Login
      BY <1>0 DEF Own!Login
    <3> QED
      BY <1>2, <1>4, <2>2, <3>1 DEF Own!Again, OwnTyped, Own!TypeOK
  <2> QED
    BY <2>1, <2>2
<1>5. CASE Own(how)!Find(c)
  <2> DEFINE new == [old EXCEPT !.pc = IF robot = None THEN "create" ELSE "patch"]
  <2>1. new \in Own(how)!Hand /\ new.pc \notin {"before", "write", "owe"}
    BY <1>0 DEF Own!Hand
  <2>2. hand' = [hand EXCEPT ![c] = new]
    BY <1>5 DEF Own!Find
  <2> HIDE DEF new
  <2> QED
    BY <1>5, <2>1, <2>2, OwnTypedMove DEF Own!Find, OwnTyped, Own!TypeOK
<1>6. CASE Own(how)!Create(c)
  <2> DEFINE new == [old EXCEPT !.pc = "patch", !.issued = Own(how)!Fresh]
  <2>1. new \in Own(how)!Hand /\ new.pc = "patch"
    BY <1>0, <1>1 DEF Own!Hand
  <2>2. hand' = [hand EXCEPT ![c] = new]
    BY <1>6 DEF Own!Create
  <2> HIDE DEF new
  <2>3. hand' \in [Own(how)!Actor -> Own(how)!Hand] /\ HasSecret(how)'
    BY <2>1, <2>2, OwnTypedMove
  <2> QED
    BY <1>1, <1>6, <2>3 DEF Own!Create, OwnTyped, Own!TypeOK
<1>7. CASE Own(how)!Patch(c)
  <2> DEFINE new == [old EXCEPT !.pc = "before", !.secret = Own(how)!Fresh]
  <2>1. new \in Own(how)!Hand /\ new.secret \in Own(how)!Secret
    BY <1>0, <1>1 DEF Own!Hand, Own!Login
  <2>2. hand' = [hand EXCEPT ![c] = new]
    BY <1>7 DEF Own!Patch
  <2> HIDE DEF new
  <2>3. hand' \in [Own(how)!Actor -> Own(how)!Hand] /\ HasSecret(how)'
    BY <2>1, <2>2, OwnTypedMove
  <2> QED
    BY <1>1, <1>7, <2>3 DEF Own!Patch, OwnTyped, Own!TypeOK
<1>8. CASE Own(how)!PatchRefused(c)
  <2> DEFINE new == [old EXCEPT !.pc = "before", !.secret = old.issued]
  <2>1. new \in Own(how)!Hand /\ new.secret \in Own(how)!Secret
    BY <1>0, <1>8 DEF Own!Hand, Own!Login, Own!PatchRefused
  <2>2. hand' = [hand EXCEPT ![c] = new]
    BY <1>8 DEF Own!PatchRefused
  <2> HIDE DEF new
  <2>3. hand' \in [Own(how)!Actor -> Own(how)!Hand] /\ HasSecret(how)'
    BY <2>1, <2>2, OwnTypedMove
  <2> QED
    BY <1>8, <2>3 DEF Own!PatchRefused, OwnTyped, Own!TypeOK
<1>9. CASE Own(how)!Before(c)
  <2> DEFINE was == row # None
             new == [old EXCEPT !.pc = "write", !.stale = was]
  <2>1. new \in Own(how)!Hand /\ new.secret \in Own(how)!Secret
    <3>1. old.secret \in Own(how)!Secret
      BY <1>9 DEF Own!Before, OwnTyped, HasSecret
    <3>2. was \in BOOLEAN
      OBVIOUS
    <3> HIDE DEF was
    <3> QED
      BY <1>0, <3>1, <3>2 DEF Own!Hand
  <2>2. hand' = [hand EXCEPT ![c] = new]
    BY <1>9 DEF Own!Before
  <2> HIDE DEF new
  <2>3. hand' \in [Own(how)!Actor -> Own(how)!Hand] /\ HasSecret(how)'
    BY <2>1, <2>2, OwnTypedMove
  <2> QED
    BY <1>9, <2>3 DEF Own!Before, OwnTyped, Own!TypeOK
<1>10. CASE Own(how)!Write(c)
  <2>0. old.secret \in Own(how)!Secret
    BY <1>10 DEF Own!Write, OwnTyped, HasSecret
  <2>1. CASE old.stale
    <3> DEFINE new == [old EXCEPT !.pc = "owe"]
    <3>1. new \in Own(how)!Hand /\ new.secret \in Own(how)!Secret
      BY <1>0, <2>0 DEF Own!Hand
    <3>2. hand' = [hand EXCEPT ![c] = new]
      BY <1>10, <2>1 DEF Own!Write
    <3> HIDE DEF new
    <3>3. hand' \in [Own(how)!Actor -> Own(how)!Hand] /\ HasSecret(how)'
      BY <3>1, <3>2, OwnTypedMove
    <3> QED
      BY <1>10, <2>0, <2>1, <3>3 DEF Own!Write, OwnTyped, Own!TypeOK
  <2>2. CASE ~old.stale
    <3>1. old.secret \in Own(how)!Login
      BY <2>0 DEF Own!Login
    <3> QED
      BY <1>2, <1>10, <2>0, <2>2, <3>1 DEF Own!Write, OwnTyped, Own!TypeOK
  <2> QED
    BY <2>1, <2>2
<1>11. CASE Own(how)!Owe(c)
  <2>1. old.secret \in Own(how)!Login
    BY <1>0 DEF Own!Hand
  <2> QED
    BY <1>2, <1>11, <2>1 DEF Own!Owe, OwnTyped, Own!TypeOK
<1>12. CASE Own(how)!ProvisionFails(c)
  <2>1. admin \in Own(how)!Login
    BY DEF Own!Login
  <2>2. robot' \in Own(how)!Secret \union {None}
    BY <1>0, <1>1, <1>12 DEF Own!ProvisionFails
  <2> QED
    BY <1>2, <1>12, <2>1, <2>2 DEF Own!ProvisionFails, OwnTyped, Own!TypeOK
<1> QED
  BY <1>3, <1>4, <1>5, <1>6, <1>7, <1>8, <1>9, <1>10, <1>11, <1>12 DEF Own!HandStep

\* A step of a sync keeps the types.
LEMMA OwnTypedSync ==
  ASSUME NEW how, OwnSorts(how), OwnTyped(how),
         \/ \E force \in BOOLEAN : Own(how)!StartSync(force)
         \/ Own(how)!SyncSkips \/ Own(how)!SyncDeposits \/ Own(how)!SyncWorks \/ Own(how)!SyncFails
  PROVE  OwnTyped(how)'
<1>0. /\ worker \in Own(how)!Actor /\ hand[worker] \in Own(how)!Hand /\ Own(how)!IdleHand \in Own(how)!Hand
      /\ link \in [login : Own(how)!Login, fp : Own(how)!Login]
  BY DEF OwnTyped, Own!TypeOK, Own!IdleHand, Own!Hand, Own!Login, Own!Actor
<1>1. ASSUME Own(how)!SyncEnds
      PROVE  hand' \in [Own(how)!Actor -> Own(how)!Hand] /\ HasSecret(how)' /\ lock' = None
  BY <1>0, <1>1, OwnTypedMove DEF Own!SyncEnds, Own!IdleHand
<1>2. ASSUME NEW force \in BOOLEAN, Own(how)!StartSync(force) PROVE OwnTyped(how)'
  <2> DEFINE new == [Own(how)!IdleHand EXCEPT !.pc = "again", !.force = force]
  <2>1. new \in Own(how)!Hand /\ new.pc = "again"
    BY <1>0 DEF Own!Hand, Own!IdleHand
  <2>2. hand' = [hand EXCEPT ![worker] = new]
    BY <1>2 DEF Own!StartSync
  <2> HIDE DEF new
  <2>3. hand' \in [Own(how)!Actor -> Own(how)!Hand] /\ HasSecret(how)'
    BY <1>0, <2>1, <2>2, OwnTypedMove
  <2> QED
    BY <1>0, <1>2, <2>3 DEF Own!StartSync, OwnTyped, Own!TypeOK
<1>3. CASE Own(how)!SyncSkips
  BY <1>1, <1>3 DEF Own!SyncSkips, OwnTyped, Own!TypeOK
<1>4. CASE Own(how)!SyncDeposits
  <2> DEFINE new == [hand[worker] EXCEPT !.pc = "ping"]
  <2>1. new \in Own(how)!Hand /\ new.pc = "ping"
    BY <1>0 DEF Own!Hand
  <2>2. hand' = [hand EXCEPT ![worker] = new]
    BY <1>4 DEF Own!SyncDeposits
  <2>3. hand[worker].secret \in Own(how)!Login
    BY <1>0 DEF Own!Hand
  <2> HIDE DEF new
  <2>4. hand' \in [Own(how)!Actor -> Own(how)!Hand] /\ HasSecret(how)'
    BY <1>0, <2>1, <2>2, OwnTypedMove
  <2>5. link' \in [login : Own(how)!Login, fp : Own(how)!Login]
    BY <1>4, <2>3 DEF Own!SyncDeposits, Own!Login
  <2> QED
    BY <1>4, <2>4, <2>5 DEF Own!SyncDeposits, OwnTyped, Own!TypeOK
<1>5. CASE Own(how)!SyncWorks
  <2>1. link' \in [login : Own(how)!Login, fp : Own(how)!Login]
    BY <1>0, <1>5 DEF Own!SyncWorks, Own!Hand
  <2>2. queued' \in BOOLEAN
    BY <1>5 DEF Own!SyncWorks
  <2> QED
    BY <1>1, <1>5, <2>1, <2>2 DEF Own!SyncWorks, OwnTyped, Own!TypeOK
<1>6. CASE Own(how)!SyncFails
  <2>1. link' \in [login : Own(how)!Login, fp : Own(how)!Login]
    BY <1>0, <1>6 DEF Own!SyncFails, Own!Login
  <2> QED
    BY <1>1, <1>6, <2>1 DEF Own!SyncFails, OwnTyped, Own!TypeOK
<1> QED
  BY <1>2, <1>3, <1>4, <1>5, <1>6

\* Any step keeps the types.
LEMMA OwnTypedStep ==
  ASSUME NEW how, OwnSorts(how), OwnTyped(how), [Own(how)!Next]_(Own(how)!vars)
  PROVE  OwnTyped(how)'
<1>1. ASSUME NEW c \in Own(how)!Actor, Own(how)!Crash(c) PROVE OwnTyped(how)'
  <2>1. hand' \in [Own(how)!Actor -> Own(how)!Hand] /\ HasSecret(how)'
    <3>1. Own(how)!IdleHand \in Own(how)!Hand /\ Own(how)!IdleHand.pc = "idle"
      BY DEF Own!IdleHand, Own!Hand, Own!Login
    <3> QED
      BY <1>1, <3>1, OwnTypedMove DEF Own!Crash
  <2> QED
    BY <1>1, <2>1 DEF Own!Crash, OwnTyped, Own!TypeOK, OwnSorts
<1>2. CASE Own(how)!Heal
  BY <1>2 DEF Own!Heal, OwnTyped, Own!TypeOK, HasSecret
<1>3. CASE UNCHANGED Own(how)!vars
  BY <1>3 DEF Own!vars, OwnTyped, Own!TypeOK, HasSecret
<1>4. how.callers \subseteq Own(how)!Actor /\ worker \in Own(how)!Actor
  BY DEF Own!Actor
<1> QED
  BY <1>1, <1>2, <1>3, <1>4, OwnTypedStart, OwnTypedHand, OwnTypedSync DEF Own!Next, Own!SyncStep

-----------------------------------------------------------------------------
\* Where a handler holds the lock, and where nothing is stored if it is alone.
Holding == {"again", "find", "create", "patch", "before", "write", "owe", "endpoint", "ping"}
Minting == {"lock", "find", "create", "patch", "before", "write"}

\* Who is past the lock holds it.
LockIsHeld(how) == \A c \in Own(how)!Actor : hand[c].pc \in Holding => lock = c

\* Handlers that are kept apart: one at a time, and nothing is stored while a secret
\* is being made.
OneAtATime(how) ==
  how.apart => /\ \A c, d \in Own(how)!Actor : hand[c].pc # "idle" /\ hand[d].pc # "idle" => c = d
               /\ \A c \in Own(how)!Actor : hand[c].pc \in Minting => row = None

\* Faults come only where handlers are kept apart.
CalmOrApart(how) == how.apart \/ healthy

\* A secret that was made is the one that opens the robot, and so is the one that is
\* stored, but while another is being made.
MintedOpens(how) ==
  /\ \A c \in Own(how)!Actor : hand[c].pc \in {"before", "write"} => hand[c].secret = robot
  /\ \A c \in Own(how)!Actor : hand[c].pc \in {"lock", "again", "find", "create"} => hand[c].issued = None
  /\ \A c \in Own(how)!Actor : hand[c].pc = "patch" /\ hand[c].issued # None => hand[c].issued = robot
  /\ row # None /\ row # robot =>
       \E c \in Own(how)!Actor : lock = c /\ hand[c].pc \in {"find", "create", "patch", "before", "write"}

\* The inductive invariant.
OwnInv(how) == OwnTyped(how) /\ LockIsHeld(how) /\ OneAtATime(how) /\ CalmOrApart(how) /\ MintedOpens(how)

\* The invariant implies that what is stored opens the robot.
LEMMA StoredShown == ASSUME NEW how, OwnSorts(how), OwnInv(how) PROVE Own(how)!StoredOpens
  BY DEF OwnSorts, OwnInv, MintedOpens, Own!StoredOpens

\* The invariant holds at first.
LEMMA OwnInvInit ==
  ASSUME NEW how, OwnSorts(how), how.apart \/ ~how.faults, Own(how)!Init
  PROVE  OwnInv(how)
<1>1. \A c \in Own(how)!Actor : hand[c] = Own(how)!IdleHand
  BY DEF Own!Init
<1> QED
  BY <1>1, OwnTypedInit
  DEF Own!Init, OwnInv, LockIsHeld, OneAtATime, CalmOrApart, MintedOpens, Own!IdleHand, Holding, Minting

\* A hand alone moves, and holds the lock if it is past it.
LEMMA HeldMove ==
  ASSUME NEW how, OwnSorts(how), OwnInv(how), NEW c \in Own(how)!Actor, NEW new \in Own(how)!Hand,
         hand' = [hand EXCEPT ![c] = new],
         \/ new.pc \in Holding /\ lock' = c /\ lock \in {None, c}
         \/ new.pc \notin Holding /\ (lock' = lock \/ lock = c)
  PROVE  LockIsHeld(how)'
<1> SUFFICES ASSUME NEW d \in Own(how)!Actor, hand'[d].pc \in Holding PROVE lock' = d
  BY DEF LockIsHeld
<1>1. CASE d = c
  BY <1>1 DEF OwnInv, OwnTyped, Own!TypeOK
<1>2. CASE d # c
  <2>1. hand'[d] = hand[d] /\ lock = d /\ lock # None
    BY <1>2 DEF OwnInv, OwnTyped, Own!TypeOK, LockIsHeld, OwnSorts
  <2> QED
    BY <1>2, <2>1
<1> QED
  BY <1>1, <1>2

\* A request keeps the invariant: nothing is stored once a rotation has begun.
LEMMA OwnInvStart ==
  ASSUME NEW how, OwnSorts(how), OwnInv(how), NEW c \in how.callers,
         Own(how)!Ensure(c) \/ Own(how)!Rotate(c) \/ Own(how)!Forget(c)
  PROVE  OwnInv(how)'
<1>0. OwnTyped(how)' /\ c \in Own(how)!Actor /\ hand \in [Own(how)!Actor -> Own(how)!Hand]
  BY OwnTypedStart DEF OwnInv, Own!Actor, OwnTyped, Own!TypeOK
<1>1. PICK new \in Own(how)!Hand : /\ Own(how)!Start(c, new) /\ new.pc \in {"idle", "lock"} /\ new.issued = None
                                   /\ row' = None
  BY DEF Own!Ensure, Own!Rotate, Own!Forget, Own!IdleHand, Own!Hand, Own!Login
<1>2. /\ hand' = [hand EXCEPT ![c] = new] /\ UNCHANGED <<robot, lock, healthy>>
      /\ hand[c].pc = "idle" /\ (how.apart => Own(how)!Quiet)
  BY <1>1 DEF Own!Start
<1>3. \A d \in Own(how)!Actor : hand'[d] = IF d = c THEN new ELSE hand[d]
  BY <1>0, <1>2
<1>4. LockIsHeld(how)'
  BY <1>0, <1>1, <1>2, HeldMove DEF Holding
<1>5. OneAtATime(how)'
  BY <1>1, <1>2, <1>3 DEF OneAtATime, Own!Quiet
<1>6. MintedOpens(how)'
  BY <1>1, <1>2, <1>3 DEF OwnInv, MintedOpens
<1> QED
  BY <1>0, <1>2, <1>4, <1>5, <1>6 DEF OwnInv, CalmOrApart

\* A hand that works has the lock, and is alone if handlers are kept apart.
LEMMA Alone ==
  ASSUME NEW how, OwnSorts(how), OwnInv(how), NEW c \in Own(how)!Actor,
         hand[c].pc \in Holding \union {"lock"}
  PROVE  /\ \A d \in Own(how)!Actor : d # c /\ how.apart => hand[d].pc = "idle"
         /\ hand[c].pc \in Holding =>
              lock = c /\ \A d \in Own(how)!Actor : d # c => hand[d].pc \notin Holding
         /\ how.apart /\ hand[c].pc \in Minting => row = None
  BY DEF OwnInv, LockIsHeld, OneAtATime, Holding, Minting

\* It goes on, or comes to its end.
LEMMA HeldGiven ==
  ASSUME NEW how, OwnSorts(how), OwnInv(how), NEW c \in Own(how)!Actor, hand[c].pc \in Holding,
         NEW s \in Own(how)!Login, Own(how)!Given(c, s),
         healthy' = healthy, IF hand[c].pc \in {"create", "patch"} THEN how.apart ELSE robot' = robot,
         row' \in {None, robot'}, OwnTyped(how)'
  PROVE  OwnInv(how)'
<1>0. hand \in [Own(how)!Actor -> Own(how)!Hand] /\ hand[c] \in Own(how)!Hand
  BY DEF OwnInv, OwnTyped, Own!TypeOK
<1>1. PICK new \in Own(how)!Hand : /\ hand' = [hand EXCEPT ![c] = new]
                                   /\ \/ c = worker /\ new.pc = "endpoint" /\ lock' = lock
                                      \/ c # worker /\ new.pc = "idle" /\ lock' = None
  <2> DEFINE new == IF c = worker
               THEN [Own(how)!IdleHand EXCEPT !.pc = "endpoint", !.force = hand[c].force, !.secret = s]
               ELSE Own(how)!IdleHand
  <2>1. /\ new \in Own(how)!Hand
        /\ \/ c = worker /\ new.pc = "endpoint" /\ lock' = lock
           \/ c # worker /\ new.pc = "idle" /\ lock' = None
    BY <1>0 DEF Own!Given, Own!IdleHand, Own!Hand, Own!Login
  <2>2. hand' = [hand EXCEPT ![c] = new]
    BY DEF Own!Given
  <2> HIDE DEF new
  <2> QED
    BY <2>1, <2>2
<1>2. \A d \in Own(how)!Actor : hand'[d] = IF d = c THEN new ELSE hand[d]
  BY <1>0, <1>1
<1>3. LockIsHeld(how)'
  BY <1>1, Alone, HeldMove DEF Holding
<1>4. OneAtATime(how)'
  BY <1>1, <1>2, Alone DEF OneAtATime, Minting, Holding, OwnInv
<1>5. MintedOpens(how)'
  <2>1. ASSUME NEW d \in Own(how)!Actor PROVE
          /\ hand'[d].pc \in {"before", "write"} => hand'[d].secret = robot'
          /\ hand'[d].pc \in {"lock", "again", "find", "create"} => hand'[d].issued = None
          /\ hand'[d].pc = "patch" /\ hand'[d].issued # None => hand'[d].issued = robot'
    BY <1>1, <1>2, Alone DEF OwnInv, MintedOpens, Holding
  <2> QED
    BY <2>1 DEF MintedOpens
<1> QED
  BY <1>3, <1>4, <1>5 DEF OwnInv, CalmOrApart

\* A step of a provision keeps the invariant.
LEMMA OwnInvHand ==
  ASSUME NEW how, OwnSorts(how), OwnInv(how), NEW c \in Own(how)!Actor, Own(how)!HandStep(c)
  PROVE  OwnInv(how)'
<1>0. /\ hand \in [Own(how)!Actor -> Own(how)!Hand] /\ hand[c] \in Own(how)!Hand
      /\ OwnTyped(how)' /\ hand' \in [Own(how)!Actor -> Own(how)!Hand] /\ hand'[c] \in Own(how)!Hand
  BY OwnTypedHand DEF OwnInv, OwnTyped, Own!TypeOK
<1>1. healthy' = healthy
  BY DEF Own!HandStep, Own!TryLock, Own!Again, Own!Find, Own!Create, Own!Patch, Own!PatchRefused,
     Own!Before, Own!Write, Own!Owe,
         Own!ProvisionFails
\* What goes on: another place in the same provisioning.
<1>2. ASSUME hand[c].pc \in Holding, lock' = lock, row' \in {row, None},
             NEW new \in Own(how)!Hand, hand' = [hand EXCEPT ![c] = new],
             new.pc \in Holding,
             how.apart /\ new.pc \in Minting => row' = None,
             hand[c].pc \notin {"create", "patch"} => robot' = robot,
             new.pc \in {"before", "write"} => new.secret = robot',
             new.pc \in {"again", "find", "create"} => new.issued = None,
             new.pc = "patch" /\ new.issued # None => new.issued = robot',
             \/ new.pc \in {"find", "create", "patch", "before", "write"}
             \/ row' \in {None, robot'}
      PROVE  OwnInv(how)'
  <2>1. \A d \in Own(how)!Actor : hand'[d] = IF d = c THEN new ELSE hand[d]
    BY <1>0, <1>2
  <2>2. LockIsHeld(how)'
    BY <1>2, Alone, HeldMove
  <2>3. OneAtATime(how)'
    BY <1>2, <2>1, Alone DEF OneAtATime, Minting, Holding, OwnInv
  <2>4. lock' = c
    BY <1>2, Alone
  <2>5. MintedOpens(how)'
    <3>1. ASSUME NEW d \in Own(how)!Actor PROVE
            /\ hand'[d].pc \in {"before", "write"} => hand'[d].secret = robot'
            /\ hand'[d].pc \in {"lock", "again", "find", "create"} => hand'[d].issued = None
            /\ hand'[d].pc = "patch" /\ hand'[d].issued # None => hand'[d].issued = robot'
      <4>1. CASE d = c
        BY <1>2, <2>1, <4>1 DEF Holding
      <4>2. CASE d # c
        BY <1>2, <2>1, <4>2, Alone DEF OwnInv, MintedOpens, Holding
      <4> QED
        BY <4>1, <4>2
    <3>2. row' # None /\ row' # robot' =>
            lock' = c /\ hand'[c].pc \in {"find", "create", "patch", "before", "write"}
      BY <1>2, <2>1, <2>4
    <3> QED
      BY <3>1, <3>2 DEF MintedOpens
  <2> QED
    BY <1>0, <1>1, <2>2, <2>3, <2>5 DEF OwnInv, CalmOrApart
<1>3. CASE Own(how)!TryLock(c)
  <2>1. PICK new \in Own(how)!Hand : /\ hand' = [hand EXCEPT ![c] = new]
          /\ \/ new.pc = "idle" /\ lock' = lock
             \/ new.pc \in {"again", "find"} /\ lock' = c /\ lock = None /\ new.issued = hand[c].issued
    <3>1. CASE lock # None
      <4>1. Own(how)!IdleHand \in Own(how)!Hand /\ Own(how)!IdleHand.pc = "idle"
        BY DEF Own!IdleHand, Own!Hand, Own!Login
      <4> QED
        BY <1>3, <3>1, <4>1 DEF Own!TryLock
    <3>2. CASE lock = None
      <4> DEFINE new == [hand[c] EXCEPT !.pc = IF hand[c].kind = "ensure" THEN "again" ELSE "find"]
      <4>1. new \in Own(how)!Hand /\ new.pc \in {"again", "find"} /\ new.issued = hand[c].issued
        BY <1>0 DEF Own!Hand
      <4>2. hand' = [hand EXCEPT ![c] = new] /\ lock' = c
        BY <1>3, <3>2 DEF Own!TryLock
      <4> HIDE DEF new
      <4> QED
        BY <3>2, <4>1, <4>2
    <3> QED
      BY <3>1, <3>2
  <2>2. \A d \in Own(how)!Actor : hand'[d] = IF d = c THEN new ELSE hand[d]
    BY <1>0, <2>1
  <2>3. hand[c].pc = "lock" /\ UNCHANGED <<robot, row>>
    BY <1>3 DEF Own!TryLock
  <2>4. LockIsHeld(how)'
    BY <2>1, HeldMove DEF Holding
  <2>5. OneAtATime(how)'
    BY <2>1, <2>2, <2>3, Alone DEF OneAtATime, Minting, OwnInv
  <2>6. MintedOpens(how)'
    <3>1. ASSUME row # None, row # robot PROVE lock # None
      BY <3>1 DEF OwnInv, MintedOpens, OwnSorts
    <3> QED
      BY <2>1, <2>2, <2>3, <3>1 DEF OwnInv, MintedOpens
  <2> QED
    BY <1>0, <1>1, <2>4, <2>5, <2>6 DEF OwnInv, CalmOrApart
<1>4. CASE Own(how)!Again(c)
  <2>0. hand[c].pc = "again" /\ UNCHANGED <<robot, row>>
    BY <1>4 DEF Own!Again
  <2>1. hand[c].pc = "again" /\ UNCHANGED <<robot, row>> /\ row \in {None, robot}
    BY <2>0, Alone DEF OwnInv, MintedOpens, Holding
  <2>2. CASE row = None
    <3> DEFINE new == [hand[c] EXCEPT !.pc = "find"]
    <3>1. new \in Own(how)!Hand /\ new.pc = "find" /\ new.issued = None
      BY <1>0, <2>1 DEF Own!Hand, OwnInv, MintedOpens
    <3>2. hand' = [hand EXCEPT ![c] = new] /\ lock' = lock
      BY <1>4, <2>2 DEF Own!Again
    <3> HIDE DEF new
    <3> QED
      BY <1>2, <2>1, <2>2, <3>1, <3>2 DEF Holding
  <2>3. CASE row # None
    <3>1. row \in Own(how)!Login
      BY DEF OwnInv, OwnTyped, Own!TypeOK, Own!Login
    <3> QED
      BY <1>0, <1>1, <1>4, <2>1, <2>3, <3>1, HeldGiven DEF Own!Again, Holding
  <2> QED
    BY <2>2, <2>3
<1>5. CASE Own(how)!Find(c)
  <2> DEFINE new == [hand[c] EXCEPT !.pc = IF robot = None THEN "create" ELSE "patch"]
  <2>1. hand[c].pc = "find" /\ UNCHANGED <<robot, row, lock>>
    BY <1>5 DEF Own!Find
  <2>2. new \in Own(how)!Hand /\ new.pc \in {"create", "patch"} /\ new.issued = None
    BY <1>0, <2>1 DEF Own!Hand, OwnInv, MintedOpens
  <2>3. hand' = [hand EXCEPT ![c] = new]
    BY <1>5 DEF Own!Find
  <2> HIDE DEF new
  <2> QED
    BY <1>2, <2>1, <2>2, <2>3, Alone DEF Holding, Minting
<1>6. CASE Own(how)!Create(c)
  <2> DEFINE new == [hand[c] EXCEPT !.pc = "patch", !.issued = Own(how)!Fresh]
  <2>1. hand[c].pc = "create" /\ UNCHANGED <<row, lock>> /\ robot' = Own(how)!Fresh
    BY <1>6 DEF Own!Create
  <2>2. new \in Own(how)!Hand /\ new.pc = "patch" /\ new.issued = Own(how)!Fresh
    BY <1>0, FreshIsSecret DEF Own!Hand
  <2>3. hand' = [hand EXCEPT ![c] = new]
    BY <1>6 DEF Own!Create
  <2> HIDE DEF new
  <2> QED
    BY <1>2, <2>1, <2>2, <2>3, Alone DEF Holding, Minting
<1>7. CASE Own(how)!Patch(c)
  <2> DEFINE new == [hand[c] EXCEPT !.pc = "before", !.secret = Own(how)!Fresh]
  <2>1. hand[c].pc = "patch" /\ UNCHANGED <<row, lock>> /\ robot' = Own(how)!Fresh
    BY <1>7 DEF Own!Patch
  <2>2. new \in Own(how)!Hand /\ new.pc = "before" /\ new.secret = Own(how)!Fresh
    BY <1>0, FreshIsSecret DEF Own!Hand, Own!Login
  <2>3. hand' = [hand EXCEPT ![c] = new]
    BY <1>7 DEF Own!Patch
  <2> HIDE DEF new
  <2> QED
    BY <1>2, <2>1, <2>2, <2>3, Alone DEF Holding, Minting
<1>8. CASE Own(how)!PatchRefused(c)
  <2> DEFINE new == [hand[c] EXCEPT !.pc = "before", !.secret = hand[c].issued]
  <2>1. hand[c].pc = "patch" /\ UNCHANGED <<row, lock, robot>> /\ hand[c].issued = robot
    BY <1>8 DEF Own!PatchRefused, OwnInv, MintedOpens
  <2>2. new \in Own(how)!Hand /\ new.pc = "before" /\ new.secret = robot
    BY <1>0, <2>1 DEF Own!Hand, Own!Login
  <2>3. hand' = [hand EXCEPT ![c] = new]
    BY <1>8 DEF Own!PatchRefused
  <2> HIDE DEF new
  <2> QED
    BY <1>2, <2>1, <2>2, <2>3, Alone DEF Holding, Minting
<1>9. CASE Own(how)!Before(c)
  <2> DEFINE was == row # None
             new == [hand[c] EXCEPT !.pc = "write", !.stale = was]
  <2>1. hand[c].pc = "before" /\ UNCHANGED <<row, lock, robot>> /\ hand[c].secret = robot
    BY <1>9 DEF Own!Before, OwnInv, MintedOpens
  <2>2. new \in Own(how)!Hand /\ new.pc = "write" /\ new.secret = robot
    <3>1. was \in BOOLEAN
      OBVIOUS
    <3> HIDE DEF was
    <3> QED
      BY <1>0, <2>1, <3>1 DEF Own!Hand
  <2>3. hand' = [hand EXCEPT ![c] = new]
    BY <1>9 DEF Own!Before
  <2> HIDE DEF new
  <2> QED
    BY <1>2, <2>1, <2>2, <2>3, Alone DEF Holding, Minting
<1>10. CASE Own(how)!Write(c)
  <2>1. /\ hand[c].pc = "write" /\ UNCHANGED robot /\ hand[c].secret = robot
        /\ row' = robot
    BY <1>10 DEF Own!Write, OwnInv, MintedOpens
  <2>2. CASE hand[c].stale
    <3> DEFINE new == [hand[c] EXCEPT !.pc = "owe"]
    <3>1. new \in Own(how)!Hand /\ new.pc = "owe"
      BY <1>0 DEF Own!Hand
    <3>2. hand' = [hand EXCEPT ![c] = new] /\ lock' = lock
      BY <1>10, <2>2 DEF Own!Write
    <3> HIDE DEF new
    <3>3. \A d \in Own(how)!Actor : hand'[d] = IF d = c THEN new ELSE hand[d]
      BY <1>0, <3>2
    <3>4. LockIsHeld(how)'
      BY <2>1, <3>1, <3>2, Alone, HeldMove DEF Holding
    <3>5. OneAtATime(how)'
      BY <2>1, <3>1, <3>3, Alone DEF OneAtATime, Minting, Holding, OwnInv
    <3>6. MintedOpens(how)'
      BY <2>1, <3>1, <3>2, <3>3 DEF MintedOpens, OwnInv
    <3> QED
      BY <1>0, <1>1, <3>4, <3>5, <3>6 DEF OwnInv, CalmOrApart
  <2>3. CASE ~hand[c].stale
    <3>1. hand[c].secret \in Own(how)!Login
      BY <1>0 DEF Own!Hand
    <3> QED
      BY <1>0, <1>1, <1>10, <2>1, <2>3, <3>1, HeldGiven DEF Own!Write, Holding
  <2> QED
    BY <2>2, <2>3
<1>11. CASE Own(how)!Owe(c)
  <2>1. hand[c].pc = "owe" /\ UNCHANGED <<robot, row>> /\ row \in {None, robot}
    BY <1>11, Alone DEF Own!Owe, OwnInv, MintedOpens, Holding
  <2>2. hand[c].secret \in Own(how)!Login
    BY <1>0 DEF Own!Hand
  <2> QED
    BY <1>0, <1>1, <1>11, <2>1, <2>2, HeldGiven DEF Own!Owe, Holding
<1>12. CASE Own(how)!ProvisionFails(c)
  <2>1. /\ hand[c].pc \in {"find", "create", "patch", "before", "write", "owe"}
        /\ row' = row /\ ~healthy /\ Own(how)!Given(c, admin)
        /\ hand[c].pc \notin {"create", "patch"} => robot' = robot
    BY <1>12 DEF Own!ProvisionFails
  <2>2. how.apart
    BY <2>1 DEF OwnInv, CalmOrApart
  <2>3. row' \in {None, robot'}
    <3>1. CASE hand[c].pc = "owe"
      BY <2>1, <3>1, Alone DEF OwnInv, MintedOpens, Holding
    <3>2. CASE hand[c].pc # "owe"
      BY <2>1, <2>2, <3>2, Alone DEF Minting, Holding
    <3> QED
      BY <3>1, <3>2
  <2>4. admin \in Own(how)!Login
    BY DEF Own!Login
  <2> QED
    BY <1>0, <1>1, <2>1, <2>2, <2>3, <2>4, HeldGiven DEF Holding
<1> QED
  BY <1>3, <1>4, <1>5, <1>6, <1>7, <1>8, <1>9, <1>10, <1>11, <1>12 DEF Own!HandStep

\* A step that leaves the robot and the row alone, of a hand that is not minting.
LEMMA OwnInvAside ==
  ASSUME NEW how, OwnSorts(how), OwnInv(how), OwnTyped(how)', NEW c \in Own(how)!Actor,
         NEW new \in Own(how)!Hand, hand' = [hand EXCEPT ![c] = new],
         UNCHANGED <<robot, row>>, healthy' = healthy,
         row # None /\ row # robot => hand[c].pc \notin {"find", "create", "patch", "before", "write"},
         \/ new.pc \in {"again", "endpoint", "ping"} /\ lock' = c /\ lock \in {None, c}
         \/ new.pc = "idle" /\ ((lock' = lock /\ lock # c) \/ (lock' = None /\ lock = c)),
         hand[c].pc = "idle" /\ new.pc # "idle" => (how.apart => Own(how)!Quiet),
         new.pc = "again" => new.issued = None,
         lock = c => hand[c].pc \in Holding
  PROVE  OwnInv(how)'
<1>1. \A d \in Own(how)!Actor : hand'[d] = IF d = c THEN new ELSE hand[d]
  BY DEF OwnInv, OwnTyped, Own!TypeOK
<1>2. LockIsHeld(how)'
  BY HeldMove DEF Holding
<1>3. OneAtATime(how)'
  BY <1>1 DEF OneAtATime, Minting, OwnInv, Own!Quiet
<1>4. MintedOpens(how)'
  <2>1. ASSUME row # None, row # robot
        PROVE  \E d \in Own(how)!Actor : d # c /\ lock = d /\ hand[d].pc \in {"find", "create", "patch", "before", "write"}
    BY <2>1 DEF OwnInv, MintedOpens
  <2>2. row # None /\ row # robot =>
           \E d \in Own(how)!Actor : lock' = d /\ hand'[d].pc \in {"find", "create", "patch", "before", "write"}
    BY <1>1, <2>1 DEF OwnSorts
  <2> QED
    BY <1>1, <2>2 DEF MintedOpens, OwnInv
<1> QED
  BY <1>2, <1>3, <1>4 DEF OwnInv, CalmOrApart

\* A step of a sync keeps the invariant.
LEMMA OwnInvSync ==
  ASSUME NEW how, OwnSorts(how), OwnInv(how),
         \/ \E force \in BOOLEAN : Own(how)!StartSync(force)
         \/ Own(how)!SyncSkips \/ Own(how)!SyncDeposits \/ Own(how)!SyncWorks \/ Own(how)!SyncFails
  PROVE  OwnInv(how)'
<1> DEFINE w == hand[worker]
<1>0. worker \in Own(how)!Actor /\ w \in Own(how)!Hand /\ Own(how)!IdleHand \in Own(how)!Hand /\ OwnTyped(how)'
  BY OwnTypedSync DEF OwnInv, OwnTyped, Own!TypeOK, Own!IdleHand, Own!Hand, Own!Login, Own!Actor
<1>1. ASSUME NEW force \in BOOLEAN, Own(how)!StartSync(force) PROVE OwnInv(how)'
  <2> DEFINE new == [Own(how)!IdleHand EXCEPT !.pc = "again", !.force = force]
  <2>1. new \in Own(how)!Hand /\ new.pc = "again" /\ new.issued = None
    BY <1>0 DEF Own!Hand, Own!IdleHand
  <2>2. /\ hand' = [hand EXCEPT ![worker] = new] /\ lock = None /\ lock' = worker
        /\ UNCHANGED <<robot, row, healthy>> /\ (how.apart => Own(how)!Quiet) /\ w.pc = "idle"
    BY <1>1 DEF Own!StartSync
  <2>3. worker # None
    BY <1>0 DEF OwnSorts
  <2> HIDE DEF new
  <2> QED
    BY <1>0, <2>1, <2>2, <2>3, OwnInvAside
<1>2. ASSUME w.pc \in {"endpoint", "ping"} PROVE lock = worker
  BY <1>0, <1>2, Alone DEF Holding
<1>3. CASE Own(how)!SyncDeposits
  <2> DEFINE new == [w EXCEPT !.pc = "ping"]
  <2>1. new \in Own(how)!Hand /\ new.pc = "ping"
    BY <1>0 DEF Own!Hand
  <2>2. /\ hand' = [hand EXCEPT ![worker] = new] /\ lock' = lock /\ w.pc = "endpoint"
        /\ UNCHANGED <<robot, row, healthy>>
    BY <1>3 DEF Own!SyncDeposits
  <2> HIDE DEF new
  <2> QED
    BY <1>0, <1>2, <2>1, <2>2, OwnInvAside DEF Holding
<1>4. CASE Own(how)!SyncSkips \/ Own(how)!SyncWorks \/ Own(how)!SyncFails
  <2>1. /\ hand' = [hand EXCEPT ![worker] = Own(how)!IdleHand] /\ lock' = None
        /\ w.pc \in {"endpoint", "ping"} /\ UNCHANGED <<robot, row, healthy>>
    BY <1>4 DEF Own!SyncSkips, Own!SyncWorks, Own!SyncFails, Own!SyncEnds
  <2>2. Own(how)!IdleHand.pc = "idle"
    BY DEF Own!IdleHand
  <2> QED
    BY <1>0, <1>2, <2>1, <2>2, OwnInvAside DEF Holding
<1> QED
  BY <1>1, <1>3, <1>4

\* Any step keeps the invariant.
LEMMA OwnInvStep ==
  ASSUME NEW how, OwnSorts(how), OwnInv(how), [Own(how)!Next]_(Own(how)!vars)
  PROVE  OwnInv(how)'
<1>0. OwnTyped(how)'
  BY OwnTypedStep DEF OwnInv
<1>1. ASSUME NEW c \in Own(how)!Actor, Own(how)!Crash(c) PROVE OwnInv(how)'
  <2>1. /\ hand' = [hand EXCEPT ![c] = Own(how)!IdleHand] /\ ~healthy /\ UNCHANGED <<robot, row, healthy>>
        /\ lock' = IF lock = c THEN None ELSE lock
        /\ hand[c].pc # "idle"
    BY <1>1 DEF Own!Crash
  <2>2. how.apart
    BY <2>1 DEF OwnInv, CalmOrApart
  <2>3. \A d \in Own(how)!Actor : hand'[d] = IF d = c THEN Own(how)!IdleHand ELSE hand[d]
    BY <2>1 DEF OwnInv, OwnTyped, Own!TypeOK
  <2>4. Own(how)!IdleHand \in Own(how)!Hand /\ Own(how)!IdleHand.pc = "idle"
    BY DEF Own!IdleHand, Own!Hand, Own!Login
  <2>5. LockIsHeld(how)'
    <3> SUFFICES ASSUME NEW d \in Own(how)!Actor, hand'[d].pc \in Holding PROVE lock' = d
      BY DEF LockIsHeld
    <3> QED
      BY <2>1, <2>3, <2>4 DEF OwnInv, LockIsHeld, Holding
  <2>6. OneAtATime(how)'
    BY <2>1, <2>3, <2>4 DEF OwnInv, OneAtATime, Minting
  <2>7. row \in {None, robot}
    BY <2>1, <2>2 DEF OwnInv, MintedOpens, OneAtATime, Minting
  <2>8. MintedOpens(how)'
    BY <2>1, <2>3, <2>4, <2>7 DEF OwnInv, MintedOpens
  <2> QED
    BY <1>0, <2>2, <2>5, <2>6, <2>8 DEF OwnInv, CalmOrApart
<1>2. CASE Own(how)!Heal
  BY <1>0, <1>2 DEF Own!Heal, OwnInv, LockIsHeld, OneAtATime, CalmOrApart, MintedOpens
<1>3. CASE UNCHANGED Own(how)!vars
  BY <1>0, <1>3 DEF Own!vars, OwnInv, LockIsHeld, OneAtATime, CalmOrApart, MintedOpens
<1>4. how.callers \subseteq Own(how)!Actor /\ worker \in Own(how)!Actor
  BY DEF Own!Actor
<1> QED
  BY <1>1, <1>2, <1>3, <1>4, OwnInvStart, OwnInvHand, OwnInvSync DEF Own!Next, Own!SyncStep

\* Every variable keeps its type, for any number of handlers, requests and deaths.
THEOREM OwnTypes == ASSUME NEW how, OwnSorts(how) PROVE Own(how)!Spec => []Own(how)!TypeOK
<1>1. Own(how)!Init => OwnTyped(how)
  BY OwnTypedInit
<1>2. OwnTyped(how) /\ [Own(how)!Next]_(Own(how)!vars) => OwnTyped(how)'
  BY OwnTypedStep
<1>3. OwnTyped(how) => Own(how)!TypeOK
  BY DEF OwnTyped
<1> QED
  BY <1>1, <1>2, <1>3, PTL DEF Own!Spec

\* The secret that is stored opens the robot whenever nobody provisions it, when handlers are
\* kept apart or no call fails, for any number of handlers, requests and deaths.
THEOREM StoredHolds ==
  ASSUME NEW how, OwnSorts(how), how.apart \/ ~how.faults
  PROVE  Own(how)!Spec => []Own(how)!StoredOpens
<1>1. Own(how)!Init => OwnInv(how)
  BY OwnInvInit
<1>2. OwnInv(how) /\ [Own(how)!Next]_(Own(how)!vars) => OwnInv(how)'
  BY OwnInvStep
<1>3. OwnInv(how) => Own(how)!StoredOpens
  BY StoredShown
<1> QED
  BY <1>1, <1>2, <1>3, PTL DEF Own!Spec

-----------------------------------------------------------------------------
(* The robots of a project.                                                *)

RowType == [id : Robot!Account, secret : Robot!Secret, unified : BOOLEAN]

\* What the constants of the robots have to be.
RobotSorts == MaxRequests \in Nat /\ None \notin Int /\ None \notin RowType

Held == [rid : Robot!Rid \union {None}, secret : Robot!Secret \union {None}]

Op == {op \in [id : Nat, registry : Harbor, kind : {"ROBOT_CREATE", "ROBOT_DELETE"},
               key : Robot!Account \X (Robot!Rid \union {0})] :
         op.kind = "ROBOT_DELETE" => op.key[2] \in Robot!Rid}

Hand == [job : {"idle", "create", "rotate", "revoke"}, secret : Robot!Secret, prev : Robot!Secret,
         at : [Harbor -> Robot!Stage], any : BOOLEAN]

Pass == [pc : {"idle", "queue", "replay", "unqueue", "realign", "realigned"},
         h : Harbor \union {None}, ops : SUBSET Op, op : Op \union {Robot!NoOp}, at : Robot!Stage,
         secret : Robot!Secret]

\* The pass works on a Harbor.
InPass(h) == pass.pc # "idle" /\ pass.h = h

\* Types, and what they rest on: handlers and passes are apart, a handler has its row, and so
\* has a replay that puts the robot on a Harbor; without a row nothing is placed.
RobotTyped ==
  /\ row \in RowType \union {None}
  /\ place \in [Harbor -> Robot!Placement]
  /\ robot \in [Harbor -> Held]
  /\ queue \subseteq Op /\ \A op \in queue : op.id < nextId
  /\ nextId \in Nat
  /\ hand \in Hand /\ pass \in Pass
  /\ pass.pc # "idle" => pass.h \in Harbor
  /\ pass.pc \in {"replay", "unqueue"} => pass.op \in Op
  /\ shown \in SUBSET (Harbor \X Robot!Secret)
  /\ healthy \in BOOLEAN /\ requests \in 0..MaxRequests /\ crashes = 0
  /\ row # None => requests > 0
  /\ row = None => \A h \in Harbor : place[h] = Robot!NoPlacement
  /\ hand.job # "idle" => row # None /\ pass.pc = "idle"
  /\ pass.pc = "replay" => pass.at.pc = "delete" \/ row # None
  /\ pass.pc = "realigned" => row # None
  /\ hand.job = "revoke" => \A h \in Harbor : hand.at[h].pc \in {"delete", "failed", "done"}
  /\ \A h \in Harbor :
       /\ hand.at[h].pc \in {"patch", "record"} => hand.at[h].rid # None
       /\ hand.job = "revoke" /\ hand.at[h].pc # "done" => place[h].rid # None
       /\ place[h].own # None => place[h].rid # None
  /\ pass.at.pc \in {"patch", "record"} => pass.at.rid # None

\* What the id of a robot, and its secrets, are.
LEMMA SecretFacts ==
  ASSUME RobotSorts
  PROVE  /\ 0 \in Robot!Secret /\ None \notin Robot!Secret /\ None \notin Robot!Rid /\ 0 \notin Robot!Rid
         /\ Robot!Rid \subseteq Int /\ Robot!Secret \subseteq Int
         /\ \A r \in Robot!Rid : r \in Robot!Secret /\ Robot!Minted(r) \in Robot!Secret /\ Robot!Minted(r) = -r
BY DEF RobotSorts, Robot!Secret, Robot!Rid, Robot!Minted

\* Where everything begins.
LEMMA Initials ==
  ASSUME RobotSorts
  PROVE  /\ Robot!NoPlacement \in Robot!Placement /\ Robot!NoRobot \in Held
         /\ Robot!NoPlacement.rid = None /\ Robot!NoPlacement.own = None
         /\ Robot!NoPlacement.status = "NONE"
         /\ Robot!NoRobot.rid = None /\ Robot!NoRobot.secret = None
         /\ Robot!AtFind \in Robot!Stage /\ Robot!Done \in Robot!Stage
         /\ Robot!AtFind.pc = "find" /\ Robot!AtFind.rid = None /\ ~Robot!AtFind.issued
         /\ ~Robot!AtFind.unified
         /\ Robot!Done.pc = "done"
         /\ \A rid \in Robot!Rid \union {None} :
              /\ Robot!AtDelete(rid) \in Robot!Stage
              /\ Robot!AtDelete(rid).pc = "delete" /\ Robot!AtDelete(rid).rid = rid
         /\ Robot!Idle \in Hand /\ Robot!Idle.job = "idle" /\ \A h \in Harbor : Robot!Idle.at[h] = Robot!Done
         /\ Robot!Asleep \in Pass /\ Robot!Asleep.pc = "idle" /\ Robot!Asleep.at = Robot!Done
BY SecretFacts
   DEF Robot!NoPlacement, Robot!Placement, Robot!NoRobot, Held, Robot!AtFind, Robot!Done,
       Robot!AtDelete, Robot!Stage, Robot!Idle,
   Robot!Asleep, Hand, Pass

-----------------------------------------------------------------------------
(* Calls.                                                                  *)

\* What the placement becomes once the robot is there.
Kept(h, s) == IF s.unified THEN None ELSE IF s.issued THEN Robot!Minted(s.rid) ELSE place[h].own

\* What a call of a fan-out, or of a replay, comes to.
Comes(h, s, secret, r) ==
  \/ /\ r.stage.pc = "failed" /\ r.held = robot[h] /\ r.placed = place[h]
     /\ s.pc \in {"find", "patch", "record", "delete"} /\ (s.pc = "record" => ~s.unified)
  \/ /\ s.pc = "find" /\ r.stage.pc = "patch" /\ r.stage.unified = s.unified /\ r.placed = place[h]
     /\ IF robot[h].rid # None
        THEN r.stage.rid = robot[h].rid /\ r.stage.issued = s.issued /\ r.held = robot[h]
        ELSE /\ r.stage.rid = requests /\ r.stage.issued
             /\ r.held = [rid |-> requests, secret |-> Robot!Minted(requests)]
  \/ /\ s.pc = "patch" /\ r.stage.pc = "record" /\ r.placed = place[h]
     /\ r.stage.rid = s.rid /\ r.stage.issued = s.issued
     /\ \/ r.stage.unified = s.unified /\ r.held = robot[h]
        \/ /\ r.stage.unified /\ robot[h].rid = s.rid
           /\ r.held = [rid |-> s.rid, secret |-> secret]
  \/ /\ s.pc = "record" /\ r.stage.pc = "done" /\ r.held = robot[h]
     /\ s.unified \/ Kept(h, s) # None
     /\ r.placed = [rid |-> s.rid, own |-> Kept(h, s), status |-> "ACTIVE"]
  \/ /\ s.pc = "delete" /\ r.stage = Robot!Done /\ r.placed = place[h]
     /\ r.held = IF robot[h].rid = s.rid THEN Robot!NoRobot ELSE robot[h]

\* A call succeeds, or fails and did nothing.
LEMMA Answered ==
  ASSUME RobotSorts, NEW h, NEW s, NEW held, NEW placed, NEW r \in Robot!Answers(h, s, held, placed)
  PROVE  \/ r = Robot!Result(s, held, placed)
         \/ r = Robot!Result(Robot!Failing(s), robot[h], place[h])
BY DEF RobotSorts, Robot!Answers

\* What comes of a call, and its types.
LEMMA Called ==
  ASSUME RobotSorts, RobotTyped, NEW h \in Harbor, NEW s \in Robot!Stage,
         NEW secret \in Robot!Secret,
         s.pc \in {"patch", "record"} => s.rid # None,
         s.pc = "find" => requests > 0,
         NEW r \in Robot!Results(h, s, secret)
  PROVE  /\ Comes(h, s, secret, r)
         /\ r.stage \in Robot!Stage /\ r.held \in Held /\ r.placed \in Robot!Placement
         /\ r.stage.pc \in {"patch", "record"} => r.stage.rid # None
         /\ r.placed.own # None => r.placed.rid # None
<1>a. /\ robot[h] \in Held /\ place[h] \in Robot!Placement /\ requests \in 0..MaxRequests
      /\ place[h].own # None => place[h].rid # None
  BY DEF RobotTyped
<1>b. \A x \in Robot!Stage : Robot!Failing(x) \in Robot!Stage /\ Robot!Failing(x).pc = "failed"
  BY DEF Robot!Stage, Robot!Failing
<1>c. \A x, held, placed : /\ Robot!Result(x, held, placed).stage = x
                           /\ Robot!Result(x, held, placed).held = held
                           /\ Robot!Result(x, held, placed).placed = placed
  BY DEF Robot!Result
<1>1. CASE s.pc = "find" /\ robot[h].rid # None
  <2> DEFINE found == [s EXCEPT !.pc = "patch", !.rid = robot[h].rid]
  <2>1. /\ found \in Robot!Stage /\ found.pc = "patch" /\ found.rid = robot[h].rid
        /\ found.issued = s.issued /\ found.unified = s.unified
    BY <1>a DEF Robot!Stage, Held
  <2>2. r \in Robot!Answers(h, found, robot[h], place[h])
    BY <1>1 DEF Robot!Results, Robot!Find
  <2> HIDE DEF found
  <2>3. r = Robot!Result(found, robot[h], place[h]) \/ r = Robot!Result(Robot!Failing(found), robot[h], place[h])
    BY <2>2, Answered
  <2> QED
    BY <1>1, <1>a, <1>b, <1>c, <2>1, <2>3 DEF Comes
<1>2. CASE s.pc = "find" /\ robot[h].rid = None
  <2> DEFINE made == [s EXCEPT !.pc = "patch", !.rid = requests, !.issued = TRUE]
             held == [rid |-> requests, secret |-> Robot!Minted(requests)]
  <2>0. requests \in Robot!Rid /\ Robot!Minted(requests) \in Robot!Secret /\ requests # None
    BY <1>2, <1>a, SecretFacts DEF Robot!Rid
  <2>1. /\ made \in Robot!Stage /\ made.pc = "patch" /\ made.rid = requests
        /\ made.issued /\ made.unified = s.unified /\ held \in Held
    BY <2>0 DEF Robot!Stage, Held
  <2>2. r \in Robot!Answers(h, made, held, place[h])
    BY <1>2 DEF Robot!Results, Robot!Find
  <2> HIDE DEF made
  <2>3. r = Robot!Result(made, held, place[h]) \/ r = Robot!Result(Robot!Failing(made), robot[h], place[h])
    BY <2>2, Answered
  <2> QED
    BY <1>2, <1>a, <1>b, <1>c, <2>0, <2>1, <2>3 DEF Comes
<1>3. CASE s.pc = "patch"
  <2> DEFINE set == [s EXCEPT !.pc = "record", !.unified = TRUE]
             kept == [s EXCEPT !.pc = "record"]
             held == [rid |-> s.rid, secret |-> secret]
  <2>1. /\ set \in Robot!Stage /\ set.pc = "record" /\ set.rid = s.rid /\ set.issued = s.issued
        /\ set.unified /\ held \in Held
    BY DEF Robot!Stage, Held
  <2>2. /\ kept \in Robot!Stage /\ kept.pc = "record" /\ kept.rid = s.rid /\ kept.issued = s.issued
        /\ kept.unified = s.unified
    BY DEF Robot!Stage
  <2>3. \/ robot[h].rid = s.rid /\ r \in Robot!Answers(h, set, held, place[h])
        \/ r = Robot!Result(kept, robot[h], place[h])
    BY <1>3 DEF Robot!Results, Robot!Patch
  <2> HIDE DEF set, kept
  <2>4. \/ robot[h].rid = s.rid /\ r = Robot!Result(set, held, place[h])
        \/ r = Robot!Result(Robot!Failing(set), robot[h], place[h])
        \/ r = Robot!Result(kept, robot[h], place[h])
    BY <2>3, Answered
  <2> QED
    BY <1>3, <1>a, <1>b, <1>c, <2>1, <2>2, <2>4 DEF Comes
<1>4. CASE s.pc = "record"
  <2> DEFINE done == [s EXCEPT !.pc = "done"]
             placed == [rid |-> s.rid, own |-> Kept(h, s), status |-> "ACTIVE"]
  <2>1. done \in Robot!Stage /\ done.pc = "done"
    BY DEF Robot!Stage
  <2>2. Kept(h, s) \in Robot!Secret \union {None} /\ s.rid \in Robot!Rid
    BY <1>4, <1>a, SecretFacts DEF Kept, Robot!Stage, Robot!Placement
  <2>3. placed \in Robot!Placement /\ placed.rid # None
    BY <1>4, <2>2 DEF Robot!Placement
  <2>4. \/ ~s.unified /\ r = Robot!Result(Robot!Failing(s), robot[h], place[h])
        \/ (s.unified \/ Kept(h, s) # None) /\ r = Robot!Result(done, robot[h], placed)
    BY <1>4 DEF Robot!Results, Robot!RecordPlacement, Kept
  <2> HIDE DEF done, placed
  <2>5. CASE ~s.unified /\ r = Robot!Result(Robot!Failing(s), robot[h], place[h])
    BY <1>4, <1>a, <1>b, <1>c, <2>5 DEF Comes
  <2>6. CASE (s.unified \/ Kept(h, s) # None) /\ r = Robot!Result(done, robot[h], placed)
    BY <1>4, <1>a, <1>c, <2>1, <2>3, <2>6 DEF Comes, placed
  <2> QED
    BY <2>4, <2>5, <2>6
<1>5. CASE s.pc = "delete"
  <2> DEFINE held == IF robot[h].rid = s.rid THEN Robot!NoRobot ELSE robot[h]
  <2>1. held \in Held
    BY <1>a, Initials
  <2>2. r \in Robot!Answers(h, Robot!Done, held, place[h])
    BY <1>5 DEF Robot!Results, Robot!Delete
  <2> HIDE DEF held
  <2>3. r = Robot!Result(Robot!Done, held, place[h]) \/ r = Robot!Result(Robot!Failing(Robot!Done), robot[h], place[h])
    BY <2>2, Answered
  <2> QED
    BY <1>5, <1>a, <1>b, <1>c, <2>1, <2>3, Initials DEF Comes, held
<1> QED
  BY <1>1, <1>2, <1>3, <1>4, <1>5 DEF Robot!Results, Robot!Stage

-----------------------------------------------------------------------------
(* Types.                                                                  *)

\* What a fan-out does to the handler's record.
LEMMA HandAt ==
  ASSUME hand \in Hand, NEW h \in Harbor, NEW s \in Robot!Stage, NEW any \in BOOLEAN,
         hand' = [hand EXCEPT !.at[h] = s, !.any = any]
  PROVE  /\ hand' \in Hand /\ hand'.job = hand.job /\ hand'.secret = hand.secret
         /\ hand'.prev = hand.prev /\ hand'.any = any /\ hand'.at[h] = s
         /\ \A k \in Harbor \ {h} : hand'.at[k] = hand.at[k]
<1>1. hand.at \in [Harbor -> Robot!Stage]
  BY DEF Hand
<1> DEFINE at == [hand.at EXCEPT ![h] = s]
<1>2. at \in [Harbor -> Robot!Stage] /\ at[h] = s /\ \A k \in Harbor \ {h} : at[k] = hand.at[k]
  BY <1>1
<1>3. hand' = [hand EXCEPT !.at = at, !.any = any]
  BY DEF Hand
<1> HIDE DEF at
<1> QED
  BY <1>2, <1>3 DEF Hand

\* The row keeps its place, its id and its secret when the flag is set.
LEMMA Flags ==
  ASSUME RobotSorts, RobotTyped, NEW placed
  PROVE  /\ row = None => Robot!Refreshed(placed) = None
         /\ row # None => /\ Robot!Refreshed(placed) \in RowType /\ Robot!Refreshed(placed) # None
                          /\ Robot!Refreshed(placed).id = row.id
                          /\ Robot!Refreshed(placed).secret = row.secret
                          /\ Robot!Refreshed(placed).unified =>
                               \A h \in Harbor : placed[h].status = "ACTIVE" /\ placed[h].own = None
<1>1. CASE row = None
  BY <1>1 DEF Robot!Refreshed
<1>2. CASE row # None
  <2> DEFINE all == \A h \in Harbor : placed[h].status = "ACTIVE" /\ placed[h].own = None
  <2>1. row \in RowType /\ all \in BOOLEAN
    BY <1>2 DEF RobotTyped
  <2>2. Robot!Refreshed(placed) = [row EXCEPT !.unified = all]
    BY <1>2 DEF Robot!Refreshed
  <2> HIDE DEF all
  <2>3. /\ Robot!Refreshed(placed) \in RowType /\ Robot!Refreshed(placed).id = row.id
        /\ Robot!Refreshed(placed).secret = row.secret /\ Robot!Refreshed(placed).unified = all
    BY <2>1, <2>2 DEF RowType
  <2>4. None \notin RowType
    BY DEF RobotSorts
  <2> QED
    BY <1>2, <2>3, <2>4 DEF all
<1> QED
  BY <1>1, <1>2

\* The types hold at first.
LEMMA RobotTypedInit == ASSUME RobotSorts, Robot!Init PROVE RobotTyped
<1>1. /\ Robot!NoPlacement \in Robot!Placement /\ Robot!NoRobot \in Held /\ Robot!Idle \in Hand /\ Robot!Asleep \in Pass
      /\ Robot!Idle.job = "idle" /\ Robot!Asleep.pc = "idle" /\ \A h \in Harbor : Robot!Idle.at[h] = Robot!Done
      /\ Robot!Done.pc = "done" /\ Robot!NoPlacement.own = None /\ Robot!Asleep.at = Robot!Done
  BY Initials
<1>2. /\ row \in RowType \union {None} /\ queue \subseteq Op /\ healthy \in BOOLEAN
      /\ shown \in SUBSET (Harbor \X Robot!Secret) /\ crashes = 0
  BY Zenon DEF Robot!Init
<1>4. nextId \in Nat /\ requests \in 0..MaxRequests
  BY DEF Robot!Init, RobotSorts
<1>3. /\ row = None /\ hand = Robot!Idle /\ pass = Robot!Asleep /\ queue = {}
      /\ place = [h \in Harbor |-> Robot!NoPlacement] /\ robot = [h \in Harbor |-> Robot!NoRobot]
  BY DEF Robot!Init
<1> QED
  BY <1>1, <1>2, <1>3, <1>4 DEF RobotTyped

\* A request keeps the types.
LEMMA RobotTypedRequest ==
  ASSUME RobotSorts, RobotTyped, Robot!Create \/ Robot!Rotate \/ Robot!Revoke
  PROVE  RobotTyped'
<1>a. /\ requests \in 0..MaxRequests /\ place \in [Harbor -> Robot!Placement] /\ hand \in Hand
      /\ row \in RowType \union {None} /\ MaxRequests \in Nat /\ None \notin RowType
      /\ pass.pc = "idle" /\ requests' = requests + 1 /\ requests' \in 0..MaxRequests
      /\ requests' \in Robot!Secret /\ requests' \in Robot!Account /\ requests' > 0
  BY DEF RobotTyped, RobotSorts, Robot!Create, Robot!Rotate, Robot!Revoke, Robot!Free, Robot!Secret,
     Robot!Account
<1>b. /\ Robot!AtFind \in Robot!Stage /\ Robot!AtFind.pc = "find"
      /\ \A rid \in Robot!Rid \union {None} : Robot!AtDelete(rid) \in Robot!Stage /\ Robot!AtDelete(rid).pc = "delete"
      /\ Robot!Done \in Robot!Stage /\ Robot!Done.pc = "done" /\ Robot!Idle \in Hand
  BY Initials
<1>1. CASE Robot!Create
  <2>1. row' \in RowType /\ row' # None
    <3>1. row' = [id |-> requests', secret |-> requests', unified |-> TRUE]
      BY <1>1 DEF Robot!Create
    <3>2. row' \in RowType
      BY <1>a, <3>1 DEF RowType
    <3> QED
      BY <1>a, <3>2
  <2>2. /\ hand' \in Hand /\ hand'.job = "create" /\ \A h \in Harbor : hand'.at[h] = Robot!AtFind
    BY <1>1, <1>a, <1>b DEF Robot!Create, Hand
  <2> QED
    BY <1>1, <1>a, <1>b, <2>1, <2>2 DEF Robot!Create, RobotTyped
<1>2. CASE Robot!Rotate
  <2>1. row \in RowType
    BY <1>2, <1>a DEF Robot!Rotate
  <2>2. row' \in RowType /\ row.secret \in Robot!Secret
    BY <1>2, <1>a, <2>1 DEF Robot!Rotate, RowType
  <2>3. /\ hand' \in Hand /\ hand'.job = "rotate" /\ \A h \in Harbor : hand'.at[h] = Robot!AtFind
    BY <1>2, <1>a, <1>b, <2>2 DEF Robot!Rotate, Hand
  <2> QED
    BY <1>2, <1>a, <1>b, <2>2, <2>3 DEF Robot!Rotate, RobotTyped
<1>3. CASE Robot!Revoke
  <2> DEFINE at == [h \in Harbor |-> IF place[h].rid = None THEN Robot!Done ELSE Robot!AtDelete(place[h].rid)]
  <2>1. \A h \in Harbor : place[h].rid \in Robot!Rid \union {None}
    BY <1>a DEF Robot!Placement
  <2>2. at \in [Harbor -> Robot!Stage]
    BY <1>b, <2>1
  <2>3. \A h \in Harbor : /\ at[h].pc \in {"delete", "done"}
                          /\ at[h].pc # "done" => place[h].rid # None
    BY <1>b, <2>1
  <2>4. hand' = [Robot!Idle EXCEPT !.job = "revoke", !.at = at]
    BY <1>3 DEF Robot!Revoke
  <2> HIDE DEF at
  <2>5. hand' \in Hand /\ hand'.job = "revoke" /\ hand'.at = at
    BY <1>b, <2>2, <2>4 DEF Hand
  <2> QED
    BY <1>3, <1>a, <2>3, <2>5 DEF Robot!Revoke, RobotTyped
<1> QED
  BY <1>1, <1>2, <1>3

\* A call of a handler keeps the types.
LEMMA RobotTypedHandCalls ==
  ASSUME RobotSorts, RobotTyped, NEW h \in Harbor, Robot!HandCalls(h)
  PROVE  RobotTyped'
<1>1. PICK r \in Robot!Results(h, hand.at[h], hand.secret) :
        /\ hand.job # "idle"
        /\ hand' = [hand EXCEPT !.at[h] = r.stage, !.any = hand.any \/ r.stage.pc = "done"]
        /\ robot' = [robot EXCEPT ![h] = r.held]
        /\ place' = [place EXCEPT ![h] = r.placed]
        /\ UNCHANGED <<row, queue, nextId, pass, shown, healthy, requests, crashes>>
  BY DEF Robot!HandCalls
<1> DEFINE s == hand.at[h]
           any == hand.any \/ r.stage.pc = "done"
<1>2. hand \in Hand /\ s \in Robot!Stage /\ hand.secret \in Robot!Secret
  BY DEF RobotTyped, Hand
<1>3. row # None /\ requests > 0
  BY <1>1 DEF RobotTyped
<1>4. s.pc \in {"patch", "record"} => s.rid # None
  BY DEF RobotTyped
<1>5. /\ Comes(h, s, hand.secret, r)
      /\ r.stage \in Robot!Stage /\ r.held \in Held /\ r.placed \in Robot!Placement
      /\ r.stage.pc \in {"patch", "record"} => r.stage.rid # None
      /\ r.placed.own # None => r.placed.rid # None
  <2> HIDE DEF s
  <2>1. r \in Robot!Results(h, s, hand.secret)
    BY DEF s
  <2> QED
    BY <1>2, <1>3, <1>4, <2>1, Called
<1>6. any \in BOOLEAN
  OBVIOUS
<1>7. /\ hand' \in Hand /\ hand'.job = hand.job /\ hand'.at[h] = r.stage
      /\ \A k \in Harbor \ {h} : hand'.at[k] = hand.at[k]
  <2> HIDE DEF any
  <2>1. hand' = [hand EXCEPT !.at[h] = r.stage, !.any = any]
    BY <1>1 DEF any
  <2> QED
    BY <1>2, <1>5, <1>6, <2>1, HandAt
<1>8. hand.job = "revoke" => /\ r.stage.pc \in {"failed", "done"}
                             /\ r.stage.pc # "done" => r.placed.rid # None
  <2>1. hand.job = "revoke" => s.pc \in {"delete", "failed", "done"}
    BY DEF RobotTyped
  <2>2. hand.job = "revoke" /\ s.pc # "done" => place[h].rid # None
    BY DEF RobotTyped
  <2>3. s.pc \notin {"failed", "done"}
    BY <1>1 DEF Robot!Results
  <2> HIDE DEF s
  <2> QED
    BY <1>5, <2>1, <2>2, <2>3, Initials DEF Comes
<1>9. /\ place' \in [Harbor -> Robot!Placement] /\ robot' \in [Harbor -> Held]
      /\ place'[h] = r.placed /\ \A k \in Harbor \ {h} : place'[k] = place[k]
  BY <1>1, <1>5 DEF RobotTyped
<1> QED
  BY <1>1, <1>3, <1>5, <1>7, <1>8, <1>9 DEF RobotTyped

\* What a row of the queue is.
LEMMA Queued ==
  ASSUME RobotSorts, RobotTyped, NEW h \in Harbor, row # None, NEW rid \in Robot!Rid \union {0},
         NEW kind \in {"ROBOT_CREATE", "ROBOT_DELETE"}, kind = "ROBOT_DELETE" => rid \in Robot!Rid
  PROVE  LET op == Robot!Row(nextId, h, kind, <<row.id, rid>>) IN
           /\ op \in Op /\ op.id = nextId /\ op.registry = h /\ op.kind = kind
           /\ op.key[1] = row.id /\ op.key[2] = rid
BY DEF RobotSorts, RobotTyped, RowType, Robot!Row, Op

\* A handler that queues for what failed keeps the types.
LEMMA RobotTypedHandQueues ==
  ASSUME RobotSorts, RobotTyped, NEW h \in Harbor, Robot!HandQueues(h)
  PROVE  RobotTyped'
<1>0. /\ hand.job # "idle" /\ hand.at[h].pc = "failed" /\ row # None /\ nextId' = nextId + 1
      /\ nextId \in Nat /\ UNCHANGED <<row, robot, pass, shown, healthy, requests, crashes>>
  BY DEF Robot!HandQueues, Robot!FannedOut, RobotTyped
<1>1. /\ hand' \in Hand /\ hand'.job = hand.job /\ hand'.at[h] = Robot!Done
      /\ \A k \in Harbor \ {h} : hand'.at[k] = hand.at[k]
  <2>1. hand' = [hand EXCEPT !.at[h] = Robot!Done, !.any = hand.any] /\ hand.any \in BOOLEAN /\ hand \in Hand
    BY DEF Robot!HandQueues, RobotTyped, Hand
  <2> QED
    BY <2>1, HandAt, Initials
<1>2. queue' \subseteq Op /\ \A op \in queue' : op.id < nextId'
  <2>1. \A op \in queue : op \in Op /\ op.id \in Nat /\ op.id < nextId
    BY DEF RobotTyped, Op
  <2>2. CASE hand.job = "revoke"
    <3> DEFINE op == Robot!Row(nextId, h, "ROBOT_DELETE", <<row.id, place[h].rid>>)
    <3>1. place[h].rid \in Robot!Rid
      BY <1>0, <2>2 DEF RobotTyped, Robot!Placement
    <3>2. op \in Op /\ op.id = nextId
      BY <1>0, <3>1, Queued
    <3>3. queue' = (queue \ Robot!Subject(queue, h, {"ROBOT_CREATE"}, <<row.id, 0>>)) \union {op}
      BY <2>2 DEF Robot!HandQueues
    <3> HIDE DEF op
    <3> QED
      BY <1>0, <2>1, <3>2, <3>3
  <2>3. CASE hand.job # "revoke"
    <3> DEFINE op == Robot!Row(nextId, h, "ROBOT_CREATE", <<row.id, 0>>)
    <3>1. op \in Op /\ op.id = nextId
      BY <1>0, Queued
    <3>2. queue' \subseteq queue \union {op}
      BY <2>3 DEF Robot!HandQueues, Robot!EnqueueOnce
    <3> HIDE DEF op
    <3> QED
      BY <1>0, <2>1, <3>1, <3>2
  <2> QED
    BY <2>2, <2>3
<1>3. /\ place' \in [Harbor -> Robot!Placement]
      /\ \A k \in Harbor : place'[k].rid = place[k].rid /\ place'[k].own = place[k].own
  <2>1. CASE hand.job = "revoke"
    BY <2>1 DEF Robot!HandQueues, RobotTyped
  <2>2. CASE hand.job # "revoke"
    <3> DEFINE p == [place[h] EXCEPT !.status = "FAILED"]
    <3>1. place \in [Harbor -> Robot!Placement] /\ place[h] \in Robot!Placement
      BY DEF RobotTyped
    <3>2. p \in Robot!Placement /\ p.rid = place[h].rid /\ p.own = place[h].own
      BY <3>1 DEF Robot!Placement
    <3>3. place' = [place EXCEPT ![h] = p]
      BY <2>2 DEF Robot!HandQueues
    <3> HIDE DEF p
    <3> QED
      BY <3>1, <3>2, <3>3
  <2> QED
    BY <2>1, <2>2
<1>4. Robot!Done.pc = "done"
  BY Initials
<1> QED
  BY <1>0, <1>1, <1>2, <1>3, <1>4 DEF RobotTyped

\* A handler that ends keeps the types.
LEMMA RobotTypedHandEnds ==
  ASSUME RobotSorts, RobotTyped, Robot!HandAnswers \/ Robot!HandGivesUp \/ Robot!HandForgets
  PROVE  RobotTyped'
<1>a. /\ hand' = Robot!Idle /\ hand.job # "idle" /\ row # None
      /\ row \in RowType /\ hand \in Hand /\ hand.prev \in Robot!Secret
      /\ hand.secret \in Robot!Secret
      /\ UNCHANGED <<robot, nextId, pass, healthy, requests, crashes>>
  BY DEF Robot!HandAnswers, Robot!HandGivesUp, Robot!HandForgets, Robot!Settled, Robot!FannedOut,
     RobotTyped, Hand
<1>b. /\ Robot!NoPlacement \in Robot!Placement /\ Robot!NoPlacement.own = None /\ Robot!Idle \in Hand /\ Robot!Idle.job = "idle"
      /\ Robot!Done.pc = "done" /\ \A h \in Harbor : Robot!Idle.at[h] = Robot!Done
  BY Initials
<1>c. /\ Robot!Refreshed(place) \in RowType /\ Robot!Refreshed(place) # None /\ None \notin RowType
  BY <1>a, Flags DEF RobotSorts
<1>1. CASE Robot!HandAnswers
  <2>1. shown' \in SUBSET (Harbor \X Robot!Secret)
    <3>1. \A h \in Harbor : place[h].own \in Robot!Secret \union {None}
      BY DEF RobotTyped, Robot!Placement
    <3>2. shown \in SUBSET (Harbor \X Robot!Secret)
      BY DEF RobotTyped
    <3>3. shown' = shown \union {<<h, hand.secret>> : h \in Harbor}
                \union {<<h, place[h].own>> : h \in {g \in Harbor : hand.job = "create" /\ place[g].own # None}}
      BY <1>1 DEF Robot!HandAnswers
    <3> QED
      BY <1>a, <3>1, <3>2, <3>3
  <2>2. row' = Robot!Refreshed(place) /\ UNCHANGED <<place, queue>>
    BY <1>1 DEF Robot!HandAnswers
  <2> QED
    BY <1>a, <1>b, <1>c, <2>1, <2>2 DEF RobotTyped
<1>2. CASE Robot!HandGivesUp
  <2>1. CASE hand.job = "create"
    BY <1>2, <1>a, <1>b, <2>1 DEF Robot!HandGivesUp, RobotTyped
  <2>2. CASE hand.job # "create"
    <3>1. row' = [Robot!Refreshed(place) EXCEPT !.secret = hand.prev] /\ UNCHANGED <<queue, place, shown>>
      BY <1>2, <2>2 DEF Robot!HandGivesUp
    <3>2. row' \in RowType /\ row' # None
      BY <1>a, <1>c, <3>1 DEF RowType
    <3> QED
      BY <1>a, <1>b, <3>1, <3>2 DEF RobotTyped
  <2> QED
    BY <2>1, <2>2
<1>3. CASE Robot!HandForgets
  BY <1>3, <1>a, <1>b DEF Robot!HandForgets, RobotTyped
<1> QED
  BY <1>1, <1>2, <1>3

\* A call of the pass keeps the types.
LEMMA RobotTypedPassCalls == ASSUME RobotSorts, RobotTyped, Robot!PassCalls PROVE RobotTyped'
<1> DEFINE h == pass.h
           s == pass.at
<1>1. PICK r \in Robot!Results(h, s, pass.secret) :
        /\ pass.pc = "replay"
        /\ robot' = [robot EXCEPT ![h] = r.held]
        /\ place' = [place EXCEPT ![h] = r.placed]
        /\ pass' = CASE r.stage.pc = "done" -> [pass EXCEPT !.pc = "unqueue", !.at = r.stage]
                     [] r.stage.pc = "failed" -> [pass EXCEPT !.pc = "realign", !.at = Robot!Done]
                     [] OTHER -> [pass EXCEPT !.at = r.stage]
        /\ row' = IF r.stage.pc = "done" THEN Robot!Refreshed(place') ELSE row
        /\ UNCHANGED <<queue, nextId, hand, shown, healthy, requests, crashes>>
  BY DEF Robot!PassCalls
<1>2. /\ pass \in Pass /\ s \in Robot!Stage /\ pass.secret \in Robot!Secret /\ h \in Harbor /\ pass.op \in Op
      /\ s.pc \in {"patch", "record"} => s.rid # None
      /\ s.pc = "delete" \/ row # None
      /\ row # None => requests > 0
      /\ hand.job = "idle"
  BY <1>1 DEF RobotTyped, Pass
<1>3. /\ Comes(h, s, pass.secret, r)
      /\ r.stage \in Robot!Stage /\ r.held \in Held /\ r.placed \in Robot!Placement
      /\ r.stage.pc \in {"patch", "record"} => r.stage.rid # None
      /\ r.placed.own # None => r.placed.rid # None
  <2>1. s.pc = "find" => requests > 0
    BY <1>2
  <2> HIDE DEF s, h
  <2> QED
    BY <1>1, <1>2, <2>1, Called
<1>4. /\ pass' \in Pass /\ pass'.h = h /\ pass'.op = pass.op
      /\ pass'.pc \in {"replay", "unqueue", "realign"}
      /\ pass'.pc = "replay" => pass'.at = r.stage /\ r.stage.pc \notin {"done", "failed"}
      /\ pass'.at.pc \in {"patch", "record"} => pass'.at.rid # None
  <2>0. Robot!Done \in Robot!Stage /\ Robot!Done.pc = "done"
    BY Initials
  <2>1. CASE r.stage.pc = "done"
    <3>1. pass' = [pass EXCEPT !.pc = "unqueue", !.at = r.stage]
      BY <1>1, <2>1
    <3> QED
      BY <1>2, <1>3, <2>1, <3>1 DEF Pass
  <2>2. CASE r.stage.pc = "failed"
    <3>1. pass' = [pass EXCEPT !.pc = "realign", !.at = Robot!Done]
      BY <1>1, <2>2
    <3> QED
      BY <1>2, <1>3, <2>0, <3>1 DEF Pass
  <2>3. CASE r.stage.pc \notin {"done", "failed"}
    <3>1. pass' = [pass EXCEPT !.at = r.stage]
      BY <1>1, <2>3
    <3> QED
      BY <1>1, <1>2, <1>3, <2>3, <3>1 DEF Pass
  <2> QED
    BY <2>1, <2>2, <2>3
<1>5. /\ place' \in [Harbor -> Robot!Placement] /\ robot' \in [Harbor -> Held]
      /\ place'[h] = r.placed /\ \A k \in Harbor \ {h} : place'[k] = place[k]
  BY <1>1, <1>2, <1>3 DEF RobotTyped
<1>6. /\ row' \in RowType \union {None} /\ (row' = None <=> row = None)
  <2>1. row \in RowType \union {None}
    BY DEF RobotTyped
  <2> QED
    BY <1>1, <2>1, Flags
<1>7. /\ r.stage.pc \in {"patch", "record"} => row # None
      /\ r.stage.pc \in {"patch", "record", "failed", "done"}
      /\ row = None => r.placed = place[h]
  BY <1>2, <1>3, Initials DEF Comes
<1>8. row' = None => \A k \in Harbor : place'[k] = Robot!NoPlacement
  <2>1. row = None => \A k \in Harbor : place[k] = Robot!NoPlacement
    BY DEF RobotTyped
  <2> QED
    BY <1>5, <1>6, <1>7, <2>1
<1> HIDE DEF h, s
<1>9. pass'.pc = "replay" => pass'.at.pc = "delete" \/ row' # None
  BY <1>4, <1>6, <1>7
<1>10. \A k \in Harbor : place'[k].own # None => place'[k].rid # None
  <2>1. \A k \in Harbor : place[k].own # None => place[k].rid # None
    BY DEF RobotTyped
  <2> QED
    BY <1>3, <1>5, <2>1
<1> QED
  BY <1>1, <1>2, <1>4, <1>5, <1>6, <1>8, <1>9, <1>10 DEF RobotTyped

\* A pass that goes on in its queue keeps the types.
LEMMA RobotTypedPassGoesOn ==
  ASSUME RobotSorts, RobotTyped, \/ \E h \in Harbor : Robot!PassStart(h)
                                 \/ \E op \in pass.ops : Robot!PassTake(op)
                                 \/ Robot!PassUnqueues \/ Robot!PassReplayed
  PROVE  RobotTyped'
<1>a. /\ pass \in Pass /\ queue \subseteq Op /\ Robot!Asleep \in Pass /\ Robot!Done \in Robot!Stage /\ Robot!Done.pc = "done"
      /\ Robot!AtFind \in Robot!Stage /\ Robot!AtFind.pc = "find" /\ Robot!Asleep.at = Robot!Done
      /\ row \in RowType \union {None} /\ 0 \in Robot!Secret
  BY Initials, SecretFacts DEF RobotTyped
<1>1. ASSUME NEW h \in Harbor, Robot!PassStart(h) PROVE RobotTyped'
  <2>1. pass' = [Robot!Asleep EXCEPT !.pc = "queue", !.h = h, !.ops = Robot!Owed(queue, h)]
        /\ hand.job = "idle"
    BY <1>1 DEF Robot!PassStart, RobotSorts
  <2>2. Robot!Owed(queue, h) \subseteq Op
    BY <1>a DEF Robot!Owed
  <2>3. pass' \in Pass /\ pass'.pc = "queue" /\ pass'.h = h /\ pass'.at = Robot!Done
    BY <1>a, <2>1, <2>2 DEF Pass
  <2>4. UNCHANGED <<row, place, robot, queue, nextId, hand, shown, healthy, requests, crashes>>
    BY <1>1 DEF Robot!PassStart
  <2> QED
    BY <1>a, <2>1, <2>3, <2>4 DEF RobotTyped
<1>2. ASSUME NEW op \in pass.ops, Robot!PassTake(op) PROVE RobotTyped'
  <2> DEFINE at == IF op.kind = "ROBOT_DELETE" THEN Robot!AtDelete(op.key[2])
                   ELSE IF row # None /\ row.id = op.key[1] THEN Robot!AtFind ELSE Robot!Done
             pc == IF at = Robot!Done THEN "unqueue" ELSE "replay"
             secret == IF row = None THEN 0 ELSE row.secret
             ops == pass.ops \ {op}
  <2>1. /\ pass.pc = "queue" /\ hand.job = "idle" /\ pass.h \in Harbor
        /\ pass' = [pass EXCEPT !.pc = pc, !.op = op, !.ops = ops, !.at = at, !.secret = secret]
        /\ UNCHANGED <<row, place, robot, queue, nextId, hand, shown, healthy, requests, crashes>>
    BY <1>2 DEF Robot!PassTake, RobotTyped
  <2>2. /\ op \in Op /\ ops \subseteq Op
        /\ op.kind = "ROBOT_DELETE" => op.key[2] \in Robot!Rid
    BY <1>a DEF Pass, Op
  <2>3. /\ secret \in Robot!Secret /\ pc \in {"unqueue", "replay"}
    BY <1>a DEF RowType
  <2>4. at \in Robot!Stage /\ (at.pc = "delete" \/ at = Robot!Done \/ (at.pc = "find" /\ row # None))
    <3>1. CASE op.kind = "ROBOT_DELETE"
      <4>1. Robot!AtDelete(op.key[2]) \in Robot!Stage /\ Robot!AtDelete(op.key[2]).pc = "delete"
        BY Initials, <2>2, <3>1
      <4> QED
        BY <3>1, <4>1
    <3>2. CASE op.kind # "ROBOT_DELETE"
      BY <1>a, <3>2
    <3> QED
      BY <3>1, <3>2
  <2>6. pc = "replay" => at.pc = "delete" \/ row # None
    BY <2>4
  <2>7. at.pc \notin {"patch", "record"}
    BY <1>a, <2>4
  <2> HIDE DEF at, pc, secret, ops
  <2>5. pass' \in Pass /\ pass'.pc = pc /\ pass'.at = at /\ pass'.h = pass.h /\ pass'.op = op
    BY <1>a, <2>1, <2>2, <2>3, <2>4 DEF Pass
  <2> QED
    BY <2>1, <2>2, <2>3, <2>5, <2>6, <2>7 DEF RobotTyped
<1>3. CASE Robot!PassUnqueues
  <2>1. /\ pass.pc = "unqueue" /\ hand.job = "idle" /\ pass.h \in Harbor
        /\ pass' = [pass EXCEPT !.pc = "queue", !.op = Robot!NoOp, !.at = Robot!Done]
        /\ queue' = queue \ {pass.op}
        /\ UNCHANGED <<row, place, robot, nextId, hand, shown, healthy, requests, crashes>>
    BY <1>3 DEF Robot!PassUnqueues, RobotTyped
  <2>2. pass' \in Pass /\ pass'.pc = "queue" /\ pass'.at = Robot!Done /\ pass'.h = pass.h
    BY <1>a, <2>1 DEF Pass
  <2> QED
    BY <1>a, <2>1, <2>2 DEF RobotTyped
<1>4. CASE Robot!PassReplayed
  <2>1. /\ pass.pc = "queue" /\ hand.job = "idle" /\ pass.h \in Harbor
        /\ pass' = [pass EXCEPT !.pc = "realign"]
        /\ UNCHANGED <<row, place, robot, queue, nextId, hand, shown, healthy, requests, crashes>>
    BY <1>4 DEF Robot!PassReplayed, RobotTyped
  <2>2. pass' \in Pass /\ pass'.pc = "realign" /\ pass'.at = pass.at /\ pass'.h = pass.h
    BY <1>a, <2>1 DEF Pass
  <2> QED
    BY <1>a, <2>1, <2>2 DEF RobotTyped
<1> QED
  BY <1>1, <1>2, <1>3, <1>4

\* Realignment keeps the types.
LEMMA RobotTypedRealign ==
  ASSUME RobotSorts, RobotTyped, Robot!PassRealigns \/ Robot!PassRealigned
  PROVE  RobotTyped'
<1>a. /\ pass \in Pass /\ Robot!Asleep \in Pass /\ Robot!Asleep.pc = "idle" /\ Robot!Asleep.at = Robot!Done /\ Robot!Done \in Robot!Stage
      /\ Robot!Done.pc = "done" /\ row \in RowType \union {None}
      /\ place \in [Harbor -> Robot!Placement]
      /\ robot \in [Harbor -> Held]
  BY Initials DEF RobotTyped
<1>1. CASE Robot!PassRealigns
  <2> DEFINE h == pass.h
             s == [Robot!AtFind EXCEPT !.pc = "patch", !.rid = place[h].rid]
  <2>1. /\ pass.pc = "realign" /\ h \in Harbor /\ hand.job = "idle"
        /\ UNCHANGED <<row, place, queue, nextId, hand, shown, healthy, requests, crashes>>
    BY <1>1 DEF Robot!PassRealigns, RobotTyped
  <2>2. CASE ~Robot!Divergent(h)
    BY <1>1, <1>a, <2>1, <2>2 DEF Robot!PassRealigns, RobotTyped
  <2>3. CASE Robot!Divergent(h)
    <3>1. PICK r \in Robot!Patch(h, s, row.secret) :
            /\ robot' = [robot EXCEPT ![h] = r.held]
            /\ pass' = IF r.stage.pc = "record" /\ r.stage.unified
                       THEN [pass EXCEPT !.pc = "realigned", !.at = Robot!Done]
                       ELSE Robot!Asleep
      BY <1>1, <2>3 DEF Robot!PassRealigns
    <3>2. row # None
      BY <2>1, <2>3, Initials DEF Robot!Divergent, RobotTyped
    <3>3. s \in Robot!Stage /\ s.pc = "patch" /\ s.rid = place[h].rid /\ s.rid # None
      BY <1>a, <2>1, <2>3, Initials DEF Robot!Stage, Robot!Placement, Robot!Divergent
    <3>4. row.secret \in Robot!Secret
      BY <1>a, <3>2 DEF RowType
    <3>5. r.held \in Held
      <4> HIDE DEF s, h
      <4>1. r \in Robot!Results(h, s, row.secret)
        BY <3>1, <3>3 DEF Robot!Results
      <4> QED
        BY <2>1, <3>3, <3>4, <4>1, Called
    <3>6. robot' \in [Harbor -> Held]
      BY <1>a, <3>1, <3>5
    <3>7. pass' \in Pass /\ pass'.pc \in {"idle", "realigned"} /\ pass'.at = Robot!Done
          /\ (pass'.pc # "idle" => pass'.h = h)
      BY <1>a, <3>1 DEF Pass
    <3> HIDE DEF s, h
    <3> QED
      BY <1>a, <2>1, <3>2, <3>6, <3>7 DEF RobotTyped
  <2> QED
    BY <2>2, <2>3
<1>2. CASE Robot!PassRealigned
  <2>1. /\ pass.pc = "realigned" /\ pass.h \in Harbor /\ row # None /\ hand.job = "idle"
        /\ place' = [place EXCEPT ![pass.h].own = None] /\ row' = Robot!Refreshed(place')
        /\ pass' = Robot!Asleep
        /\ UNCHANGED <<robot, queue, nextId, hand, shown, healthy, requests, crashes>>
    BY <1>2 DEF Robot!PassRealigned, RobotTyped
  <2>2. row' \in RowType /\ row' # None
    BY <2>1, Flags
  <2>3. /\ place' \in [Harbor -> Robot!Placement] /\ place'[pass.h].own = None
        /\ \A k \in Harbor \ {pass.h} : place'[k] = place[k]
    <3> DEFINE p == [place[pass.h] EXCEPT !.own = None]
    <3>1. p \in Robot!Placement /\ p.own = None
      BY <1>a, <2>1 DEF Robot!Placement
    <3>2. place' = [place EXCEPT ![pass.h] = p]
      BY <2>1
    <3> HIDE DEF p
    <3> QED
      BY <1>a, <2>1, <3>1, <3>2
  <2> QED
    BY <1>a, <2>1, <2>2, <2>3 DEF RobotTyped
<1> QED
  BY <1>1, <1>2

\* Any step keeps the types.
LEMMA RobotTypedNext == ASSUME RobotSorts, RobotTyped, [Robot!Next]_(Robot!vars) PROVE RobotTyped'
<1>1. CASE UNCHANGED Robot!vars
  BY <1>1 DEF Robot!vars, RobotTyped
<1>2. ~Robot!Crash
  BY DEF Robot!Crash, RobotTyped, RobotSorts
<1>3. CASE Robot!Heal
  BY <1>3 DEF Robot!Heal, RobotTyped
<1> QED
  BY <1>1, <1>2, <1>3, RobotTypedRequest, RobotTypedHandCalls, RobotTypedHandQueues,
     RobotTypedHandEnds, RobotTypedPassCalls,
     RobotTypedPassGoesOn, RobotTypedRealign DEF Robot!Next, Robot!HandStep, Robot!PassStep

\* The types imply those that are checked.
LEMMA RobotTypedShown == ASSUME RobotSorts, RobotTyped PROVE Robot!TypeOK
<1>1. /\ \A op \in queue : op \in Op /\ op.id < nextId
      /\ hand \in Hand /\ pass \in Pass /\ crashes \in 0..0
      /\ shown \in SUBSET (Harbor \X Robot!Secret)
  BY DEF RobotTyped, RobotSorts
<1>2. /\ row = None \/ row \in [id : Robot!Account, secret : Robot!Secret, unified : BOOLEAN]
      /\ place \in [Harbor -> Robot!Placement]
      /\ robot \in [Harbor -> [rid : Robot!Rid \union {None}, secret : Robot!Secret \union {None}]]
      /\ requests \in 0..MaxRequests
  BY DEF RobotTyped, RowType, Held
<1> QED
  BY <1>1, <1>2 DEF Robot!TypeOK, Op, Hand, Pass

\* Every variable keeps its type, for any number of Harbors and requests.
THEOREM RobotTypes == ASSUME RobotSorts PROVE Robot!Spec => []Robot!TypeOK
<1>1. Robot!Init => RobotTyped
  BY RobotTypedInit
<1>2. RobotTyped /\ [Robot!Next]_(Robot!vars) => RobotTyped'
  BY RobotTypedNext
<1>3. RobotTyped => Robot!TypeOK
  BY RobotTypedShown
<1> QED
  BY <1>1, <1>2, <1>3, PTL DEF Robot!Spec

-----------------------------------------------------------------------------
(* The invariant.                                                          *)

Serving == hand.job \in {"create", "rotate"}

\* The rows of the queue, and the snapshot of it a pass works off.
Rows ==
  /\ pass.pc # "idle" => pass.ops \subseteq Robot!Owed(queue, pass.h)
  /\ pass.pc \in {"replay", "unqueue"} => /\ pass.op \in Robot!Owed(queue, pass.h)
                                          /\ pass.op \notin pass.ops
  /\ pass.pc = "replay" =>
       /\ pass.at.pc \in {"find", "patch", "record", "delete"}
       /\ IF pass.at.pc = "delete"
          THEN pass.op.kind = "ROBOT_DELETE" /\ pass.at.rid = pass.op.key[2]
          ELSE pass.secret = row.secret
  /\ row # None =>
       /\ row.secret \in 1..requests
       /\ \A op \in queue : \/ op.kind = "ROBOT_CREATE" /\ op.key[1] = row.id
                            \/ hand.job = "revoke"
  /\ Serving => hand.secret = row.secret /\ hand.secret = requests /\ hand.prev \in 1..requests

\* The Harbor has the secret of the cluster, and its placement does not say so yet.
Set(h) ==
  \/ Serving /\ hand.at[h].pc = "record" /\ hand.at[h].unified
  \/ InPass(h) /\ pass.pc = "replay" /\ pass.at.pc = "record" /\ pass.at.unified
  \/ InPass(h) /\ pass.pc = "realigned"

\* A revocation has deleted the robot there.
Gone(h) == hand.job = "revoke" /\ hand.at[h].pc = "done" /\ robot[h].rid = None

\* Ids and secrets are of requests made so far.
Known(h) ==
  /\ robot[h].rid # None => robot[h].rid <= requests
  /\ robot[h].rid = None <=> robot[h].secret = None
  /\ robot[h].secret # None => robot[h].secret \in -requests..requests
  /\ place[h].own # None => place[h].own \in -requests..requests

\* What the placement says of the Harbor.
Placed(h) ==
  /\ place[h].rid # None => robot[h].rid = place[h].rid \/ Gone(h)
  /\ place[h].own # None => robot[h].secret = place[h].own \/ Set(h) \/ Gone(h)

\* Where the work on a Harbor stands.
StageIsTrue(h, s, secret) ==
  /\ s.pc \in {"patch", "record"} => robot[h].rid = s.rid
  /\ s.pc \in {"patch", "record"} /\ s.issued /\ ~s.unified => robot[h].secret = Robot!Minted(s.rid)
  /\ s.pc = "record" /\ s.unified => robot[h].secret = secret
  /\ s.pc \in {"find", "patch"} => ~s.unified
  /\ s.pc = "find" => ~s.issued

Staged(h) ==
  /\ Serving => StageIsTrue(h, hand.at[h], row.secret) /\ hand.at[h].pc # "delete"
  /\ InPass(h) /\ pass.pc = "replay" => StageIsTrue(h, pass.at, pass.secret)
  /\ InPass(h) /\ pass.pc = "realigned" => place[h].rid # None /\ robot[h].secret = row.secret
  /\ hand.job = "revoke" /\ hand.at[h].pc # "done" => robot[h].rid = place[h].rid
  /\ hand.job = "revoke" /\ hand.at[h].pc = "delete" => hand.at[h].rid = place[h].rid

\* Where nobody works, an active placement works, and what is not active is owed.
Reached(h) == row # None /\ (hand.job = "idle" \/ (Serving /\ hand.at[h].pc = "done"))

Worked(h) == Reached(h) =>
  /\ place[h].status = "ACTIVE" => /\ place[h].rid # None
                                   /\ place[h].own = None => robot[h].secret = row.secret
  /\ place[h].status # "ACTIVE" => /\ Robot!OwedKind(h, "ROBOT_CREATE")
                                   /\ ~(InPass(h) /\ pass.pc = "unqueue")
  /\ Serving /\ ~hand.any => place[h].status # "ACTIVE"

\* The flag is set where every Harbor has the one secret.
Flagged(h) ==
  ~Serving /\ row # None /\ row.unified => place[h].status = "ACTIVE" /\ place[h].own = None

\* What is to be deleted.
Deleted(h) ==
  /\ \A op \in Robot!Owed(queue, h) : op.kind = "ROBOT_DELETE" =>
       /\ robot[h].rid \in {None, op.key[2]}
       /\ hand.job = "revoke" => hand.at[h].pc = "done"
  /\ InPass(h) /\ pass.pc = "unqueue" /\ pass.op.kind = "ROBOT_DELETE" => robot[h].rid = None
  /\ hand.job = "revoke" /\ hand.at[h].pc = "done" /\ place[h].rid # None =>
       robot[h].rid = None \/ Robot!OwedKind(h, "ROBOT_DELETE")
  /\ hand.job = "create" /\ ~hand.any => place[h].rid = None

\* The secrets people were given: none is that of the request being served, and a robot
\* that nothing names has one, unless its deletion is owed.
Shown(h) ==
  /\ \A n \in Robot!Secret : <<h, n>> \in shown =>
       /\ n <= requests /\ -n <= requests
       /\ Serving => n < requests
       /\ -n = requests => /\ robot[h].rid # None /\ hand.job # "revoke"
                           /\ ~Robot!OwedKind(h, "ROBOT_DELETE")
  /\ place[h].rid = None /\ <<h, robot[h].secret>> \in shown =>
       Set(h) \/ (row = None /\ Robot!OwedKind(h, "ROBOT_DELETE"))
  /\ Serving /\ place[h].rid = None => Set(h) \/ robot[h].secret # requests

Fits(h) ==
  Known(h) /\ Placed(h) /\ Staged(h) /\ Worked(h) /\ Flagged(h) /\ Deleted(h) /\ Shown(h)

\* The inductive invariant.
RobotInv == RobotTyped /\ Rows /\ \A h \in Harbor : Fits(h)

\* What a step does not touch keeps what holds of a Harbor.
LEMMA Elsewhere ==
  ASSUME RobotSorts, RobotTyped, RobotTyped', NEW k \in Harbor, Fits(k),
         place'[k] = place[k], robot'[k] = robot[k], requests' = requests, shown' = shown,
         hand'.job = hand.job, hand'.at[k] = hand.at[k], hand.any => hand'.any,
         Robot!Owed(queue', k) = Robot!Owed(queue, k),
         row' = None <=> row = None,
         row # None => /\ row'.secret = row.secret
                       /\ row'.unified /\ ~row.unified =>
                            place[k].status = "ACTIVE" /\ place[k].own = None,
         pass' = pass \/ (~InPass(k) /\ ~InPass(k)')
  PROVE  Fits(k)'
<1>1. /\ Robot!OwedKind(k, "ROBOT_CREATE")' <=> Robot!OwedKind(k, "ROBOT_CREATE")
      /\ Robot!OwedKind(k, "ROBOT_DELETE")' <=> Robot!OwedKind(k, "ROBOT_DELETE")
  BY DEF Robot!OwedKind
<1>2. /\ Set(k)' <=> Set(k)
      /\ Gone(k)' <=> Gone(k)
      /\ Serving' <=> Serving
      /\ Reached(k)' <=> Reached(k)
  BY DEF Set, Gone, Serving, Reached, InPass
<1>3. Known(k)' /\ Placed(k)'
  BY <1>2 DEF Fits, Known, Placed
<1>4. Staged(k)'
  <2>1. Serving => row # None
    BY DEF Serving, RobotTyped
  <2>2. pass.pc = "realigned" => row # None
    BY DEF RobotTyped
  <2> QED
    BY <1>2, <2>1, <2>2 DEF Fits, Staged, StageIsTrue, InPass
<1>5. Worked(k)'
  BY <1>1, <1>2 DEF Fits, Worked, InPass, Reached
<1>6. Flagged(k)'
  BY <1>2 DEF Fits, Flagged
<1>7. Deleted(k)'
  BY <1>1 DEF Fits, Deleted, InPass
<1>8. Shown(k)'
  BY <1>1, <1>2 DEF Fits, Shown
<1> QED
  BY <1>3, <1>4, <1>5, <1>6, <1>7, <1>8 DEF Fits

-----------------------------------------------------------------------------
(* The handlers keep the invariant.                                        *)

\* A call of a handler.
LEMMA RobotInvHandCalls ==
  ASSUME RobotSorts, RobotInv, NEW h \in Harbor, Robot!HandCalls(h)
  PROVE  RobotInv'
<1> DEFINE s == hand.at[h]
<1>t. RobotTyped' /\ RobotTyped
  BY RobotTypedHandCalls DEF RobotInv
<1>1. PICK r \in Robot!Results(h, s, hand.secret) :
        /\ hand.job # "idle"
        /\ hand' = [hand EXCEPT !.at[h] = r.stage, !.any = hand.any \/ r.stage.pc = "done"]
        /\ robot' = [robot EXCEPT ![h] = r.held]
        /\ place' = [place EXCEPT ![h] = r.placed]
        /\ UNCHANGED <<row, queue, nextId, pass, shown, healthy, requests, crashes>>
  BY DEF Robot!HandCalls
<1>2. /\ hand \in Hand /\ s \in Robot!Stage /\ hand.secret \in Robot!Secret /\ hand.at \in [Harbor -> Robot!Stage]
      /\ row # None /\ requests > 0 /\ pass.pc = "idle"
      /\ s.pc \in {"patch", "record"} => s.rid # None
  BY <1>1 DEF RobotInv, RobotTyped, Hand
<1> HIDE DEF s
<1>3. /\ Comes(h, s, hand.secret, r)
      /\ r.stage \in Robot!Stage /\ r.held \in Held /\ r.placed \in Robot!Placement
  BY <1>t, <1>1, <1>2, Called
<1>4. /\ hand'.job = hand.job /\ hand'.at[h] = r.stage /\ hand'.secret = hand.secret
      /\ hand'.prev = hand.prev
      /\ hand'.any <=> hand.any \/ r.stage.pc = "done"
      /\ \A k \in Harbor \ {h} : hand'.at[k] = hand.at[k]
  <2> DEFINE any == hand.any \/ r.stage.pc = "done"
  <2>1. any \in BOOLEAN /\ hand' = [hand EXCEPT !.at[h] = r.stage, !.any = any]
    BY <1>1
  <2> HIDE DEF any
  <2>2. /\ hand'.job = hand.job /\ hand'.at[h] = r.stage /\ hand'.secret = hand.secret
        /\ hand'.prev = hand.prev /\ hand'.any = any
        /\ \A k \in Harbor \ {h} : hand'.at[k] = hand.at[k]
    BY <1>2, <1>3, <2>1, HandAt
  <2> QED
    BY <2>2 DEF any
<1>5. /\ place'[h] = r.placed /\ \A k \in Harbor \ {h} : place'[k] = place[k]
      /\ robot'[h] = r.held /\ \A k \in Harbor \ {h} : robot'[k] = robot[k]
  BY <1>1, <1>3 DEF RobotInv, RobotTyped
<1>6. Rows'
  BY <1>1, <1>2, <1>4 DEF RobotInv, Rows, Serving
<1>7. ASSUME NEW k \in Harbor, k # h PROVE Fits(k)'
  <2>1. Robot!Owed(queue', k) = Robot!Owed(queue, k)
    BY <1>1 DEF Robot!Owed
  <2> QED
    BY <1>t, <1>1, <1>4, <1>5, <1>7, <2>1, Elsewhere DEF RobotInv
<1>8. Fits(h)'
  <2>a. /\ Known(h) /\ Placed(h) /\ Staged(h) /\ Worked(h) /\ Flagged(h) /\ Deleted(h) /\ Shown(h)
        /\ Rows /\ UNCHANGED <<row, queue, pass, shown, requests>>
    BY <1>1 DEF RobotInv, Fits
  <2>b. /\ Robot!OwedKind(h, "ROBOT_CREATE")' <=> Robot!OwedKind(h, "ROBOT_CREATE")
        /\ Robot!OwedKind(h, "ROBOT_DELETE")' <=> Robot!OwedKind(h, "ROBOT_DELETE")
        /\ Robot!Owed(queue', h) = Robot!Owed(queue, h)
    BY <2>a DEF Robot!OwedKind, Robot!Owed
  <2>c. /\ Serving' <=> Serving
        /\ Serving \/ hand.job = "revoke"
    BY <1>1, <1>2, <1>4 DEF Serving, Hand
  <2>d. requests \in Robot!Rid /\ Robot!Minted(requests) = -requests /\ requests \in Int
    BY <1>2, SecretFacts DEF RobotInv, RobotTyped, Robot!Rid
  <2>e. ~InPass(h) /\ ~InPass(h)'
    BY <1>2, <2>a DEF InPass
  <2>1. CASE Serving
    <3>1. /\ s.pc # "delete" /\ StageIsTrue(h, s, row.secret) /\ hand.secret = row.secret
          /\ hand.secret = requests /\ hand.job # "revoke" /\ ~Gone(h) /\ ~Gone(h)'
      BY <1>4, <2>a, <2>1 DEF Staged, Rows, Serving, Gone, s
    <3>2. /\ Set(h) <=> s.pc = "record" /\ s.unified
          /\ Set(h)' <=> r.stage.pc = "record" /\ r.stage.unified
          /\ ~Reached(h) /\ (Reached(h)' <=> r.stage.pc = "done")
          /\ s.pc \in {"find", "patch", "record"}
      BY <1>1, <1>2, <1>3, <1>4, <2>c, <2>e, <2>1, <3>1 DEF Set, Reached, Serving, s, Comes
    <3>3. /\ hand'.job # "revoke" /\ row # None /\ row' = row /\ requests' = requests /\ shown' = shown
          /\ hand'.at[h] = r.stage /\ robot'[h] = r.held /\ place'[h] = r.placed
      BY <1>1, <1>2, <1>4, <1>5, <3>1
    <3>h. /\ robot[h] \in Held /\ place[h] \in Robot!Placement /\ None \notin Int
          /\ \A rid \in Robot!Rid : rid \in Int /\ Robot!Minted(rid) = -rid /\ Robot!Minted(rid) # None
          /\ row.secret \in Int /\ requests \in Int /\ requests > 0 /\ row.secret # None
          /\ requests # None
          /\ s.rid \in Robot!Rid \union {None} /\ None \notin Robot!Rid
      BY <1>2, <2>a, SecretFacts DEF RobotSorts, RobotInv, RobotTyped, Rows, Robot!Stage
    <3>f. CASE r.stage.pc = "failed"
      <4>1. r.held = robot[h] /\ r.placed = place[h] /\ ~Set(h) /\ ~Set(h)' /\ ~Reached(h)'
        BY <1>3, <3>2, <3>f DEF Comes
      <4>2. Known(h)' /\ Placed(h)' /\ Staged(h)' /\ Worked(h)' /\ Flagged(h)'
        BY <2>a, <2>c, <2>e, <2>1, <3>1, <3>3, <3>f, <4>1
           DEF Known, Placed, Staged, StageIsTrue, Worked, Flagged
      <4>3. Deleted(h)' /\ Shown(h)'
        BY <1>4, <2>a, <2>b, <2>c, <2>e, <2>1, <3>1, <3>3, <3>f, <4>1 DEF Deleted, Shown
      <4> QED
        BY <4>2, <4>3 DEF Fits
    <3>p. CASE s.pc = "find" /\ r.stage.pc = "patch"
      <4>1. /\ r.placed = place[h] /\ ~r.stage.unified /\ ~Set(h) /\ ~Set(h)' /\ ~Reached(h)'
            /\ IF robot[h].rid # None
               THEN r.stage.rid = robot[h].rid /\ ~r.stage.issued /\ r.held = robot[h]
               ELSE /\ r.stage.rid = requests /\ r.stage.issued
                    /\ r.held = [rid |-> requests, secret |-> Robot!Minted(requests)]
        BY <1>3, <3>1, <3>2, <3>p DEF Comes, StageIsTrue
      <4>2. Known(h)'
        BY <2>a, <2>d, <3>3, <3>h, <4>1 DEF Known
      <4>3. Placed(h)' /\ Staged(h)'
        BY <2>a, <2>c, <2>d, <2>e, <3>1, <3>3, <3>p, <3>h, <4>1
           DEF Placed, Staged, StageIsTrue, Known
      <4>4. Worked(h)' /\ Flagged(h)'
        BY <2>1, <2>c, <4>1 DEF Worked, Flagged
      <4>5. Deleted(h)'
        <5>1. \A op \in Robot!Owed(queue, h) : op.kind # "ROBOT_DELETE"
          BY <1>2, <2>a, <3>1 DEF Rows, Robot!Owed
        <5> QED
          BY <1>4, <2>a, <2>b, <2>e, <3>1, <3>3, <4>1, <5>1 DEF Deleted
      <4>6. Shown(h)'
        <5>1. r.held.rid # None
          BY <3>h, <4>1
        <5>2. robot[h].rid = None => <<h, r.held.secret>> \notin shown /\ r.held.secret # requests
          <6>1. SUFFICES ASSUME robot[h].rid = None
                         PROVE  <<h, -requests>> \notin shown /\ -requests # requests
            BY <2>d, <4>1
          <6>2. -requests \in Robot!Secret /\ -(-requests) = requests
            BY <2>d, SecretFacts
          <6> QED
            BY <2>a, <3>h, <6>1, <6>2 DEF Shown
        <5>3. robot[h].rid # None => r.held = robot[h]
          BY <4>1
        <5> QED
          BY <2>a, <2>b, <2>c, <2>1, <3>1, <3>3, <4>1, <5>1, <5>2, <5>3 DEF Shown
      <4> QED
        BY <4>2, <4>3, <4>4, <4>5, <4>6 DEF Fits
    <3>r. CASE s.pc = "patch" /\ r.stage.pc = "record"
      <4>1. /\ r.placed = place[h] /\ ~s.unified /\ ~Set(h) /\ ~Reached(h)'
            /\ r.stage.rid = s.rid /\ r.stage.issued = s.issued /\ s.rid # None
            /\ robot[h].rid = s.rid
            /\ r.held.rid = robot[h].rid
            /\ IF r.stage.unified THEN Set(h)' /\ r.held.secret = requests
               ELSE ~Set(h)' /\ r.held = robot[h]
        BY <1>2, <1>3, <3>1, <3>2, <3>r DEF Comes, StageIsTrue
      <4>2. Known(h)'
        BY <2>a, <2>d, <3>3, <3>h, <4>1 DEF Known
      <4>3. Placed(h)' /\ Staged(h)'
        BY <2>a, <2>c, <2>d, <2>e, <3>1, <3>3, <3>r, <3>h, <4>1
           DEF Placed, Staged, StageIsTrue, Known
      <4>4. Worked(h)' /\ Flagged(h)'
        BY <2>1, <2>c, <4>1 DEF Worked, Flagged
      <4>5. Deleted(h)'
        BY <1>4, <2>a, <2>b, <2>e, <3>1, <3>3, <3>r, <4>1 DEF Deleted
      <4>6. Shown(h)'
        BY <2>a, <2>b, <2>c, <2>1, <3>1, <3>3, <4>1 DEF Shown
      <4> QED
        BY <4>2, <4>3, <4>4, <4>5, <4>6 DEF Fits
    <3>d. CASE s.pc = "record" /\ r.stage.pc = "done"
      <4>1. /\ r.held = robot[h] /\ ~Set(h)' /\ (s.unified => robot[h].secret = row.secret)
            /\ r.placed.rid = s.rid /\ s.rid # None /\ robot[h].rid = s.rid
            /\ r.placed.status = "ACTIVE"
            /\ r.placed.own = None => robot[h].secret = row.secret
            /\ r.placed.own # None => r.placed.own = robot[h].secret /\ ~s.unified
        <5>1. /\ s.unified \/ Kept(h, s) # None
              /\ r.placed = [rid |-> s.rid, own |-> Kept(h, s), status |-> "ACTIVE"]
          BY <1>3, <3>d DEF Comes
        <5>2. /\ s.unified => Kept(h, s) = None
              /\ ~s.unified => Kept(h, s) = robot[h].secret
          BY <1>2, <2>a, <3>1, <3>2, <3>d, <5>1 DEF Kept, StageIsTrue, Placed
        <5> QED
          BY <1>2, <1>3, <3>1, <3>2, <3>d, <5>1, <5>2 DEF Comes, StageIsTrue
      <4>2. Known(h)' /\ Placed(h)' /\ Staged(h)' /\ Worked(h)' /\ Flagged(h)'
        BY <1>4, <2>a, <2>c, <2>e, <2>1, <3>1, <3>2, <3>3, <3>d, <4>1
           DEF Known, Placed, Staged, StageIsTrue, Worked, Flagged
      <4>3. Deleted(h)' /\ Shown(h)'
        BY <1>4, <2>a, <2>b, <2>c, <2>e, <2>1, <3>1, <3>3, <3>d, <4>1 DEF Deleted, Shown
      <4> QED
        BY <4>2, <4>3 DEF Fits
    <3> QED
      BY <1>3, <3>2, <3>f, <3>p, <3>r, <3>d DEF Comes
  <2>2. CASE hand.job = "revoke"
    <3>1. /\ ~Serving /\ ~Serving' /\ hand'.job = "revoke" /\ row # None
          /\ ~Set(h) /\ ~Set(h)' /\ ~Reached(h) /\ ~Reached(h)' /\ ~Gone(h)
          /\ s.pc = "delete" /\ s.rid = place[h].rid /\ robot[h].rid = place[h].rid
          /\ place[h].rid # None
      BY <1>2, <1>3, <1>4, <2>a, <2>c, <2>e, <2>2
         DEF Serving, Set, Reached, Gone, Staged, Comes, RobotInv, RobotTyped, s
    <3>2. /\ row' = row /\ requests' = requests /\ shown' = shown
          /\ hand'.at[h] = r.stage /\ robot'[h] = r.held /\ place'[h] = place[h]
          /\ Robot!Done.pc = "done"
          /\ Robot!NoRobot.rid = None /\ Robot!NoRobot.secret = None
      BY <1>1, <1>3, <1>4, <1>5, <3>1, Initials DEF Comes
    <3>3. \/ r.stage.pc = "failed" /\ r.held = robot[h]
          \/ r.stage.pc = "done" /\ r.held = Robot!NoRobot /\ Gone(h)'
      BY <1>3, <3>1, <3>2 DEF Comes, Gone
    <3>4. \A n : <<h, n>> \in shown => n \in Robot!Secret
      BY DEF RobotInv, RobotTyped
    <3>5. None \notin Robot!Secret
      BY SecretFacts
    <3>6. Known(h)' /\ Placed(h)' /\ Staged(h)' /\ Worked(h)' /\ Flagged(h)'
      BY <1>4, <2>a, <2>e, <3>1, <3>2, <3>3 DEF Known, Placed, Staged, Worked, Flagged
    <3>7. Deleted(h)'
      <4>1. \A op \in Robot!Owed(queue, h) : op.kind # "ROBOT_DELETE"
        BY <2>a, <3>1, <2>2 DEF Deleted, s
      <4> QED
        BY <1>4, <2>a, <2>b, <2>e, <2>2, <3>1, <3>2, <3>3, <4>1 DEF Deleted, Gone
    <3>8. Shown(h)'
      <4>1. ASSUME NEW n \in Robot!Secret, <<h, n>> \in shown
            PROVE  n <= requests /\ -n <= requests /\ -n # requests
        BY <2>a, <2>2, <4>1 DEF Shown
      <4>2. <<h, None>> \notin shown
        BY <3>4, <3>5
      <4> QED
        BY <2>a, <2>b, <2>2, <3>1, <3>2, <3>3, <4>1, <4>2 DEF Shown
    <3> QED
      BY <3>6, <3>7, <3>8 DEF Fits
  <2> QED
    BY <2>c, <2>1, <2>2
<1> QED
  BY <1>t, <1>6, <1>7, <1>8 DEF RobotInv

\* The invariant holds at first.
LEMMA RobotInvInit == ASSUME RobotSorts, Robot!Init PROVE RobotInv
<1>1. /\ row = None /\ queue = {} /\ hand = Robot!Idle /\ pass = Robot!Asleep /\ shown = {} /\ requests = 0
      /\ \A h \in Harbor : place[h] = Robot!NoPlacement /\ robot[h] = Robot!NoRobot
      /\ hand.job = "idle" /\ pass.pc = "idle" /\ Robot!NoPlacement.rid = None
      /\ Robot!NoPlacement.own = None
      /\ Robot!NoRobot.rid = None /\ Robot!NoRobot.secret = None /\ ~Serving
  BY Initials DEF Robot!Init, Serving
<1>2. RobotTyped
  BY RobotTypedInit
<1>3. Rows
  BY <1>1 DEF Rows
<1>4. ASSUME NEW h \in Harbor PROVE Fits(h)
  <2>1. ~Reached(h) /\ ~InPass(h) /\ Robot!Owed(queue, h) = {}
    BY <1>1 DEF Reached, InPass, Robot!Owed
  <2>2. Known(h) /\ Placed(h) /\ Staged(h) /\ Worked(h) /\ Flagged(h)
    BY <1>1, <2>1 DEF Known, Placed, Staged, Worked, Flagged
  <2>3. Deleted(h) /\ Shown(h)
    BY <1>1, <2>1 DEF Deleted, Shown
  <2> QED
    BY <2>2, <2>3 DEF Fits
<1> QED
  BY <1>2, <1>3, <1>4 DEF RobotInv

\* Where neither a handler nor a pass is at work.
LEMMA AtRest ==
  ASSUME RobotSorts, RobotInv, hand.job = "idle", pass.pc = "idle", NEW h \in Harbor
  PROVE  /\ ~Set(h) /\ ~Gone(h) /\ ~InPass(h) /\ ~Serving
         /\ place[h].rid # None => robot[h].rid = place[h].rid
         /\ place[h].own # None => robot[h].secret = place[h].own
         /\ row # None => \A op \in Robot!Owed(queue, h) : op.kind = "ROBOT_CREATE"
         /\ place[h].rid = None /\ <<h, robot[h].secret>> \in shown =>
              row = None /\ Robot!OwedKind(h, "ROBOT_DELETE")
<1>1. ~Set(h) /\ ~Gone(h) /\ ~InPass(h) /\ ~Serving
  BY DEF Set, Gone, InPass, Serving
<1>2. Placed(h) /\ Shown(h) /\ Rows
  BY DEF RobotInv, Fits
<1> QED
  BY <1>1, <1>2 DEF Placed, Shown, Rows, Robot!Owed

\* A request.
LEMMA RobotInvRequest ==
  ASSUME RobotSorts, RobotInv, Robot!Create \/ Robot!Rotate \/ Robot!Revoke
  PROVE  RobotInv'
<1>t. RobotTyped /\ RobotTyped' /\ Rows
  BY RobotTypedRequest DEF RobotInv
<1>a. /\ requests \in Nat /\ requests' = requests + 1 /\ pass.pc = "idle" /\ hand.job = "idle"
      /\ hand \in Hand /\ hand' \in Hand /\ None \notin Int
      /\ UNCHANGED <<place, robot, queue, nextId, pass, shown, healthy, crashes>>
  BY <1>t DEF RobotTyped, RobotSorts, Robot!Create, Robot!Rotate, Robot!Revoke, Robot!Free
<1>b. /\ Robot!AtFind.pc = "find" /\ ~Robot!AtFind.issued /\ ~Robot!AtFind.unified /\ Robot!Done.pc = "done"
  BY Initials
<1>c. ASSUME NEW h \in Harbor
      PROVE  /\ Known(h)' /\ ~InPass(h)' /\ ~Set(h) /\ ~Gone(h)
             /\ place[h].rid # None => robot[h].rid = place[h].rid
             /\ place[h].own # None => robot[h].secret = place[h].own
             /\ row # None => \A op \in Robot!Owed(queue, h) : op.kind = "ROBOT_CREATE"
             /\ place[h].rid = None /\ <<h, robot[h].secret>> \in shown =>
                  row = None /\ Robot!OwedKind(h, "ROBOT_DELETE")
             /\ \A n \in Robot!Secret : <<h, n>> \in shown =>
                  n < requests' /\ n <= requests' /\ -n <= requests' /\ -n # requests'
             /\ robot[h].secret # requests'
  <2>1. Known(h) /\ Shown(h)
    BY <1>c DEF RobotInv, Fits
  <2>2. robot[h] \in Held /\ place[h] \in Robot!Placement
    BY <1>c, <1>t DEF RobotTyped
  <2>3. /\ robot[h].rid \in Int \union {None} /\ robot[h].secret \in Int \union {None}
        /\ place[h].own \in Int \union {None} /\ Robot!Secret \subseteq Int
    BY <2>2, SecretFacts DEF Held, Robot!Placement
  <2>4. Known(h)'
    BY <1>a, <2>1, <2>3 DEF Known
  <2>5. \A n \in Robot!Secret : <<h, n>> \in shown =>
          n < requests' /\ n <= requests' /\ -n <= requests' /\ -n # requests'
    BY <1>a, <2>1, <2>3 DEF Shown
  <2>6. robot[h].secret # requests'
    BY <1>a, <2>1, <2>3 DEF Known
  <2>7. ~InPass(h)'
    BY <1>a DEF InPass
  <2> QED
    BY <1>a, <1>c, <2>4, <2>5, <2>6, <2>7, AtRest
<1>d. \A h \in Harbor : /\ Robot!OwedKind(h, "ROBOT_DELETE")' <=> Robot!OwedKind(h, "ROBOT_DELETE")
                        /\ Robot!Owed(queue', h) = Robot!Owed(queue, h)
  BY <1>a DEF Robot!OwedKind, Robot!Owed
<1>1. ASSUME Robot!Create \/ Robot!Rotate PROVE RobotInv'
  <2>1. /\ hand'.job \in {"create", "rotate"} /\ hand'.secret = requests' /\ hand'.prev \in 1..requests'
        /\ \A h \in Harbor : hand'.at[h] = Robot!AtFind
        /\ row' # None /\ row'.secret = requests'
        /\ \A op \in queue : op.kind = "ROBOT_CREATE" /\ op.key[1] = row'.id
        /\ hand'.job = "create" => \A h \in Harbor : place[h].rid = None
    <3>1. CASE Robot!Create
      <4>1. /\ row = None /\ queue = {} /\ row' = [id |-> requests', secret |-> requests', unified |-> TRUE]
            /\ hand' = [job |-> "create", secret |-> requests', prev |-> requests',
                        at |-> [h \in Harbor |-> Robot!AtFind], any |-> FALSE]
        BY <3>1 DEF Robot!Create, RobotSorts
      <4>2. \A h \in Harbor : place[h].rid = None
        BY <4>1, <1>t, Initials DEF RobotTyped
      <4>3. row' # None
        BY <1>t, <4>1 DEF RobotTyped
      <4> QED
        BY <1>a, <4>1, <4>2, <4>3
    <3>2. CASE Robot!Rotate
      <4>1. /\ row # None /\ row' = [row EXCEPT !.secret = requests']
            /\ hand' = [job |-> "rotate", secret |-> requests', prev |-> row.secret,
                        at |-> [h \in Harbor |-> Robot!AtFind], any |-> FALSE]
        BY <3>2 DEF Robot!Rotate
      <4>2. row \in RowType /\ row.secret \in 1..requests
        BY <1>t, <4>1 DEF RobotTyped, Rows
      <4>3. row' # None
        BY <1>t, <4>1 DEF RobotTyped
      <4>4. row'.secret = requests' /\ row'.id = row.id
        BY <4>1, <4>2 DEF RowType
      <4>5. hand.job # "revoke"
        BY <1>a
      <4>6. \A op \in queue : op.kind = "ROBOT_CREATE" /\ op.key[1] = row.id
        BY <1>t, <4>1, <4>5 DEF Rows
      <4>7. row.secret \in 1..requests'
        BY <1>a, <4>2
      <4> QED
        BY <4>1, <4>3, <4>4, <4>6, <4>7
    <3> QED
      BY <1>1, <3>1, <3>2
  <2>2. Serving' /\ hand'.job # "revoke"
    BY <2>1 DEF Serving
  <2>3. Rows'
    BY <1>a, <2>1 DEF Rows, Serving
  <2>4. ASSUME NEW h \in Harbor PROVE Fits(h)'
    <3>1. ~Set(h)' /\ ~Gone(h)' /\ ~Reached(h)'
      BY <1>a, <1>b, <1>c, <2>1, <2>2, <2>4 DEF Set, Gone, Reached, InPass
    <3>2. Known(h)' /\ Placed(h)'
      BY <1>a, <1>c, <2>4 DEF Placed
    <3>3. Staged(h)' /\ Worked(h)' /\ Flagged(h)'
      BY <1>b, <1>c, <2>1, <2>2, <2>4, <3>1 DEF Staged, StageIsTrue, Worked, Flagged
    <3>4. \A op \in Robot!Owed(queue, h) : op.kind # "ROBOT_DELETE"
      BY <2>1 DEF Robot!Owed
    <3>5. Deleted(h)'
      BY <1>a, <1>c, <1>d, <2>1, <2>2, <2>4, <3>4 DEF Deleted
    <3>6. ~Robot!OwedKind(h, "ROBOT_DELETE")
      BY <3>4 DEF Robot!OwedKind
    <3>7. Shown(h)'
      BY <1>a, <1>c, <2>1, <2>2, <2>4, <3>6 DEF Shown
    <3> QED
      BY <3>2, <3>3, <3>5, <3>7 DEF Fits
  <2> QED
    BY <1>t, <2>3, <2>4 DEF RobotInv
<1>2. ASSUME Robot!Revoke PROVE RobotInv'
  <2> DEFINE at == [h \in Harbor |-> IF place[h].rid = None THEN Robot!Done ELSE Robot!AtDelete(place[h].rid)]
  <2>1. row # None /\ row' = row /\ hand' = [Robot!Idle EXCEPT !.job = "revoke", !.at = at]
    BY <1>2 DEF Robot!Revoke
  <2>2. \A h \in Harbor : place[h].rid \in Robot!Rid \union {None}
    BY <1>t DEF RobotTyped, Robot!Placement
  <2>3. \A h \in Harbor : \/ place[h].rid = None /\ at[h].pc = "done"
                          \/ place[h].rid # None /\ at[h].pc = "delete" /\ at[h].rid = place[h].rid
    BY <1>b, <2>2, Initials
  <2> HIDE DEF at
  <2>4. hand'.job = "revoke" /\ hand'.at = at
    BY <2>1, Initials DEF Hand
  <2>5. ~Serving' /\ ~Serving
    BY <1>a, <2>4 DEF Serving
  <2>6. Rows'
    BY <1>a, <1>t, <2>1, <2>4, <2>5 DEF Rows
  <2>7. ASSUME NEW h \in Harbor PROVE Fits(h)'
    <3>a. Flagged(h)
      BY <2>7 DEF RobotInv, Fits
    <3>1. ~Set(h)' /\ ~Reached(h)'
      BY <1>a, <2>4, <2>5 DEF Set, Reached, InPass
    <3>2. Known(h)' /\ Placed(h)'
      BY <1>a, <1>c, <2>7 DEF Placed
    <3>3. Staged(h)' /\ Worked(h)' /\ Flagged(h)'
      BY <1>a, <1>c, <2>1, <2>3, <2>4, <2>5, <2>7, <3>a, <3>1 DEF Staged, Worked, Flagged
    <3>4. \A op \in Robot!Owed(queue, h) : op.kind # "ROBOT_DELETE"
      BY <1>c, <2>1, <2>7
    <3>5. Deleted(h)'
      BY <1>a, <1>c, <1>d, <2>3, <2>4, <2>7, <3>4 DEF Deleted
    <3>6. Shown(h)'
      BY <1>a, <1>c, <2>1, <2>5, <2>7 DEF Shown
    <3> QED
      BY <3>2, <3>3, <3>5, <3>6 DEF Fits
  <2> QED
    BY <1>t, <2>6, <2>7 DEF RobotInv
<1> QED
  BY <1>1, <1>2

\* A handler that queues for what failed.
LEMMA RobotInvHandQueues ==
  ASSUME RobotSorts, RobotInv, NEW h \in Harbor, Robot!HandQueues(h)
  PROVE  RobotInv'
<1>t. RobotTyped /\ RobotTyped' /\ Rows /\ Fits(h)
  BY RobotTypedHandQueues DEF RobotInv
<1>1. /\ hand.job # "idle" /\ hand.at[h].pc = "failed" /\ row # None /\ pass.pc = "idle"
      /\ Serving \/ hand.job = "revoke"
      /\ UNCHANGED <<row, robot, pass, shown, requests>>
  BY <1>t DEF Robot!HandQueues, Robot!FannedOut, RobotTyped, Hand, Serving
<1>2. /\ hand'.job = hand.job /\ hand'.at[h] = Robot!Done /\ hand'.any = hand.any
      /\ hand'.secret = hand.secret /\ hand'.prev = hand.prev
      /\ \A k \in Harbor \ {h} : hand'.at[k] = hand.at[k]
  <2>1. hand' = [hand EXCEPT !.at[h] = Robot!Done, !.any = hand.any] /\ hand.any \in BOOLEAN /\ hand \in Hand
    BY <1>t DEF Robot!HandQueues, RobotTyped, Hand
  <2> QED
    BY <2>1, HandAt, Initials
<1>3. /\ Serving' <=> Serving
      /\ Robot!Done.pc = "done" /\ ~InPass(h) /\ ~InPass(h)' /\ ~Set(h) /\ ~Set(h)' /\ ~Gone(h)
      /\ ~Reached(h)
  BY <1>1, <1>2, Initials DEF Serving, InPass, Set, Gone, Reached
<1>4. PICK op \in Op :
        /\ op.registry = h /\ op.key[1] = row.id
        /\ IF hand.job = "revoke"
           THEN /\ op.kind = "ROBOT_DELETE" /\ op.key[2] = place[h].rid
                /\ queue' = (queue \ Robot!Subject(queue, h, {"ROBOT_CREATE"}, <<row.id, 0>>)) \union {op}
                /\ place' = place
           ELSE /\ op.kind = "ROBOT_CREATE" /\ op \in queue'
                /\ queue' \subseteq queue \union {op}
                /\ queue \subseteq queue'
                /\ place' = [place EXCEPT ![h].status = "FAILED"]
  <2>1. CASE hand.job = "revoke"
    <3> DEFINE op == Robot!Row(nextId, h, "ROBOT_DELETE", <<row.id, place[h].rid>>)
    <3>1. place[h].rid \in Robot!Rid
      BY <1>1, <1>t, <2>1 DEF RobotTyped, Robot!Placement
    <3>2. /\ op \in Op /\ op.registry = h /\ op.key[1] = row.id
          /\ op.kind = "ROBOT_DELETE" /\ op.key[2] = place[h].rid
      BY <1>1, <1>t, <3>1, Queued
    <3>3. /\ queue' = (queue \ Robot!Subject(queue, h, {"ROBOT_CREATE"}, <<row.id, 0>>)) \union {op}
          /\ place' = place
      BY <2>1 DEF Robot!HandQueues
    <3> HIDE DEF op
    <3> QED
      BY <2>1, <3>2, <3>3
  <2>2. CASE hand.job # "revoke"
    <3> DEFINE new == Robot!Row(nextId, h, "ROBOT_CREATE", <<row.id, 0>>)
    <3>1. /\ new \in Op /\ new.registry = h /\ new.key[1] = row.id /\ new.kind = "ROBOT_CREATE"
      BY <1>1, <1>t, Queued
    <3>2. /\ queue' = Robot!EnqueueOnce(queue, nextId, h, "ROBOT_CREATE", <<row.id, 0>>)
          /\ place' = [place EXCEPT ![h].status = "FAILED"]
      BY <2>2 DEF Robot!HandQueues
    <3>3. CASE Robot!Subject(queue, h, {"ROBOT_CREATE"}, <<row.id, 0>>) = {}
      <4>1. queue' = queue \union {new}
        BY <3>2, <3>3 DEF Robot!EnqueueOnce
      <4> HIDE DEF new
      <4> QED
        BY <2>2, <3>1, <3>2, <4>1
    <3>4. CASE Robot!Subject(queue, h, {"ROBOT_CREATE"}, <<row.id, 0>>) # {}
      <4>1. queue' = queue
        BY <3>2, <3>4 DEF Robot!EnqueueOnce
      <4>2. PICK old \in queue : old.registry = h /\ old.key = <<row.id, 0>> /\ old.kind = "ROBOT_CREATE"
        BY <3>4 DEF Robot!Subject
      <4>3. old \in Op /\ old.key[1] = row.id
        BY <1>t, <4>2 DEF RobotTyped
      <4> QED
        BY <2>2, <3>2, <4>1, <4>2, <4>3
    <3> QED
      BY <3>3, <3>4
  <2> QED
    BY <2>1, <2>2
<1>5. /\ \A k \in Harbor \ {h} : place'[k] = place[k]
      /\ place'[h].rid = place[h].rid /\ place'[h].own = place[h].own
      /\ hand.job # "revoke" => place'[h].status = "FAILED"
      /\ hand.job = "revoke" => place' = place
  <2> DEFINE p == [place[h] EXCEPT !.status = "FAILED"]
  <2>1. place \in [Harbor -> Robot!Placement] /\ place[h] \in Robot!Placement
    BY <1>t DEF RobotTyped
  <2>2. p.status = "FAILED" /\ p.rid = place[h].rid /\ p.own = place[h].own
    BY <2>1 DEF Robot!Placement
  <2>3. place' = place \/ place' = [place EXCEPT ![h] = p]
    BY <1>4
  <2>4. hand.job # "revoke" => place' = [place EXCEPT ![h] = p]
    BY <1>4
  <2>5. hand.job = "revoke" => place' = place
    BY <1>4
  <2> HIDE DEF p
  <2> QED
    BY <2>1, <2>2, <2>3, <2>4, <2>5
<1>6. Rows'
  <2>1. \A o \in queue' : \/ o.kind = "ROBOT_CREATE" /\ o.key[1] = row.id
                          \/ hand.job = "revoke"
    BY <1>1, <1>4, <1>t DEF Rows
  <2> QED
    BY <1>1, <1>2, <1>3, <1>t, <2>1 DEF Rows
<1>7. ASSUME NEW k \in Harbor, k # h PROVE Fits(k)'
  <2>1. Robot!Owed(queue', k) = Robot!Owed(queue, k)
    BY <1>4, <1>7 DEF Robot!Owed, Robot!Subject
  <2> QED
    BY <1>t, <1>1, <1>2, <1>5, <1>7, <2>1, Elsewhere DEF RobotInv
<1>8. Fits(h)'
  <2>a. /\ Known(h) /\ Placed(h) /\ Staged(h) /\ Worked(h) /\ Flagged(h) /\ Deleted(h) /\ Shown(h)
        /\ UNCHANGED <<row, robot, pass, shown, requests>>
    BY <1>1, <1>t DEF Fits
  <2>0. Known(h)'
    BY <1>5, <2>a DEF Known
  <2>1. CASE Serving
    <3>1. hand.job # "revoke" /\ hand'.job # "revoke" /\ ~Gone(h)'
      BY <1>2, <2>1 DEF Serving, Gone
    <3>2. \A o \in queue' : o.kind = "ROBOT_CREATE"
      BY <1>1, <1>4, <1>t, <3>1 DEF Rows
    <3>3. /\ \A o \in Robot!Owed(queue', h) : o.kind = "ROBOT_CREATE"
          /\ ~Robot!OwedKind(h, "ROBOT_DELETE")' /\ Robot!OwedKind(h, "ROBOT_CREATE")'
      BY <1>4, <3>1, <3>2 DEF Robot!OwedKind, Robot!Owed
    <3>4. Placed(h)' /\ Staged(h)'
      BY <1>2, <1>3, <1>5, <2>a, <3>1 DEF Placed, Staged, StageIsTrue
    <3>5. Worked(h)' /\ Flagged(h)'
      BY <1>3, <1>5, <2>1, <3>1, <3>3 DEF Worked, Flagged
    <3>6. Deleted(h)'
      BY <1>2, <1>3, <1>5, <2>a, <3>1, <3>3 DEF Deleted
    <3>7. Shown(h)'
      BY <1>1, <1>2, <1>3, <1>5, <2>a, <3>1, <3>3 DEF Shown
    <3> QED
      BY <2>0, <3>4, <3>5, <3>6, <3>7 DEF Fits
  <2>2. CASE hand.job = "revoke"
    <3>1. /\ ~Serving /\ hand'.job = "revoke" /\ place' = place /\ robot[h].rid = place[h].rid
          /\ place[h].rid # None
      BY <1>1, <1>2, <1>3, <1>5, <1>t, <2>a, <2>2 DEF Serving, Staged, RobotTyped
    <3>2. /\ ~Gone(h)' /\ ~Reached(h)'
      BY <2>a, <3>1, <1>3 DEF Gone, Reached
    <3>3. \A o \in Robot!Owed(queue', h) : o.kind = "ROBOT_DELETE" => o.key[2] = robot[h].rid
      <4>1. \A o \in Robot!Owed(queue, h) : o.kind # "ROBOT_DELETE"
        BY <1>1, <2>a, <2>2 DEF Deleted
      <4> QED
        BY <1>4, <2>2, <3>1, <4>1 DEF Robot!Owed
    <3>4. Robot!OwedKind(h, "ROBOT_DELETE")'
      <4>1. op \in Robot!Owed(queue', h)
        BY <1>4, <2>2 DEF Robot!Owed
      <4> QED
        BY <1>4, <2>2, <4>1 DEF Robot!OwedKind
    <3>5. Placed(h)' /\ Staged(h)' /\ Worked(h)' /\ Flagged(h)'
      BY <1>2, <1>3, <2>a, <3>1, <3>2 DEF Placed, Staged, Worked, Flagged
    <3>6. Deleted(h)'
      BY <1>2, <1>3, <2>a, <3>1, <3>3, <3>4 DEF Deleted
    <3>7. Shown(h)'
      BY <1>1, <1>3, <2>a, <2>2, <3>1 DEF Shown
    <3> QED
      BY <2>0, <3>5, <3>6, <3>7 DEF Fits
  <2> QED
    BY <1>1, <2>1, <2>2
<1> QED
  BY <1>t, <1>6, <1>7, <1>8 DEF RobotInv

\* A handler that ends.
LEMMA RobotInvHandEnds ==
  ASSUME RobotSorts, RobotInv, Robot!HandAnswers \/ Robot!HandGivesUp \/ Robot!HandForgets
  PROVE  RobotInv'
<1>t. RobotTyped /\ RobotTyped' /\ Rows
  BY RobotTypedHandEnds DEF RobotInv
<1>a. /\ hand' = Robot!Idle /\ hand'.job = "idle" /\ hand.job # "idle" /\ row # None /\ pass.pc = "idle"
      /\ \A h \in Harbor : hand.at[h].pc = "done"
      /\ row \in RowType /\ ~Serving' /\ requests > 0 /\ requests \in Nat
      /\ UNCHANGED <<robot, nextId, pass, requests>>
  BY <1>t, Initials
     DEF Robot!HandAnswers, Robot!HandGivesUp, Robot!HandForgets, Robot!Settled, Robot!FannedOut,
         RobotTyped, Serving, RobotSorts
<1>b. Robot!NoPlacement.rid = None /\ Robot!NoPlacement.own = None
  BY Initials
<1>c. /\ Robot!Refreshed(place) \in RowType /\ Robot!Refreshed(place).id = row.id /\ Robot!Refreshed(place).secret = row.secret
      /\ Robot!Refreshed(place).unified =>
           \A h \in Harbor : place[h].status = "ACTIVE" /\ place[h].own = None
  BY <1>a, <1>t, Flags
<1>d. ASSUME NEW h \in Harbor
      PROVE  /\ ~Set(h) /\ ~Set(h)' /\ ~Gone(h)' /\ ~InPass(h)' /\ ~InPass(h)
             /\ Known(h) /\ Placed(h) /\ Worked(h) /\ Deleted(h) /\ Shown(h)
             /\ hand.at[h].pc = "done"
  BY <1>d, <1>a DEF RobotInv, Fits, Set, Gone, InPass
<1>1. ASSUME Serving, row' # None, row'.id = row.id, UNCHANGED <<queue, place>>,
             row'.secret \in 1..requests,
             hand.any => row'.secret = row.secret,
             row'.unified => \A h \in Harbor : place[h].status = "ACTIVE" /\ place[h].own = None,
             \A h \in Harbor : \A n \in Robot!Secret : <<h, n>> \in shown' =>
               n <= requests /\ -n <= requests /\ (-n = requests => robot[h].rid # None),
             \A h \in Harbor : place[h].rid = None => <<h, robot[h].secret>> \notin shown'
      PROVE  RobotInv'
  <2>1. hand.job # "revoke"
    BY <1>1 DEF Serving
  <2>2. \A op \in queue : op.kind = "ROBOT_CREATE" /\ op.key[1] = row.id
    BY <1>a, <1>t, <2>1 DEF Rows
  <2>3. Rows'
    BY <1>1, <1>a, <2>2 DEF Rows
  <2>4. ASSUME NEW h \in Harbor PROVE Fits(h)'
    <3>1. /\ \A op \in Robot!Owed(queue, h) : op.kind = "ROBOT_CREATE"
          /\ Robot!Owed(queue', h) = Robot!Owed(queue, h)
          /\ ~Robot!OwedKind(h, "ROBOT_DELETE")'
          /\ Robot!OwedKind(h, "ROBOT_CREATE")' <=> Robot!OwedKind(h, "ROBOT_CREATE")
      BY <1>1, <2>2 DEF Robot!OwedKind, Robot!Owed
    <3>2. Reached(h) /\ ~Gone(h)
      BY <1>1, <1>a, <1>d, <2>1, <2>4 DEF Reached, Gone
    <3>3. Known(h)' /\ Placed(h)' /\ Staged(h)' /\ Flagged(h)'
      BY <1>1, <1>a, <1>d, <2>4, <3>2 DEF Known, Placed, Staged, Flagged
    <3>4. Worked(h)'
      BY <1>1, <1>a, <1>d, <2>4, <3>1, <3>2 DEF Worked
    <3>5. Deleted(h)'
      BY <1>a, <1>d, <2>4, <3>1 DEF Deleted
    <3>6. Shown(h)'
      BY <1>1, <1>a, <2>4, <3>1 DEF Shown
    <3> QED
      BY <3>3, <3>4, <3>5, <3>6 DEF Fits
  <2> QED
    BY <1>t, <2>3, <2>4 DEF RobotInv
<1>2. ASSUME row' = None, UNCHANGED shown, \A h \in Harbor : place'[h] = Robot!NoPlacement,
             queue' \subseteq queue,
             \A h \in Harbor : \A op \in Robot!Owed(queue', h) : op.kind = "ROBOT_DELETE" =>
                                 robot[h].rid \in {None, op.key[2]},
             \A h \in Harbor : \A n \in Robot!Secret : <<h, n>> \in shown =>
               n <= requests /\ -n <= requests
                 /\ (-n = requests => robot[h].rid # None /\ ~Robot!OwedKind(h, "ROBOT_DELETE")'),
             \A h \in Harbor : <<h, robot[h].secret>> \in shown => Robot!OwedKind(h, "ROBOT_DELETE")'
      PROVE  RobotInv'
  <2>1. Rows'
    BY <1>2, <1>a DEF Rows
  <2>2. ASSUME NEW h \in Harbor PROVE Fits(h)'
    <3>1. ~Reached(h)'
      BY <1>2 DEF Reached
    <3>2. Known(h)' /\ Placed(h)' /\ Staged(h)' /\ Flagged(h)' /\ Worked(h)'
      BY <1>2, <1>a, <1>b, <1>d, <2>2, <3>1 DEF Known, Placed, Staged, Flagged, Worked
    <3>3. Deleted(h)'
      BY <1>2, <1>a, <1>d, <2>2 DEF Deleted
    <3>4. Shown(h)'
      BY <1>2, <1>a, <2>2 DEF Shown
    <3> QED
      BY <3>2, <3>3, <3>4 DEF Fits
  <2> QED
    BY <1>t, <2>1, <2>2 DEF RobotInv
<1>e. ASSUME Serving, NEW h \in Harbor
      PROVE  /\ \A n \in Robot!Secret : <<h, n>> \in shown =>
                  n <= requests /\ -n <= requests /\ (-n = requests => robot[h].rid # None)
             /\ place[h].rid = None => <<h, robot[h].secret>> \notin shown /\ robot[h].secret # requests
  BY <1>a, <1>d, <1>e DEF Shown
<1>3. CASE Robot!HandAnswers
  <2>1. /\ hand.job \in {"create", "rotate"} /\ hand.any /\ UNCHANGED <<place, queue>>
        /\ row' = Robot!Refreshed(place)
        /\ shown' = shown \union {<<h, hand.secret>> : h \in Harbor}
             \union {<<h, place[h].own>> :
                       h \in {g \in Harbor : hand.job = "create" /\ place[g].own # None}}
    BY <1>3 DEF Robot!HandAnswers
  <2>2. Serving /\ hand.secret = requests
    BY <1>t, <2>1 DEF Serving, Rows
  <2>3. row' # None /\ row'.id = row.id /\ row'.secret = row.secret /\ row.secret \in 1..requests
    BY <1>a, <1>c, <1>t, <2>1 DEF RobotSorts, Rows
  <2>4. ASSUME NEW h \in Harbor, NEW n, <<h, n>> \in shown'
        PROVE  \/ <<h, n>> \in shown
               \/ n = requests
               \/ place[h].own # None /\ n = place[h].own
    BY <2>1, <2>2, <2>4
  <2>5. ASSUME NEW h \in Harbor, NEW n \in Robot!Secret, <<h, n>> \in shown'
        PROVE  n <= requests /\ -n <= requests /\ (-n = requests => robot[h].rid # None)
    <3>1. CASE <<h, n>> \in shown
      BY <1>e, <2>2, <3>1
    <3>2. CASE n = requests
      BY <1>a, <3>2
    <3>3. CASE place[h].own # None /\ n = place[h].own
      <4>1. robot[h].secret = place[h].own
        <5>1. ~Gone(h)
          BY <2>1 DEF Gone
        <5> QED
          BY <1>d, <3>3, <5>1 DEF Placed
      <4>2. place[h].own \in -requests..requests /\ robot[h].rid # None
        BY <1>d, <3>3, <4>1 DEF Known
      <4> QED
        BY <1>a, <3>3, <4>2
    <3> QED
      BY <2>4, <2>5, <3>1, <3>2, <3>3
  <2>6. ASSUME NEW h \in Harbor, place[h].rid = None PROVE <<h, robot[h].secret>> \notin shown'
    <3>1. place[h].own = None
      BY <1>t, <2>6 DEF RobotTyped
    <3> QED
      BY <1>e, <2>2, <2>4, <2>6, <3>1
  <2> QED
    BY <1>1, <1>c, <2>1, <2>2, <2>3, <2>5, <2>6
<1>4. CASE Robot!HandGivesUp
  <2>1. /\ Serving /\ ~hand.any /\ UNCHANGED shown
    BY <1>4 DEF Robot!HandGivesUp, Serving
  <2>2. CASE hand.job = "create"
    <3>1. row' = None /\ queue' = {op \in queue : op.key[1] # row.id} /\ \A h \in Harbor : place'[h] = Robot!NoPlacement
      BY <1>4, <2>2 DEF Robot!HandGivesUp
    <3>2. queue' = {}
      BY <1>a, <1>t, <2>2, <3>1 DEF Rows
    <3>3. \A h \in Harbor : Robot!Owed(queue', h) = {} /\ ~Robot!OwedKind(h, "ROBOT_DELETE")'
      BY <3>2 DEF Robot!Owed, Robot!OwedKind
    <3>4. \A h \in Harbor : <<h, robot[h].secret>> \notin shown
      <4>1. \A h \in Harbor : place[h].rid = None
        BY <1>d, <2>1, <2>2 DEF Deleted
      <4> QED
        BY <1>e, <2>1, <4>1
    <3> QED
      BY <1>2, <1>e, <2>1, <3>1, <3>2, <3>3, <3>4
  <2>3. CASE hand.job # "create"
    <3>1. row' = [Robot!Refreshed(place) EXCEPT !.secret = hand.prev] /\ UNCHANGED <<queue, place>>
      BY <1>4, <2>3 DEF Robot!HandGivesUp
    <3>2. /\ row'.secret = hand.prev /\ row'.id = row.id /\ row'.unified = Robot!Refreshed(place).unified
          /\ hand.prev \in 1..requests
      BY <1>c, <1>t, <2>1, <3>1 DEF RowType, Rows
    <3>3. row' # None
      <4>1. row' \in RowType
        BY <1>a, <1>c, <1>t, <3>1 DEF RowType, RobotTyped, Hand
      <4> QED
        BY <4>1 DEF RobotSorts
    <3>4. ~hand.any
      BY <2>1
    <3> QED
      BY <1>1, <1>c, <1>e, <2>1, <3>1, <3>2, <3>3, <3>4
  <2> QED
    BY <2>2, <2>3
<1>5. CASE Robot!HandForgets
  <2>1. /\ hand.job = "revoke" /\ ~Serving /\ row' = None /\ UNCHANGED <<queue, shown>>
        /\ \A h \in Harbor : place'[h] = Robot!NoPlacement
    BY <1>5 DEF Robot!HandForgets, Serving
  <2>2. ASSUME NEW h \in Harbor
        PROVE  /\ \A op \in Robot!Owed(queue', h) : op.kind = "ROBOT_DELETE" => robot[h].rid \in {None, op.key[2]}
               /\ \A n \in Robot!Secret : <<h, n>> \in shown => n <= requests /\ -n <= requests /\ -n # requests
    BY <1>d, <2>1, <2>2 DEF Deleted, Shown
  <2>3. ASSUME NEW h \in Harbor, <<h, robot[h].secret>> \in shown
        PROVE  Robot!OwedKind(h, "ROBOT_DELETE")'
    <3>1. place[h].rid # None
      BY <1>a, <1>d, <2>3 DEF Shown
    <3>2. robot[h].rid = None \/ Robot!OwedKind(h, "ROBOT_DELETE")
      BY <1>d, <2>1, <2>3, <3>1 DEF Deleted
    <3>3. robot[h].rid # None
      <4>1. robot[h].secret # None
        BY <1>t, <2>3, SecretFacts DEF RobotTyped
      <4> QED
        BY <1>d, <2>3, <4>1 DEF Known
    <3> QED
      BY <2>1, <3>2, <3>3 DEF Robot!OwedKind
  <2>4. queue' \subseteq queue
    BY <2>1
  <2> QED
    BY <1>2, <2>1, <2>2, <2>3, <2>4
<1> QED
  BY <1>3, <1>4, <1>5

-----------------------------------------------------------------------------
(* The pass keeps the invariant.                                           *)

\* What a pass rests on: no handler is at work, and a row owes no deletion.
LEMMA Passing ==
  ASSUME RobotSorts, RobotInv, pass.pc # "idle"
  PROVE  /\ hand.job = "idle" /\ ~Serving /\ pass.h \in Harbor /\ pass \in Pass
         /\ requests \in Nat
         /\ row # None => \A op \in queue : op.kind = "ROBOT_CREATE" /\ op.key[1] = row.id
         /\ \A h \in Harbor : /\ ~Gone(h)
                              /\ Reached(h) <=> row # None
                              /\ InPass(h) <=> h = pass.h
                              /\ h # pass.h => ~Set(h)
<1>1. hand.job = "idle" /\ pass.h \in Harbor /\ pass \in Pass /\ requests \in Nat /\ Rows
  BY DEF RobotInv, RobotTyped, RobotSorts
<1> QED
  BY <1>1 DEF Serving, Gone, Reached, InPass, Set, Rows

\* A call of the pass.
LEMMA RobotInvPassCalls == ASSUME RobotSorts, RobotInv, Robot!PassCalls PROVE RobotInv'
<1>t. RobotTyped /\ RobotTyped' /\ Rows
  BY RobotTypedPassCalls DEF RobotInv
<1>h. PICK h \in Harbor : h = pass.h
  BY <1>t DEF Robot!PassCalls, RobotTyped
<1>s. PICK s \in Robot!Stage : s = pass.at
  BY <1>t DEF RobotTyped, Pass
<1>1. PICK r \in Robot!Results(h, s, pass.secret) :
        /\ pass.pc = "replay"
        /\ robot' = [robot EXCEPT ![h] = r.held]
        /\ place' = [place EXCEPT ![h] = r.placed]
        /\ pass' = CASE r.stage.pc = "done" -> [pass EXCEPT !.pc = "unqueue", !.at = r.stage]
                     [] r.stage.pc = "failed" -> [pass EXCEPT !.pc = "realign", !.at = Robot!Done]
                     [] OTHER -> [pass EXCEPT !.at = r.stage]
        /\ row' = IF r.stage.pc = "done" THEN Robot!Refreshed(place') ELSE row
        /\ UNCHANGED <<queue, nextId, hand, shown, healthy, requests, crashes>>
  BY <1>h, <1>s DEF Robot!PassCalls
<1>2. /\ pass \in Pass /\ s \in Robot!Stage /\ pass.secret \in Robot!Secret /\ h \in Harbor /\ pass.op \in Op
      /\ s.pc \in {"patch", "record"} => s.rid # None
      /\ s.pc = "delete" \/ row # None
      /\ row # None => requests > 0
      /\ hand.job = "idle" /\ ~Serving
      /\ InPass(h) /\ s = pass.at /\ h = pass.h
  BY <1>t, <1>h, <1>s, <1>1 DEF RobotTyped, Pass, Serving, InPass
<1>3. /\ s.pc \in {"find", "patch", "record", "delete"}
      /\ pass.op \in Robot!Owed(queue, h) /\ pass.op \notin pass.ops
      /\ pass.ops \subseteq Robot!Owed(queue, h)
      /\ IF s.pc = "delete"
         THEN pass.op.kind = "ROBOT_DELETE" /\ s.rid = pass.op.key[2]
         ELSE pass.secret = row.secret
  BY <1>t, <1>h, <1>s, <1>1 DEF Rows
<1>4. /\ Comes(h, s, pass.secret, r)
      /\ r.stage \in Robot!Stage /\ r.held \in Held /\ r.placed \in Robot!Placement
  BY <1>t, <1>1, <1>2, Called
<1>5. /\ pass'.h = h /\ pass'.op = pass.op /\ pass'.ops = pass.ops /\ pass'.secret = pass.secret
      /\ pass'.pc = IF r.stage.pc = "done" THEN "unqueue"
                    ELSE IF r.stage.pc = "failed" THEN "realign" ELSE "replay"
      /\ r.stage.pc \notin {"done", "failed"} => pass'.at = r.stage
  <2>1. CASE r.stage.pc = "done"
    <3>1. pass' = [pass EXCEPT !.pc = "unqueue", !.at = r.stage]
      BY <1>1, <2>1
    <3> QED
      BY <1>2, <2>1, <3>1 DEF Pass
  <2>2. CASE r.stage.pc = "failed"
    <3>1. pass' = [pass EXCEPT !.pc = "realign", !.at = Robot!Done]
      BY <1>1, <2>2
    <3> QED
      BY <1>2, <2>2, <3>1 DEF Pass
  <2>3. CASE r.stage.pc \notin {"done", "failed"}
    <3>1. pass' = [pass EXCEPT !.at = r.stage]
      BY <1>1, <2>3
    <3> QED
      BY <1>1, <1>2, <2>3, <3>1 DEF Pass
  <2> QED
    BY <2>1, <2>2, <2>3
<1>6. /\ place'[h] = r.placed /\ \A k \in Harbor \ {h} : place'[k] = place[k]
      /\ robot'[h] = r.held /\ \A k \in Harbor \ {h} : robot'[k] = robot[k]
  BY <1>t, <1>1, <1>2, <1>4 DEF RobotTyped
<1>7. /\ row' = None <=> row = None
      /\ row # None => row'.secret = row.secret /\ row'.id = row.id
      /\ row # None /\ row'.unified /\ (r.stage.pc = "done" \/ ~row.unified) =>
           \A k \in Harbor : place'[k].status = "ACTIVE" /\ place'[k].own = None
      /\ row = None => row' = row
      /\ r.stage.pc # "done" => row' = row
  BY <1>t, <1>1, Flags
<1>8. Rows'
  <2>1. r.stage.pc \notin {"done", "failed"} =>
          /\ r.stage.pc \in {"patch", "record"} /\ s.pc # "delete"
    BY <1>4, Initials DEF Comes
  <2>2. Robot!Owed(queue', h) = Robot!Owed(queue, h)
    BY <1>1 DEF Robot!Owed
  <2>3. /\ pass'.ops \subseteq Robot!Owed(queue', pass'.h) /\ pass'.op \in Robot!Owed(queue', pass'.h)
        /\ pass'.op \notin pass'.ops
    BY <1>3, <1>5, <2>2
  <2>4. pass'.pc = "replay" => pass'.at.pc \in {"patch", "record"} /\ pass'.secret = row'.secret
    BY <1>2, <1>3, <1>5, <1>7, <2>1
  <2>5. ~Serving'
    BY <1>1, <1>2 DEF Serving
  <2>6. row' # None => /\ row'.secret \in 1..requests'
                       /\ \A op \in queue' : op.kind = "ROBOT_CREATE" /\ op.key[1] = row'.id
    BY <1>1, <1>2, <1>7, <1>t DEF Rows
  <2> QED
    BY <2>3, <2>4, <2>5, <2>6 DEF Rows
<1>9. ASSUME NEW k \in Harbor, k # h PROVE Fits(k)'
  <2>1. /\ Robot!Owed(queue', k) = Robot!Owed(queue, k)
        /\ ~InPass(k) /\ ~InPass(k)' /\ hand' = hand /\ UNCHANGED <<requests, shown>>
    BY <1>1, <1>2, <1>5, <1>9 DEF Robot!Owed, InPass
  <2>2. row # None => /\ row'.secret = row.secret
                      /\ row'.unified /\ ~row.unified =>
                           place[k].status = "ACTIVE" /\ place[k].own = None
    BY <1>6, <1>7, <1>9
  <2>3. /\ hand'.job = hand.job /\ hand'.at[k] = hand.at[k] /\ (hand.any => hand'.any)
        /\ place'[k] = place[k] /\ robot'[k] = robot[k] /\ Fits(k) /\ (row' = None <=> row = None)
    BY <1>6, <1>7, <1>9, <2>1 DEF RobotInv
  <2> QED
    BY <1>t, <1>9, <2>1, <2>2, <2>3, Elsewhere
<1>10. Fits(h)'
  <2>a. /\ Known(h) /\ Placed(h) /\ Staged(h) /\ Worked(h) /\ Flagged(h) /\ Deleted(h) /\ Shown(h)
        /\ UNCHANGED <<queue, shown, requests, hand>>
    BY <1>1, <1>2 DEF RobotInv, Fits
  <2>b. /\ Robot!OwedKind(h, "ROBOT_CREATE")' <=> Robot!OwedKind(h, "ROBOT_CREATE")
        /\ Robot!OwedKind(h, "ROBOT_DELETE")' <=> Robot!OwedKind(h, "ROBOT_DELETE")
        /\ Robot!Owed(queue', h) = Robot!Owed(queue, h)
    BY <2>a DEF Robot!OwedKind, Robot!Owed
  <2>c. /\ ~Serving' /\ InPass(h)' /\ ~Gone(h) /\ ~Gone(h)' /\ hand'.job = "idle"
        /\ Reached(h) <=> row # None
        /\ Reached(h)' <=> row # None
        /\ Set(h) <=> s.pc = "record" /\ s.unified
        /\ Set(h)' <=> r.stage.pc = "record" /\ r.stage.unified
    BY <1>1, <1>2, <1>5, <1>7, <2>a DEF Serving, InPass, Gone, Reached, Set
  <2>d. StageIsTrue(h, s, pass.secret)
    BY <1>1, <1>2, <2>a DEF Staged
  <2>e. /\ robot'[h] = r.held /\ place'[h] = r.placed /\ requests' = requests /\ shown' = shown
        /\ row # None => row'.secret = row.secret
        /\ Robot!Done.pc = "done"
    BY <1>1, <1>6, <1>7, Initials
  <2>f. CASE r.stage.pc = "failed"
    <3>1. /\ r.held = robot[h] /\ r.placed = place[h] /\ ~Set(h) /\ ~Set(h)' /\ row' = row
          /\ pass'.pc = "realign"
      BY <1>4, <1>5, <1>7, <2>c, <2>e, <2>f DEF Comes
    <3>2. Known(h)' /\ Placed(h)' /\ Staged(h)' /\ Flagged(h)'
      BY <1>2, <2>a, <2>c, <2>e, <3>1 DEF Known, Placed, Staged, Flagged
    <3>3. Worked(h)' /\ Deleted(h)' /\ Shown(h)'
      BY <1>2, <2>a, <2>b, <2>c, <2>e, <3>1 DEF Worked, Deleted, Shown
    <3> QED
      BY <3>2, <3>3 DEF Fits
  <2>g. CASE row # None /\ r.stage.pc # "failed"
    <3>0. /\ \A op \in Robot!Owed(queue, h) : op.kind = "ROBOT_CREATE"
          /\ ~Robot!OwedKind(h, "ROBOT_DELETE")
          /\ s.pc # "delete" /\ pass.secret = row.secret /\ row.secret \in 1..requests
      BY <1>2, <1>3, <1>t, <2>g DEF Rows, Robot!Owed, Robot!OwedKind
    <3>h. /\ robot[h] \in Held /\ place[h] \in Robot!Placement /\ None \notin Int
          /\ \A rid \in Robot!Rid : rid \in Int /\ Robot!Minted(rid) = -rid /\ Robot!Minted(rid) # None
          /\ row.secret \in Int /\ requests \in Int /\ requests > 0 /\ row.secret # None
          /\ requests # None
          /\ s.rid \in Robot!Rid \union {None} /\ None \notin Robot!Rid /\ requests \in Robot!Rid
          /\ Robot!Minted(requests) = -requests
      BY <1>2, <1>t, <2>g, <3>0, SecretFacts DEF RobotSorts, RobotTyped, Robot!Stage, Robot!Rid
    <3>p. CASE s.pc = "find" /\ r.stage.pc = "patch"
      <4>1. /\ r.placed = place[h] /\ ~r.stage.unified /\ ~Set(h) /\ ~Set(h)' /\ row' = row
            /\ pass'.pc = "replay" /\ pass'.at = r.stage
            /\ IF robot[h].rid # None
               THEN r.stage.rid = robot[h].rid /\ ~r.stage.issued /\ r.held = robot[h]
               ELSE /\ r.stage.rid = requests /\ r.stage.issued
                    /\ r.held = [rid |-> requests, secret |-> Robot!Minted(requests)]
        BY <1>4, <1>5, <1>7, <2>c, <2>d, <3>p DEF Comes, StageIsTrue
      <4>2. Known(h)'
        BY <2>a, <2>e, <3>h, <4>1 DEF Known
      <4>3. Placed(h)' /\ Staged(h)'
        BY <1>2, <2>a, <2>c, <2>e, <3>h, <3>p, <4>1 DEF Placed, Staged, StageIsTrue, Known
      <4>4. Worked(h)' /\ Flagged(h)'
        BY <1>2, <2>a, <2>b, <2>c, <2>e, <2>g, <4>1 DEF Worked, Flagged, Placed
      <4>5. Deleted(h)'
        BY <1>2, <2>a, <2>b, <2>c, <3>0, <4>1 DEF Deleted
      <4>6. Shown(h)'
        <5>1. r.held.rid # None
          BY <3>h, <4>1
        <5>2. robot[h].rid = None => <<h, r.held.secret>> \notin shown
          <6>1. SUFFICES ASSUME robot[h].rid = None PROVE  <<h, -requests>> \notin shown
            BY <3>h, <4>1
          <6>2. -requests \in Robot!Secret /\ -(-requests) = requests
            BY <3>h, SecretFacts
          <6> QED
            BY <2>a, <6>1, <6>2 DEF Shown
        <5>3. robot[h].rid # None => r.held = robot[h]
          BY <4>1
        <5> QED
          BY <2>a, <2>b, <2>c, <2>e, <2>g, <3>0, <4>1, <5>1, <5>2, <5>3 DEF Shown
      <4> QED
        BY <4>2, <4>3, <4>4, <4>5, <4>6 DEF Fits
    <3>r. CASE s.pc = "patch" /\ r.stage.pc = "record"
      <4>1. /\ r.placed = place[h] /\ ~s.unified /\ ~Set(h) /\ row' = row
            /\ pass'.pc = "replay" /\ pass'.at = r.stage
            /\ r.stage.rid = s.rid /\ r.stage.issued = s.issued /\ s.rid # None
            /\ robot[h].rid = s.rid
            /\ r.held.rid = robot[h].rid
            /\ IF r.stage.unified THEN Set(h)' /\ r.held.secret = row.secret
               ELSE ~Set(h)' /\ r.held = robot[h]
        BY <1>2, <1>4, <1>5, <1>7, <2>c, <2>d, <3>0, <3>r DEF Comes, StageIsTrue
      <4>2. Known(h)'
        BY <2>a, <2>e, <3>0, <3>h, <4>1 DEF Known
      <4>3. Placed(h)' /\ Staged(h)'
        BY <1>2, <1>5, <2>a, <2>c, <2>d, <2>e, <3>0, <3>h, <3>r, <4>1
           DEF Placed, Staged, StageIsTrue
      <4>4. Worked(h)' /\ Flagged(h)'
        BY <1>2, <2>a, <2>b, <2>c, <2>e, <2>g, <4>1 DEF Worked, Flagged
      <4>5. Deleted(h)'
        BY <1>2, <2>a, <2>b, <2>c, <3>0, <4>1 DEF Deleted
      <4>6. Shown(h)'
        BY <2>a, <2>b, <2>c, <2>e, <2>g, <3>0, <4>1 DEF Shown
      <4> QED
        BY <4>2, <4>3, <4>4, <4>5, <4>6 DEF Fits
    <3>d. CASE s.pc = "record" /\ r.stage.pc = "done"
      <4>1. /\ r.held = robot[h] /\ ~Set(h)'
            /\ r.placed.rid = s.rid /\ s.rid # None /\ robot[h].rid = s.rid
            /\ r.placed.status = "ACTIVE"
            /\ r.placed.own = None => robot[h].secret = row.secret
            /\ r.placed.own # None => r.placed.own = robot[h].secret
        <5>1. /\ s.unified \/ Kept(h, s) # None
              /\ r.placed = [rid |-> s.rid, own |-> Kept(h, s), status |-> "ACTIVE"]
          BY <1>4, <3>d DEF Comes
        <5>2. /\ s.unified => Kept(h, s) = None
              /\ ~s.unified => Kept(h, s) = robot[h].secret
          BY <1>2, <2>a, <2>c, <2>d, <3>d, <5>1 DEF Kept, StageIsTrue, Placed
        <5> QED
          BY <1>2, <1>4, <2>c, <2>d, <3>0, <3>d, <5>1, <5>2 DEF Comes, StageIsTrue
      <4>2. row'.unified => r.placed.own = None
        BY <1>2, <1>7, <2>e, <2>g, <3>d
      <4>3. pass'.pc = "unqueue"
        BY <1>5, <3>d
      <4>4. Known(h)' /\ Placed(h)' /\ Staged(h)' /\ Worked(h)' /\ Flagged(h)'
        BY <2>a, <2>c, <2>e, <2>g, <4>1, <4>2, <4>3 DEF Known, Placed, Staged, Worked, Flagged
      <4>5. Deleted(h)'
        BY <1>2, <1>3, <1>5, <2>a, <2>b, <2>c, <2>e, <3>0, <4>1 DEF Deleted
      <4>6. Shown(h)'
        BY <2>a, <2>b, <2>c, <2>e, <2>g, <3>0, <4>1 DEF Shown
      <4> QED
        BY <4>4, <4>5, <4>6 DEF Fits
    <3> QED
      BY <1>3, <1>4, <2>g, <3>0, <3>p, <3>r, <3>d DEF Comes
  <2>i. CASE row = None /\ r.stage.pc # "failed"
    <3>1. /\ s.pc = "delete" /\ r.stage = Robot!Done /\ r.placed = place[h]
          /\ r.held = IF robot[h].rid = s.rid THEN Robot!NoRobot ELSE robot[h]
          /\ pass'.pc = "unqueue" /\ ~Set(h) /\ ~Set(h)' /\ row' = None
      BY <1>2, <1>4, <1>5, <1>7, <2>c, <2>e, <2>i DEF Comes
    <3>2. pass.op.kind = "ROBOT_DELETE" /\ robot[h].rid \in {None, s.rid}
      BY <1>3, <2>a, <3>1 DEF Deleted
    <3>3. /\ r.held.rid = None /\ r.held.secret = None /\ r.placed.own = None /\ None \notin Robot!Secret
          /\ Robot!OwedKind(h, "ROBOT_DELETE")
      <4>1. /\ Robot!NoRobot.rid = None /\ Robot!NoRobot.secret = None /\ None \notin Robot!Secret
            /\ place[h].own = None
        BY <1>2, <1>t, <2>i, Initials, SecretFacts DEF RobotTyped
      <4> QED
        BY <1>3, <2>a, <3>1, <3>2, <4>1 DEF Known, Robot!OwedKind
    <3>4. <<h, None>> \notin shown
      BY <1>t, <3>3 DEF RobotTyped
    <3>5. Known(h)' /\ Placed(h)' /\ Staged(h)' /\ Worked(h)' /\ Flagged(h)'
      BY <1>2, <1>t, <2>c, <2>e, <2>i, <3>1, <3>3, Initials
         DEF Known, Placed, Staged, Worked, Flagged, RobotTyped
    <3>6. Deleted(h)'
      BY <1>2, <1>5, <2>a, <2>b, <2>c, <2>e, <3>1, <3>3 DEF Deleted
    <3>7. Shown(h)'
      BY <2>a, <2>b, <2>c, <2>e, <3>1, <3>3, <3>4 DEF Shown
    <3> QED
      BY <3>5, <3>6, <3>7 DEF Fits
  <2> QED
    BY <2>f, <2>g, <2>i
<1> QED
  BY <1>t, <1>8, <1>9, <1>10 DEF RobotInv

\* What a Harbor has when a pass goes on, and nothing but the pass and the queue changes.
LEMMA GoesOn ==
  ASSUME RobotSorts, RobotInv, RobotTyped', NEW h \in Harbor,
         UNCHANGED <<row, place, robot, hand, shown, requests>>,
         hand.job = "idle", ~Set(h), ~Set(h)',
         Robot!Owed(queue', h) \subseteq Robot!Owed(queue, h),
         InPass(h)' /\ pass'.pc = "replay" => StageIsTrue(h, pass'.at, pass'.secret),
         ~(InPass(h)' /\ pass'.pc = "realigned"),
         row # None /\ place[h].status # "ACTIVE" =>
           Robot!OwedKind(h, "ROBOT_CREATE")' /\ ~(InPass(h)' /\ pass'.pc = "unqueue"),
         InPass(h)' /\ pass'.pc = "unqueue" /\ pass'.op.kind = "ROBOT_DELETE" => robot[h].rid = None,
         Robot!OwedKind(h, "ROBOT_DELETE") => Robot!OwedKind(h, "ROBOT_DELETE")' \/ robot[h].rid = None
  PROVE  Fits(h)'
<1>1. /\ Known(h) /\ Placed(h) /\ Staged(h) /\ Worked(h) /\ Flagged(h) /\ Deleted(h) /\ Shown(h)
      /\ ~Serving /\ ~Serving' /\ ~Gone(h) /\ ~Gone(h)' /\ shown \in SUBSET (Harbor \X Robot!Secret)
      /\ Reached(h)' <=> row # None
      /\ Reached(h) <=> row # None
      /\ Robot!OwedKind(h, "ROBOT_DELETE")' => Robot!OwedKind(h, "ROBOT_DELETE")
  BY DEF RobotInv, Fits, Serving, Gone, Reached, RobotTyped, Robot!OwedKind
<1>2. robot[h].rid = None => <<h, robot[h].secret>> \notin shown
  BY <1>1, SecretFacts DEF Known
<1>3. Known(h)' /\ Placed(h)'
  BY <1>1 DEF Known, Placed
<1>4. Staged(h)'
  <2>1. StageIsTrue(h, pass.at, pass.secret)' <=> StageIsTrue(h, pass'.at, pass'.secret)
    BY DEF StageIsTrue
  <2> QED
    BY <1>1, <2>1 DEF Staged
<1>5. Worked(h)' /\ Flagged(h)'
  BY <1>1 DEF Worked, Flagged
<1>6. Deleted(h)'
  BY <1>1 DEF Deleted
<1>7. Shown(h)'
  BY <1>1, <1>2 DEF Shown
<1> QED
  BY <1>3, <1>4, <1>5, <1>6, <1>7 DEF Fits

\* A pass that begins, or goes on in its queue.
LEMMA RobotInvPassGoesOn ==
  ASSUME RobotSorts, RobotInv, \/ \E h \in Harbor : Robot!PassStart(h)
                               \/ \E op \in pass.ops : Robot!PassTake(op)
                               \/ Robot!PassUnqueues \/ Robot!PassReplayed
  PROVE  RobotInv'
<1>t. RobotTyped /\ RobotTyped' /\ Rows
  BY RobotTypedPassGoesOn DEF RobotInv
<1>a. /\ pass \in Pass /\ queue \subseteq Op /\ Robot!Asleep \in Pass /\ Robot!Done.pc = "done"
      /\ Robot!AtFind.pc = "find" /\ ~Robot!AtFind.unified /\ ~Robot!AtFind.issued
      /\ \A h \in Harbor : Fits(h) /\ Worked(h) /\ Deleted(h) /\ Staged(h)
  BY <1>t, Initials DEF RobotTyped, RobotInv, Fits
<1>1. ASSUME NEW h \in Harbor, Robot!PassStart(h) PROVE RobotInv'
  <2>1. /\ hand.job = "idle" /\ pass.pc = "idle"
        /\ pass' = [Robot!Asleep EXCEPT !.pc = "queue", !.h = h, !.ops = Robot!Owed(queue, h)]
        /\ UNCHANGED <<row, place, robot, queue, nextId, hand, shown, healthy, requests, crashes>>
    BY <1>1 DEF Robot!PassStart, RobotSorts
  <2>2. pass'.pc = "queue" /\ pass'.h = h /\ pass'.ops = Robot!Owed(queue, h)
    BY <1>a, <2>1 DEF Pass
  <2>3. Rows'
    BY <2>1, <2>2, <1>t DEF Rows, Serving
  <2>4. ASSUME NEW k \in Harbor PROVE Fits(k)'
    <3>1. ~Set(k) /\ ~Set(k)' /\ Robot!Owed(queue', k) = Robot!Owed(queue, k)
      BY <2>1, <2>2 DEF Set, Serving, Robot!Owed
    <3>2. /\ Robot!OwedKind(k, "ROBOT_CREATE")' <=> Robot!OwedKind(k, "ROBOT_CREATE")
          /\ Robot!OwedKind(k, "ROBOT_DELETE")' <=> Robot!OwedKind(k, "ROBOT_DELETE")
      BY <3>1 DEF Robot!OwedKind
    <3>3. row # None /\ place[k].status # "ACTIVE" => Robot!OwedKind(k, "ROBOT_CREATE")
      BY <1>a, <2>1, <2>4 DEF Worked, Reached
    <3> QED
      BY <1>t, <2>1, <2>2, <2>4, <3>1, <3>2, <3>3, GoesOn
  <2> QED
    BY <1>t, <2>3, <2>4 DEF RobotInv
<1>2. ASSUME pass.pc # "idle", UNCHANGED <<row, place, robot, hand, shown, requests>>,
             pass'.h = pass.h, pass'.pc \in {"queue", "replay", "unqueue", "realign"}, Rows',
             Robot!Owed(queue', pass.h) \subseteq Robot!Owed(queue, pass.h),
             \A k \in Harbor \ {pass.h} : Robot!Owed(queue', k) = Robot!Owed(queue, k),
             ~Set(pass.h),
             pass'.pc = "replay" => /\ StageIsTrue(pass.h, pass'.at, pass'.secret)
                                    /\ ~(pass'.at.pc = "record"),
             row # None /\ place[pass.h].status # "ACTIVE" =>
               Robot!OwedKind(pass.h, "ROBOT_CREATE")' /\ pass'.pc # "unqueue",
             pass'.pc = "unqueue" => pass'.op.kind # "ROBOT_DELETE",
             Robot!OwedKind(pass.h, "ROBOT_DELETE") =>
               (\E op \in Robot!Owed(queue', pass.h) : op.kind = "ROBOT_DELETE") \/ robot[pass.h].rid = None
      PROVE  RobotInv'
  <2>1. hand.job = "idle" /\ pass.h \in Harbor
    BY <1>2, Passing
  <2>2. PICK h \in Harbor : h = pass.h
    BY <2>1
  <2>3. Fits(h)'
    <3>1. /\ ~Set(h) /\ ~Set(h)' /\ InPass(h)' /\ ~(InPass(h)' /\ pass'.pc = "realigned")
          /\ Robot!OwedKind(h, "ROBOT_DELETE") => Robot!OwedKind(h, "ROBOT_DELETE")' \/ robot[h].rid = None
      BY <1>2, <2>1, <2>2 DEF Set, Serving, InPass, Robot!OwedKind
    <3>2. row # None /\ place[h].status # "ACTIVE" => Robot!OwedKind(h, "ROBOT_CREATE")'
      BY <1>2, <2>2 DEF Robot!OwedKind
    <3> QED
      BY <1>t, <1>2, <2>1, <2>2, <3>1, <3>2, GoesOn
  <2>4. ASSUME NEW k \in Harbor, k # h PROVE Fits(k)'
    <3>1. ~InPass(k) /\ ~InPass(k)' /\ Robot!Owed(queue', k) = Robot!Owed(queue, k)
      BY <1>2, <2>2, <2>4 DEF InPass
    <3> QED
      BY <1>t, <1>a, <1>2, <2>4, <3>1, Elsewhere
  <2> QED
    BY <1>t, <1>2, <2>3, <2>4 DEF RobotInv
<1>3. ASSUME NEW op \in pass.ops, Robot!PassTake(op) PROVE RobotInv'
  <2> DEFINE at == IF op.kind = "ROBOT_DELETE" THEN Robot!AtDelete(op.key[2])
                   ELSE IF row # None /\ row.id = op.key[1] THEN Robot!AtFind ELSE Robot!Done
             pc == IF at = Robot!Done THEN "unqueue" ELSE "replay"
             secret == IF row = None THEN 0 ELSE row.secret
             ops == pass.ops \ {op}
  <2>1. /\ pass.pc = "queue" /\ hand.job = "idle" /\ pass.h \in Harbor
        /\ pass' = [pass EXCEPT !.pc = pc, !.op = op, !.ops = ops, !.at = at, !.secret = secret]
        /\ UNCHANGED <<row, place, robot, queue, nextId, hand, shown, healthy, requests, crashes>>
    BY <1>t, <1>3 DEF Robot!PassTake, RobotTyped
  <2>2. /\ op \in Op /\ op \in queue /\ op \in Robot!Owed(queue, pass.h)
        /\ pass.ops \subseteq Robot!Owed(queue, pass.h)
        /\ op.kind = "ROBOT_DELETE" => op.key[2] \in Robot!Rid
        /\ op.kind \in {"ROBOT_CREATE", "ROBOT_DELETE"}
    BY <1>a, <1>t, <1>3, <2>1 DEF Rows, Pass, Op, Robot!Owed
  <2>3. /\ row # None => op.kind = "ROBOT_CREATE" /\ op.key[1] = row.id
        /\ row # None => row.secret \in 1..requests
    BY <1>t, <2>1, <2>2 DEF Rows
  <2>4. \/ op.kind = "ROBOT_DELETE" /\ at.pc = "delete" /\ at.rid = op.key[2] /\ row = None
        \/ op.kind = "ROBOT_CREATE" /\ row # None /\ at = Robot!AtFind
        \/ op.kind = "ROBOT_CREATE" /\ row = None /\ at = Robot!Done
    <3>1. op.kind = "ROBOT_DELETE" => Robot!AtDelete(op.key[2]).pc = "delete" /\ Robot!AtDelete(op.key[2]).rid = op.key[2]
      BY <2>2, Initials
    <3> QED
      BY <2>2, <2>3, <3>1
  <2>5. /\ pc = "replay" \/ (pc = "unqueue" /\ row = None /\ op.kind = "ROBOT_CREATE")
        /\ pc = "replay" => at # Robot!Done
        /\ row # None => secret = row.secret
    BY <1>a, <2>4
  <2> HIDE DEF at, pc, secret
  <2>6. /\ pass'.pc = pc /\ pass'.h = pass.h /\ pass'.op = op /\ pass'.ops = ops /\ pass'.at = at
        /\ pass'.secret = secret
    BY <1>a, <2>1 DEF Pass
  <2>7. Rows'
    <3>1. Robot!Owed(queue', pass'.h) = Robot!Owed(queue, pass.h)
      BY <2>1, <2>6
    <3>2. /\ pass'.ops \subseteq Robot!Owed(queue', pass'.h)
          /\ pass'.op \in Robot!Owed(queue', pass'.h) /\ pass'.op \notin pass'.ops
      BY <2>2, <2>6, <3>1
    <3>3. pass'.pc = "replay" =>
            /\ pass'.at.pc \in {"find", "patch", "record", "delete"}
            /\ IF pass'.at.pc = "delete"
               THEN pass'.op.kind = "ROBOT_DELETE" /\ pass'.at.rid = pass'.op.key[2]
               ELSE pass'.secret = row'.secret
      BY <1>a, <2>1, <2>4, <2>5, <2>6
    <3>4. /\ ~Serving'
          /\ row' # None => /\ row'.secret \in 1..requests'
                            /\ \A o \in queue' : \/ o.kind = "ROBOT_CREATE" /\ o.key[1] = row'.id
                                                 \/ hand'.job = "revoke"
      BY <1>t, <2>1 DEF Rows, Serving
    <3> QED
      BY <3>2, <3>3, <3>4 DEF Rows
  <2>8. pass'.pc = "replay" =>
          StageIsTrue(pass.h, pass'.at, pass'.secret) /\ ~(pass'.at.pc = "record")
    BY <1>a, <2>4, <2>5, <2>6 DEF StageIsTrue
  <2>9. ~Set(pass.h)
    BY <2>1 DEF Set, Serving
  <2>10. row # None /\ place[pass.h].status # "ACTIVE" =>
           Robot!OwedKind(pass.h, "ROBOT_CREATE")' /\ pass'.pc # "unqueue"
    <3>1. Worked(pass.h)
      BY <1>a, <2>1
    <3> QED
      BY <2>1, <2>5, <2>6, <3>1 DEF Worked, Reached, Robot!OwedKind, Robot!Owed
  <2>11. \A k \in Harbor : Robot!Owed(queue', k) = Robot!Owed(queue, k)
    BY <2>1
  <2>12. Robot!OwedKind(pass.h, "ROBOT_DELETE") => \E o \in Robot!Owed(queue', pass.h) : o.kind = "ROBOT_DELETE"
    BY <2>1, <2>11 DEF Robot!OwedKind
  <2>13. pass'.pc \in {"queue", "replay", "unqueue", "realign"} /\ pass'.h = pass.h /\ pass.pc # "idle"
    BY <2>1, <2>5, <2>6
  <2>14. pass'.pc = "unqueue" => pass'.op.kind # "ROBOT_DELETE"
    BY <2>5, <2>6
  <2> QED
    BY <1>2, <2>1, <2>7, <2>8, <2>9, <2>10, <2>11, <2>12, <2>13, <2>14
<1>4. CASE Robot!PassReplayed
  <2>1. /\ pass.pc = "queue" /\ hand.job = "idle" /\ pass.h \in Harbor
        /\ pass' = [pass EXCEPT !.pc = "realign"]
        /\ UNCHANGED <<row, place, robot, queue, nextId, hand, shown, healthy, requests, crashes>>
    BY <1>t, <1>4 DEF Robot!PassReplayed, RobotTyped
  <2>2. pass'.pc = "realign" /\ pass'.h = pass.h /\ pass'.ops = pass.ops
    BY <1>a, <2>1 DEF Pass
  <2>3. Rows'
    BY <1>t, <2>1, <2>2 DEF Rows, Serving
  <2>4. ~Set(pass.h) /\ \A k \in Harbor : Robot!Owed(queue', k) = Robot!Owed(queue, k)
    BY <2>1 DEF Set, Serving
  <2>5. row # None /\ place[pass.h].status # "ACTIVE" => Robot!OwedKind(pass.h, "ROBOT_CREATE")'
    <3>1. Worked(pass.h)
      BY <1>a, <2>1
    <3> QED
      BY <2>1, <2>2, <3>1 DEF Worked, Reached, Robot!OwedKind, Robot!Owed
  <2>6. Robot!OwedKind(pass.h, "ROBOT_DELETE") => \E o \in Robot!Owed(queue', pass.h) : o.kind = "ROBOT_DELETE"
    BY <2>1, <2>4 DEF Robot!OwedKind
  <2> QED
    BY <1>2, <2>1, <2>2, <2>3, <2>4, <2>5, <2>6
<1>5. CASE Robot!PassUnqueues
  <2>1. /\ pass.pc = "unqueue" /\ hand.job = "idle" /\ pass.h \in Harbor
        /\ pass' = [pass EXCEPT !.pc = "queue", !.op = Robot!NoOp, !.at = Robot!Done]
        /\ queue' = queue \ {pass.op}
        /\ UNCHANGED <<row, place, robot, nextId, hand, shown, healthy, requests, crashes>>
    BY <1>t, <1>5 DEF Robot!PassUnqueues, RobotTyped
  <2>2. pass'.pc = "queue" /\ pass'.h = pass.h /\ pass'.ops = pass.ops
    BY <1>a, <2>1 DEF Pass
  <2>3. pass.op \in Robot!Owed(queue, pass.h) /\ pass.op \notin pass.ops /\ pass.ops \subseteq Robot!Owed(queue, pass.h)
    BY <1>t, <2>1 DEF Rows
  <2>4. /\ Robot!Owed(queue', pass.h) = Robot!Owed(queue, pass.h) \ {pass.op}
        /\ \A k \in Harbor \ {pass.h} : Robot!Owed(queue', k) = Robot!Owed(queue, k)
    BY <2>1, <2>3 DEF Robot!Owed
  <2>5. Rows'
    <3>1. pass'.ops \subseteq Robot!Owed(queue', pass'.h)
      BY <2>2, <2>3, <2>4
    <3> QED
      BY <1>t, <2>1, <2>2, <3>1 DEF Rows, Serving
  <2>6. /\ row # None => place[pass.h].status = "ACTIVE"
        /\ pass.op.kind = "ROBOT_DELETE" => robot[pass.h].rid = None
    BY <1>a, <2>1 DEF Worked, Reached, Deleted, InPass
  <2>7. Robot!OwedKind(pass.h, "ROBOT_DELETE") =>
          (\E o \in Robot!Owed(queue', pass.h) : o.kind = "ROBOT_DELETE") \/ robot[pass.h].rid = None
    BY <2>4, <2>6 DEF Robot!OwedKind
  <2>8. ~Set(pass.h)
    BY <2>1 DEF Set, Serving
  <2> QED
    BY <1>2, <2>1, <2>2, <2>4, <2>5, <2>6, <2>7, <2>8
<1> QED
  BY <1>1, <1>3, <1>4, <1>5

\* Realignment.
LEMMA RobotInvRealign ==
  ASSUME RobotSorts, RobotInv, Robot!PassRealigns \/ Robot!PassRealigned
  PROVE  RobotInv'
<1>t. RobotTyped /\ RobotTyped' /\ Rows
  BY RobotTypedRealign DEF RobotInv
<1>p. PICK h \in Harbor : h = pass.h /\ pass.pc # "idle"
  BY <1>t DEF Robot!PassRealigns, Robot!PassRealigned, RobotTyped
<1>a. /\ pass \in Pass /\ place \in [Harbor -> Robot!Placement] /\ robot \in [Harbor -> Held]
      /\ Robot!Asleep.pc = "idle" /\ Fits(h)
  BY <1>t, <1>p, Initials DEF RobotTyped, RobotInv
<1>b. /\ hand.job = "idle" /\ ~Serving /\ ~Gone(h) /\ (Reached(h) <=> row # None) /\ InPass(h)
      /\ row # None => \A op \in queue : op.kind = "ROBOT_CREATE" /\ op.key[1] = row.id
      /\ \A k \in Harbor \ {h} : ~InPass(k)
  BY <1>p, Passing
<1>c. /\ Known(h) /\ Placed(h) /\ Staged(h) /\ Worked(h) /\ Flagged(h) /\ Deleted(h) /\ Shown(h)
  BY <1>a DEF Fits
<1>1. CASE Robot!PassRealigns
  <2>1. pass.pc = "realign" /\ UNCHANGED <<row, place, queue, nextId, hand, shown, healthy, requests, crashes>>
    BY <1>1 DEF Robot!PassRealigns
  <2>2. ~Set(h)
    BY <1>b, <2>1 DEF Set
  <2>3. ASSUME NEW k \in Harbor, k # h, robot'[k] = robot[k], ~InPass(k)' PROVE Fits(k)'
    <3>1. ~InPass(k) /\ Robot!Owed(queue', k) = Robot!Owed(queue, k) /\ Fits(k)
      BY <1>b, <2>1, <2>3 DEF Robot!Owed, RobotInv
    <3> QED
      BY <1>t, <2>1, <2>3, <3>1, Elsewhere
  <2>4. ASSUME pass' = Robot!Asleep, UNCHANGED robot PROVE RobotInv'
    <3>1. Rows'
      BY <1>a, <1>t, <2>1, <2>4 DEF Rows, Serving
    <3>2. /\ ~InPass(h)' /\ ~Set(h)' /\ Robot!Owed(queue', h) = Robot!Owed(queue, h)
          /\ Robot!OwedKind(h, "ROBOT_CREATE")' <=> Robot!OwedKind(h, "ROBOT_CREATE")
          /\ Robot!OwedKind(h, "ROBOT_DELETE")' <=> Robot!OwedKind(h, "ROBOT_DELETE")
      BY <1>a, <1>b, <2>1, <2>4 DEF InPass, Set, Serving, Robot!Owed, Robot!OwedKind
    <3>3. row # None /\ place[h].status # "ACTIVE" => Robot!OwedKind(h, "ROBOT_CREATE")'
      BY <1>b, <1>c, <3>2 DEF Worked
    <3>4. Fits(h)'
      BY <1>b, <1>t, <2>1, <2>2, <2>4, <3>2, <3>3, GoesOn
    <3>5. \A k \in Harbor : k # h => Fits(k)'
      <4>1. \A k \in Harbor : ~InPass(k)'
        BY <1>a, <2>4 DEF InPass
      <4> QED
        BY <2>3, <2>4, <4>1
    <3> QED
      BY <1>t, <3>1, <3>4, <3>5 DEF RobotInv
  <2>5. CASE ~Robot!Divergent(h)
    BY <1>1, <1>p, <2>4, <2>5 DEF Robot!PassRealigns
  <2>6. CASE Robot!Divergent(h)
    <3> DEFINE s == [Robot!AtFind EXCEPT !.pc = "patch", !.rid = place[h].rid]
    <3>1. PICK r \in Robot!Patch(h, s, row.secret) :
            /\ robot' = [robot EXCEPT ![h] = r.held]
            /\ pass' = IF r.stage.pc = "record" /\ r.stage.unified
                       THEN [pass EXCEPT !.pc = "realigned", !.at = Robot!Done]
                       ELSE Robot!Asleep
      BY <1>1, <1>p, <2>6 DEF Robot!PassRealigns
    <3>2. row # None /\ place[h].rid # None /\ place[h].own # None
      BY <1>p, <1>t, <2>6, Initials DEF Robot!Divergent, RobotTyped
    <3>3. /\ s \in Robot!Stage /\ s.pc = "patch" /\ s.rid = place[h].rid /\ s.rid # None /\ ~s.unified
          /\ robot[h].rid = place[h].rid
      BY <1>a, <1>b, <1>c, <3>2, Initials DEF Robot!Stage, Robot!Placement, Placed
    <3>4. row.secret \in Robot!Secret /\ row.secret \in 1..requests /\ requests \in Nat
      BY <1>t, <3>2 DEF RobotTyped, RowType, Rows, RobotSorts
    <3>5. r \in Robot!Results(h, s, row.secret)
      BY <3>1, <3>3 DEF Robot!Results
    <3> HIDE DEF s
    <3>6. Comes(h, s, row.secret, r) /\ r.stage \in Robot!Stage /\ r.held \in Held
      BY <1>t, <3>3, <3>4, <3>5, Called
    <3>7. CASE ~(r.stage.pc = "record" /\ r.stage.unified)
      <4>1. r.held = robot[h]
        BY <3>3, <3>6, <3>7 DEF Comes
      <4>2. robot' = robot
        BY <1>a, <3>1, <4>1
      <4> QED
        BY <2>4, <3>1, <3>7, <4>2
    <3>8. CASE r.stage.pc = "record" /\ r.stage.unified
      <4>1. r.held = [rid |-> s.rid, secret |-> row.secret]
        BY <3>3, <3>6, <3>8 DEF Comes
      <4>2. /\ robot'[h].rid = robot[h].rid /\ robot'[h].secret = row.secret /\ robot[h].rid # None
            /\ \A k \in Harbor \ {h} : robot'[k] = robot[k]
        BY <1>a, <3>1, <3>3, <4>1
      <4>3. pass'.pc = "realigned" /\ pass'.h = h /\ pass'.ops = pass.ops
        BY <1>a, <1>p, <3>1, <3>8 DEF Pass
      <4>4. Rows'
        <5>1. pass'.ops \subseteq Robot!Owed(queue', pass'.h)
          BY <1>p, <1>t, <2>1, <4>3 DEF Rows
        <5> QED
          BY <1>t, <2>1, <4>3, <5>1 DEF Rows, Serving
      <4>5. /\ InPass(h)' /\ Set(h)' /\ ~Serving' /\ hand'.job = "idle" /\ Robot!Owed(queue', h) = Robot!Owed(queue, h)
            /\ Robot!OwedKind(h, "ROBOT_CREATE")' <=> Robot!OwedKind(h, "ROBOT_CREATE")
            /\ ~Robot!OwedKind(h, "ROBOT_DELETE")' /\ \A op \in Robot!Owed(queue, h) : op.kind = "ROBOT_CREATE"
        BY <1>b, <2>1, <3>2, <4>3 DEF InPass, Set, Serving, Robot!OwedKind, Robot!Owed
      <4>6. Known(h)' /\ Placed(h)' /\ Staged(h)'
        BY <1>c, <2>1, <3>2, <3>3, <3>4, <4>2, <4>3, <4>5, SecretFacts
           DEF Known, Placed, Staged, RobotSorts
      <4>7. Worked(h)' /\ Flagged(h)'
        BY <1>b, <1>c, <2>1, <3>2, <4>2, <4>3, <4>5 DEF Worked, Flagged
      <4>8. Deleted(h)'
        BY <4>3, <4>5 DEF Deleted
      <4>9. Shown(h)'
        BY <1>b, <1>c, <2>1, <3>2, <4>2, <4>5 DEF Shown
      <4>10. Fits(h)'
        BY <4>6, <4>7, <4>8, <4>9 DEF Fits
      <4>11. \A k \in Harbor : k # h => Fits(k)'
        <5>1. \A k \in Harbor : k # h => ~InPass(k)'
          BY <4>3 DEF InPass
        <5> QED
          BY <2>3, <4>2, <5>1
      <4> QED
        BY <1>t, <4>4, <4>10, <4>11 DEF RobotInv
    <3> QED
      BY <3>7, <3>8
  <2> QED
    BY <2>5, <2>6
<1>2. CASE Robot!PassRealigned
  <2>1. /\ pass.pc = "realigned" /\ row # None
        /\ place' = [place EXCEPT ![h].own = None] /\ row' = Robot!Refreshed(place')
        /\ pass' = Robot!Asleep
        /\ UNCHANGED <<robot, queue, nextId, hand, shown, healthy, requests, crashes>>
    BY <1>2, <1>p, <1>t DEF Robot!PassRealigned, RobotTyped
  <2>2. /\ place'[h].own = None /\ place'[h].rid = place[h].rid /\ place'[h].status = place[h].status
        /\ \A k \in Harbor \ {h} : place'[k] = place[k]
    <3> DEFINE p == [place[h] EXCEPT !.own = None]
    <3>1. p.own = None /\ p.rid = place[h].rid /\ p.status = place[h].status
      BY <1>a DEF Robot!Placement
    <3>2. place' = [place EXCEPT ![h] = p]
      BY <2>1
    <3> HIDE DEF p
    <3> QED
      BY <1>a, <2>1, <3>1, <3>2
  <2>3. /\ row' # None /\ row'.secret = row.secret /\ row'.id = row.id
        /\ row'.unified => \A k \in Harbor : place'[k].status = "ACTIVE" /\ place'[k].own = None
    BY <1>t, <2>1, Flags
  <2>4. place[h].rid # None /\ robot[h].secret = row.secret
    BY <1>b, <1>c, <2>1 DEF Staged
  <2>5. Rows'
    BY <1>a, <1>b, <1>t, <2>1, <2>3 DEF Rows, Serving
  <2>6. /\ ~InPass(h)' /\ ~Set(h)' /\ ~Serving' /\ hand'.job = "idle" /\ Robot!Owed(queue', h) = Robot!Owed(queue, h)
        /\ Robot!OwedKind(h, "ROBOT_CREATE")' <=> Robot!OwedKind(h, "ROBOT_CREATE")
        /\ ~Robot!OwedKind(h, "ROBOT_DELETE")' /\ \A op \in Robot!Owed(queue, h) : op.kind = "ROBOT_CREATE"
    BY <1>a, <1>b, <2>1 DEF InPass, Set, Serving, Robot!OwedKind, Robot!Owed
  <2>7. Known(h)' /\ Placed(h)' /\ Staged(h)'
    BY <1>b, <1>c, <2>1, <2>2, <2>6 DEF Known, Placed, Staged
  <2>8. Worked(h)' /\ Flagged(h)'
    BY <1>b, <1>c, <2>1, <2>2, <2>3, <2>4, <2>6 DEF Worked, Flagged
  <2>9. Deleted(h)'
    BY <2>6 DEF Deleted
  <2>10. Shown(h)'
    BY <1>b, <1>c, <2>1, <2>2, <2>3, <2>4, <2>6 DEF Shown
  <2>11. Fits(h)'
    BY <2>7, <2>8, <2>9, <2>10 DEF Fits
  <2>12. ASSUME NEW k \in Harbor, k # h PROVE Fits(k)'
    <3>1. /\ Robot!Owed(queue', k) = Robot!Owed(queue, k) /\ Fits(k)
          /\ ~InPass(k) /\ ~InPass(k)' /\ hand' = hand /\ UNCHANGED <<requests, shown>>
      BY <1>a, <1>b, <2>1, <2>12 DEF Robot!Owed, InPass, RobotInv
    <3>2. row'.unified /\ ~row.unified => place[k].status = "ACTIVE" /\ place[k].own = None
      BY <2>2, <2>3, <2>12
    <3>3. place'[k] = place[k] /\ robot'[k] = robot[k] /\ (row' = None <=> row = None)
      BY <2>1, <2>2, <2>3, <2>12
    <3>4. hand'.job = hand.job /\ hand'.at[k] = hand.at[k] /\ (hand.any => hand'.any)
      BY <3>1
    <3> QED
      BY <1>t, <2>3, <2>12, <3>1, <3>2, <3>3, <3>4, Elsewhere
  <2> QED
    BY <1>t, <2>5, <2>11, <2>12 DEF RobotInv
<1> QED
  BY <1>1, <1>2

\* What is not touched keeps the invariant.
LEMMA RobotInvStutter ==
  ASSUME RobotSorts, RobotInv, RobotTyped',
         UNCHANGED <<row, place, robot, queue, hand, pass, shown, requests>>
  PROVE  RobotInv'
<1>1. Rows'
  BY DEF RobotInv, Rows, Serving
<1>2. ASSUME NEW h \in Harbor PROVE Fits(h)'
  <2>1. Robot!Owed(queue', h) = Robot!Owed(queue, h) /\ RobotTyped /\ Fits(h)
    BY <1>2 DEF RobotInv
  <2> QED
    BY <1>2, <2>1, Elsewhere
<1> QED
  BY <1>1, <1>2 DEF RobotInv

\* Any step keeps the invariant.
LEMMA RobotInvNext == ASSUME RobotSorts, RobotInv, [Robot!Next]_(Robot!vars) PROVE RobotInv'
<1>t. RobotTyped /\ RobotTyped'
  BY RobotTypedNext DEF RobotInv
<1>1. CASE UNCHANGED Robot!vars
  BY <1>t, <1>1, RobotInvStutter DEF Robot!vars
<1>2. ~Robot!Crash
  BY <1>t DEF Robot!Crash, RobotTyped, RobotSorts
<1>3. CASE Robot!Heal
  BY <1>t, <1>3, RobotInvStutter DEF Robot!Heal
<1> QED
  BY <1>1, <1>2, <1>3, RobotInvRequest, RobotInvHandCalls, RobotInvHandQueues, RobotInvHandEnds,
     RobotInvPassCalls,
     RobotInvPassGoesOn, RobotInvRealign DEF Robot!Next, Robot!HandStep, Robot!PassStep

\* The invariant implies what is promised.
LEMMA RobotInvPromises ==
  ASSUME RobotSorts, RobotInv
  PROVE  Robot!SecretWorks /\ Robot!RevokedOpensNothing /\ Robot!FlagIsTrue
<1>1. ASSUME Robot!Quiet, NEW h \in Harbor
      PROVE  /\ row # None =>
                  \/ Robot!OwedKind(h, "ROBOT_CREATE")
                  \/ /\ place[h].status = "ACTIVE" /\ robot[h].rid = place[h].rid
                     /\ robot[h].secret = IF place[h].own = None THEN row.secret ELSE place[h].own
             /\ row = None /\ <<h, robot[h].secret>> \in shown => Robot!OwedKind(h, "ROBOT_DELETE")
             /\ row # None /\ row.unified => robot[h].secret = row.secret
  <2>1. hand.job = "idle" /\ pass.pc = "idle"
    BY <1>1 DEF Robot!Quiet
  <2>2. /\ ~Serving /\ Worked(h) /\ Flagged(h)
        /\ place[h].rid # None => robot[h].rid = place[h].rid
        /\ place[h].own # None => robot[h].secret = place[h].own
        /\ place[h].rid = None /\ <<h, robot[h].secret>> \in shown =>
             row = None /\ Robot!OwedKind(h, "ROBOT_DELETE")
    BY <1>1, <2>1, AtRest DEF RobotInv, Fits
  <2>3. row = None => place[h].rid = None
    BY <1>1, Initials DEF RobotInv, RobotTyped
  <2> QED
    BY <2>1, <2>2, <2>3 DEF Worked, Flagged, Reached
<1> QED
  BY <1>1 DEF Robot!SecretWorks, Robot!RevokedOpensNothing, Robot!FlagIsTrue

\* Once nothing is under way, the secret kept for a Harbor opens it, or the Harbor is owed it.
THEOREM OpensHolds == ASSUME RobotSorts PROVE Robot!Spec => []Robot!SecretWorks
<1>1. Robot!Init => RobotInv
  BY RobotInvInit
<1>2. RobotInv /\ [Robot!Next]_(Robot!vars) => RobotInv'
  BY RobotInvNext
<1>3. RobotInv => Robot!SecretWorks
  BY RobotInvPromises
<1> QED
  BY <1>1, <1>2, <1>3, PTL DEF Robot!Spec

\* What a Harbor still holds of a robot that is revoked is owed its deletion, or has a secret
\* nobody was given.
THEOREM RevokedHolds == ASSUME RobotSorts PROVE Robot!Spec => []Robot!RevokedOpensNothing
<1>1. Robot!Init => RobotInv
  BY RobotInvInit
<1>2. RobotInv /\ [Robot!Next]_(Robot!vars) => RobotInv'
  BY RobotInvNext
<1>3. RobotInv => Robot!RevokedOpensNothing
  BY RobotInvPromises
<1> QED
  BY <1>1, <1>2, <1>3, PTL DEF Robot!Spec

\* The flag is set only where the one secret opens every Harbor.
THEOREM FlagHolds == ASSUME RobotSorts PROVE Robot!Spec => []Robot!FlagIsTrue
<1>1. Robot!Init => RobotInv
  BY RobotInvInit
<1>2. RobotInv /\ [Robot!Next]_(Robot!vars) => RobotInv'
  BY RobotInvNext
<1>3. RobotInv => Robot!FlagIsTrue
  BY RobotInvPromises
<1> QED
  BY <1>1, <1>2, <1>3, PTL DEF Robot!Spec

-----------------------------------------------------------------------------
(* The components together.                                                *)

\* The mesh that is checked is the one the theorems of ReplicationMesh are about.
LEMMA SameMesh ==
  /\ Mesh!Init <=> MeshProof!Init
  /\ Mesh!Next <=> MeshProof!Next
  /\ Mesh!vars = MeshProof!vars
  /\ Mesh!TypeOK <=> MeshProof!TypeOK
  /\ Mesh!ActiveIsWired <=> MeshProof!ActiveIsWired
  /\ Mesh!NothingIsForgotten <=> MeshProof!NothingIsForgotten
  /\ Mesh!CleanupSparesLinks <=> MeshProof!CleanupSparesLinks
  BY DEF
     Mesh!ActiveIsWired, MeshProof!ActiveIsWired, Mesh!ApplyActivates,
     MeshProof!ApplyActivates, Mesh!ApplyEndpoint, MeshProof!ApplyEndpoint, Mesh!ApplyFails,
     MeshProof!ApplyFails, Mesh!ApplyPolicy, MeshProof!ApplyPolicy, Mesh!ApplyReads,
     MeshProof!ApplyReads, Mesh!ApplyRecord, MeshProof!ApplyRecord, Mesh!ApplyRefused,
     MeshProof!ApplyRefused, Mesh!ApplySkips, MeshProof!ApplySkips, Mesh!Applying,
     MeshProof!Applying, Mesh!BackingOff, MeshProof!BackingOff, Mesh!CleaningUp,
     MeshProof!CleaningUp, Mesh!Cleanup, MeshProof!Cleanup, Mesh!CleanupSparesLinks,
     MeshProof!CleanupSparesLinks, Mesh!Crash, MeshProof!Crash, Mesh!DrainClose,
     MeshProof!DrainClose, Mesh!DrainDelete, MeshProof!DrainDelete, Mesh!DrainDisable,
     MeshProof!DrainDisable, Mesh!DrainFails, MeshProof!DrainFails, Mesh!DrainForget,
     MeshProof!DrainForget, Mesh!DrainRemove, MeshProof!DrainRemove, Mesh!Elapse,
     MeshProof!Elapse, Mesh!FailEdge, MeshProof!FailEdge, Mesh!Failure, MeshProof!Failure,
     Mesh!FirstStep, MeshProof!FirstStep, Mesh!Heal, MeshProof!Heal, Mesh!Id, MeshProof!Id,
     Mesh!IdleRun, MeshProof!IdleRun, Mesh!Ids, MeshProof!Ids, Mesh!Init, MeshProof!Init,
     Mesh!Join, MeshProof!Join, Mesh!Leave, MeshProof!Leave, Mesh!LeaveDetaches,
     MeshProof!LeaveDetaches, Mesh!LeaveForgets, MeshProof!LeaveForgets, Mesh!Leaving,
     MeshProof!Leaving, Mesh!Link, MeshProof!Link, Mesh!Login, MeshProof!Login,
     Mesh!NewLogin, MeshProof!NewLogin, Mesh!Next, MeshProof!Next, Mesh!NoCleanup,
     MeshProof!NoCleanup, Mesh!NoLink, MeshProof!NoLink, Mesh!NoObject, MeshProof!NoObject,
     Mesh!NothingIsForgotten, MeshProof!NothingIsForgotten, Mesh!Object, MeshProof!Object,
     Mesh!Planned, MeshProof!Planned, Mesh!Reachable, MeshProof!Reachable, Mesh!Rebuild,
     MeshProof!Rebuild, Mesh!Run, MeshProof!Run, Mesh!RunStep, MeshProof!RunStep,
     Mesh!StartDrain, MeshProof!StartDrain, Mesh!StartReplay, MeshProof!StartReplay,
     Mesh!StartSync, MeshProof!StartSync, Mesh!Straying, MeshProof!Straying,
     Mesh!SwitchMode, MeshProof!SwitchMode, Mesh!SyncEnds, MeshProof!SyncEnds, Mesh!TypeOK,
     MeshProof!TypeOK, Mesh!Unlink, MeshProof!Unlink, Mesh!Unlinked, MeshProof!Unlinked,
     Mesh!Unmoved, MeshProof!Unmoved, Mesh!Wanted, MeshProof!Wanted, Mesh!Wired,
     MeshProof!Wired, Mesh!vars, MeshProof!vars, Mesh!Taken, MeshProof!Taken, Mesh!Recorded,
     MeshProof!Recorded, Mesh!Reuse, MeshProof!Reuse, Mesh!DrainBarred, MeshProof!DrainBarred,
     Mesh!ApplyBarred, MeshProof!ApplyBarred

\* What the constants of the components have to be.
Sorts == MeshProof!Sorts /\ RobotSorts /\ OwnSorts(Secure) /\ OwnSorts(Rush)

\* The component a behaviour follows stays the same, and moves as it does on its own.
LEMMA Follows ==
  ASSUME [Next]_vars
  PROVE  /\ part' = part
         /\ part = "mesh" => [MeshProof!Next]_(MeshProof!vars)
         /\ part = "robot" => [Robot!Next]_(Robot!vars)
         /\ part = "login" => [Own(Secure)!Next]_(Own(Secure)!vars)
         /\ part = "rush" => [Own(Rush)!Next]_(Own(Rush)!vars)
<1>1. CASE UNCHANGED vars
  BY <1>1 DEF vars, meshVars, meshOnly, robotVars, robotOnly, MeshProof!vars, Robot!vars, Own!vars
<1>2. CASE Next
  <2>1. CASE MeshStep(Mesh!Next)
    BY <2>1, SameMesh DEF MeshStep
  <2>2. CASE RobotStep(Robot!Next)
    BY <2>2 DEF RobotStep
  <2>3. CASE LoginStep(Own(Secure)!Next, Own(Rush)!Next)
    BY <2>3 DEF LoginStep
  <2> QED
    BY <1>2, <2>1, <2>2, <2>3 DEF Next
<1> QED
  BY <1>1, <1>2

\* A behaviour begins as that of one component.
LEMMA Begins ==
  ASSUME Init
  PROVE  /\ part \in {"mesh", "robot", "login", "rush"}
         /\ part = "mesh" => MeshProof!Init
         /\ part = "robot" => Robot!Init
         /\ part = "login" => Own(Secure)!Init
         /\ part = "rush" => Own(Rush)!Init
  BY SameMesh DEF Init

\* An active link that a sync will leave alone is wired: for any registries and edges, and
\* any number of moves, logins, rebuilt Harbors and runs that die.
THEOREM ActiveIsWiredHolds == ASSUME Sorts PROVE FairSpec => []ActiveIsWired
<1>1. Init /\ part = "mesh" => MeshProof!Init
  BY Begins
<1>2. [Next]_vars /\ part = "mesh" => (part = "mesh")' /\ [MeshProof!Next]_(MeshProof!vars)
  BY Follows
<1>3. [Next]_vars /\ ~(part = "mesh") => ~(part = "mesh")'
  BY Follows
<1>4. MeshProof!Spec => []MeshProof!ActiveIsWired
  BY MeshProof!WiredHolds DEF Sorts
<1>5. MeshProof!ActiveIsWired \/ ~(part = "mesh") => ActiveIsWired
  BY SameMesh DEF ActiveIsWired
<1> QED
  BY <1>1, <1>2, <1>3, <1>4, <1>5, PTL DEF FairSpec, MeshProof!Spec

\* An object of the mesh is known to a link or a cleanup row, or its creation was never heard of.
THEOREM NothingIsForgottenHolds == ASSUME Sorts PROVE FairSpec => []NothingIsForgotten
<1>1. Init /\ part = "mesh" => MeshProof!Init
  BY Begins
<1>2. [Next]_vars /\ part = "mesh" => (part = "mesh")' /\ [MeshProof!Next]_(MeshProof!vars)
  BY Follows
<1>3. [Next]_vars /\ ~(part = "mesh") => ~(part = "mesh")'
  BY Follows
<1>4. MeshProof!Spec => []MeshProof!NothingIsForgotten
  BY MeshProof!NothingForgottenHolds DEF Sorts
<1>5. MeshProof!NothingIsForgotten \/ ~(part = "mesh") => NothingIsForgotten
  BY SameMesh DEF NothingIsForgotten
<1> QED
  BY <1>1, <1>2, <1>3, <1>4, <1>5, PTL DEF FairSpec, MeshProof!Spec

\* No cleanup takes away the objects of a live link.
THEOREM CleanupSparesLinksHolds == ASSUME Sorts PROVE FairSpec => []CleanupSparesLinks
<1>1. Init /\ part = "mesh" => MeshProof!Init
  BY Begins
<1>2. [Next]_vars /\ part = "mesh" => (part = "mesh")' /\ [MeshProof!Next]_(MeshProof!vars)
  BY Follows
<1>3. [Next]_vars /\ ~(part = "mesh") => ~(part = "mesh")'
  BY Follows
<1>4. MeshProof!Spec => []MeshProof!CleanupSparesLinks
  BY MeshProof!SparesHolds DEF Sorts
<1>5. MeshProof!CleanupSparesLinks \/ ~(part = "mesh") => CleanupSparesLinks
  BY SameMesh DEF CleanupSparesLinks
<1> QED
  BY <1>1, <1>2, <1>3, <1>4, <1>5, PTL DEF FairSpec, MeshProof!Spec

\* What is stored for the Gateway's own robot, with the types, in both of its instances: in one
\* handlers are kept apart, in the other no call fails.
LEMMA OwnHolds ==
  ASSUME Sorts
  PROVE  /\ Own(Secure)!Init => OwnInv(Secure)
         /\ OwnInv(Secure) /\ [Own(Secure)!Next]_(Own(Secure)!vars) => OwnInv(Secure)'
         /\ OwnInv(Secure) => Own(Secure)!StoredOpens /\ Own(Secure)!TypeOK
         /\ Own(Rush)!Init => OwnInv(Rush)
         /\ OwnInv(Rush) /\ [Own(Rush)!Next]_(Own(Rush)!vars) => OwnInv(Rush)'
         /\ OwnInv(Rush) => Own(Rush)!StoredOpens /\ Own(Rush)!TypeOK
<1>1. OwnSorts(Secure) /\ Secure.apart /\ OwnSorts(Rush) /\ ~Rush.faults
  BY DEF Sorts, Secure, Rush
<1>2. /\ OwnInv(Secure) => Own(Secure)!TypeOK
      /\ OwnInv(Rush) => Own(Rush)!TypeOK
  BY <1>1 DEF OwnInv, OwnTyped
<1> QED
  BY <1>1, <1>2, OwnInvInit, OwnInvStep, StoredShown

\* The secret kept for a Harbor of a project's robot opens it, or the Harbor is owed it, and the
\* flag is true, once neither a handler nor a pass is under way; and the secret stored for the
\* Gateway's own robot opens it once nobody provisions it.  For any number of Harbors, of
\* requests, of handlers and, where handlers are kept apart, of deaths of those that provision.
THEOREM SecretWorksHolds == ASSUME Sorts PROVE FairSpec => []SecretWorks
<1> DEFINE Opens == Robot!SecretWorks /\ Robot!FlagIsTrue
<1>1. /\ Init /\ part = "robot" => Robot!Init
      /\ Init /\ part = "login" => Own(Secure)!Init
      /\ Init /\ part = "rush" => Own(Rush)!Init
  BY Begins
<1>2. [Next]_vars /\ part = "robot" => (part = "robot")' /\ [Robot!Next]_(Robot!vars)
  BY Follows
<1>3. [Next]_vars /\ part = "login" => (part = "login")' /\ [Own(Secure)!Next]_(Own(Secure)!vars)
  BY Follows
<1>4. [Next]_vars /\ part = "rush" => (part = "rush")' /\ [Own(Rush)!Next]_(Own(Rush)!vars)
  BY Follows
<1>5. /\ [Next]_vars /\ ~(part = "robot") => ~(part = "robot")'
      /\ [Next]_vars /\ ~(part = "login") => ~(part = "login")'
      /\ [Next]_vars /\ ~(part = "rush") => ~(part = "rush")'
  BY Follows
<1>6. /\ Robot!Init => RobotInv
      /\ RobotInv /\ [Robot!Next]_(Robot!vars) => RobotInv'
      /\ RobotInv => Opens
  <2>1. RobotSorts
    BY DEF Sorts
  <2> QED
    BY <2>1, RobotInvInit, RobotInvNext, RobotInvPromises
<1>7. /\ Own(Secure)!Init => OwnInv(Secure)
      /\ OwnInv(Secure) /\ [Own(Secure)!Next]_(Own(Secure)!vars) => OwnInv(Secure)'
      /\ OwnInv(Secure) => Own(Secure)!StoredOpens
  BY OwnHolds
<1>8. /\ Own(Rush)!Init => OwnInv(Rush)
      /\ OwnInv(Rush) /\ [Own(Rush)!Next]_(Own(Rush)!vars) => OwnInv(Rush)'
      /\ OwnInv(Rush) => Own(Rush)!StoredOpens
  BY OwnHolds
<1>9. /\ Opens \/ ~(part = "robot")
      /\ Own(Secure)!StoredOpens \/ ~(part = "login")
      /\ Own(Rush)!StoredOpens \/ ~(part = "rush")
      => SecretWorks
  BY DEF SecretWorks
<1> QED
  BY <1>1, <1>2, <1>3, <1>4, <1>5, <1>6, <1>7, <1>8, <1>9, PTL DEF FairSpec

\* What a Harbor still holds of a robot that is revoked is owed its deletion, or has a secret
\* that nobody was given: for any number of Harbors and of requests.
THEOREM RevokedOpensNothingHolds == ASSUME Sorts PROVE FairSpec => []RevokedOpensNothing
<1>1. Init /\ part = "robot" => Robot!Init
  BY Begins
<1>2. [Next]_vars /\ part = "robot" => (part = "robot")' /\ [Robot!Next]_(Robot!vars)
  BY Follows
<1>3. [Next]_vars /\ ~(part = "robot") => ~(part = "robot")'
  BY Follows
<1>4. Robot!Spec => []Robot!RevokedOpensNothing
  BY RevokedHolds DEF Sorts
<1>5. Robot!RevokedOpensNothing \/ ~(part = "robot") => RevokedOpensNothing
  BY DEF RevokedOpensNothing
<1> QED
  BY <1>1, <1>2, <1>3, <1>4, <1>5, PTL DEF FairSpec, Robot!Spec

\* Every variable keeps its type, whichever component a behaviour follows.
THEOREM TypesHold == ASSUME Sorts PROVE FairSpec => []TypeOK
<1> DEFINE Followed == part \in {"mesh", "robot", "login", "rush"}
<1>1. /\ Init => Followed
      /\ Init /\ part = "mesh" => MeshProof!Init
      /\ Init /\ part = "robot" => Robot!Init
      /\ Init /\ part = "login" => Own(Secure)!Init
      /\ Init /\ part = "rush" => Own(Rush)!Init
  BY Begins
<1>2. [Next]_vars /\ part = "mesh" => (part = "mesh")' /\ [MeshProof!Next]_(MeshProof!vars)
  BY Follows
<1>3. [Next]_vars /\ part = "robot" => (part = "robot")' /\ [Robot!Next]_(Robot!vars)
  BY Follows
<1>4. [Next]_vars /\ part = "login" => (part = "login")' /\ [Own(Secure)!Next]_(Own(Secure)!vars)
  BY Follows
<1>5. [Next]_vars /\ part = "rush" => (part = "rush")' /\ [Own(Rush)!Next]_(Own(Rush)!vars)
  BY Follows
<1>6. /\ [Next]_vars /\ ~(part = "mesh") => ~(part = "mesh")'
      /\ [Next]_vars /\ ~(part = "robot") => ~(part = "robot")'
      /\ [Next]_vars /\ ~(part = "login") => ~(part = "login")'
      /\ [Next]_vars /\ ~(part = "rush") => ~(part = "rush")'
      /\ [Next]_vars /\ Followed => Followed'
  BY Follows
<1>7. MeshProof!Spec => []MeshProof!TypeOK
  BY MeshProof!TypeCorrect DEF Sorts
<1>8. Robot!Spec => []Robot!TypeOK
  BY RobotTypes DEF Sorts
<1>9. /\ Own(Secure)!Init => OwnInv(Secure)
      /\ OwnInv(Secure) /\ [Own(Secure)!Next]_(Own(Secure)!vars) => OwnInv(Secure)'
      /\ OwnInv(Secure) => Own(Secure)!TypeOK
  BY OwnHolds
<1>10. /\ Own(Rush)!Init => OwnInv(Rush)
       /\ OwnInv(Rush) /\ [Own(Rush)!Next]_(Own(Rush)!vars) => OwnInv(Rush)'
       /\ OwnInv(Rush) => Own(Rush)!TypeOK
  BY OwnHolds
<1>11. /\ Followed
       /\ MeshProof!TypeOK \/ ~(part = "mesh")
       /\ Robot!TypeOK \/ ~(part = "robot")
       /\ Own(Secure)!TypeOK \/ ~(part = "login")
       /\ Own(Rush)!TypeOK \/ ~(part = "rush")
       => TypeOK
  BY SameMesh DEF TypeOK
<1> HIDE DEF Followed
<1> QED
  BY <1>1, <1>2, <1>3, <1>4, <1>5, <1>6, <1>7, <1>8, <1>9, <1>10, <1>11, PTL
     DEF FairSpec, MeshProof!Spec, Robot!Spec

=============================================================================
