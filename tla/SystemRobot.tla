----------------------------- MODULE SystemRobot -----------------------------
(***************************************************************************)
(* The Gateway's own robot on a Harbor (lib/clusters/system-robot.ts): the *)
(* login transfers push with, and the one the peers of the cluster are     *)
(* given to replicate into that Harbor (peerCredentials in replication.ts).*)
(* It is provisioned on first use, adopted if the Harbor has it already,   *)
(* and rotated by an operator, who has it forgotten first.  A sync of the  *)
(* mesh deposits it on the peer; ReplicationMesh has the rest of a sync.   *)
(*                                                                         *)
(* Provisioning holds the replication lock.  That callers of one process   *)
(* share the provision under way (inFlight) is left out: the lock refuses  *)
(* the second as it does one of another process.                           *)
(***************************************************************************)
EXTENDS Naturals

CONSTANTS
  Caller,        \* concurrent handlers: transfers and operators
  Worker,        \* the worker's syncs of the mesh
  None,
  AdminLogin,    \* the administrator's login, which the mesh falls back to
  Faults,        \* calls fail, or are answered to nobody, and handlers die
  Apart,         \* a handler or a sync starts when none is under way
  MaxSecrets,    \* secrets told apart at a time
  MaxRequests,   \* bound: requests served
  MaxCrashes     \* bound: handlers and syncs that die

VARIABLES
  robot,     \* the secret that opens the robot on the Harbor, if it has one
  row,       \* Registry.systemRobotSecret
  link,      \* the peer's: its endpoint's login, and the fingerprint of the row
  queued,    \* whether a REPLICATION_SYNC row is queued
  lock,      \* who holds the replication lock
  hand, healthy, requests, crashes

vars == <<robot, row, link, queued, lock, hand, healthy, requests, crashes>>

Secret == 1..MaxSecrets
Login == Secret \union {AdminLogin, None}
Actor == Caller \union {Worker}

\* secret: the one to store, or to deposit; issued: what the Harbor minted;
\* stale: a secret was stored before; force: a sync that skips nothing.
Hand == [pc : {"idle", "lock", "again", "find", "create", "patch", "before", "write", "owe",
               "endpoint", "ping"},
         kind : {"ensure", "rotate"}, force : BOOLEAN,
         secret : Login, issued : Secret \union {None}, stale : BOOLEAN]

TypeOK ==
  /\ robot \in Secret \union {None} /\ row \in Secret \union {None}
  /\ link \in [login : Login, fp : Login]
  /\ queued \in BOOLEAN /\ lock \in Actor \union {None}
  /\ hand \in [Actor -> Hand]
  /\ healthy \in BOOLEAN /\ requests \in 0..MaxRequests /\ crashes \in 0..MaxCrashes

IdleHand == [pc |-> "idle", kind |-> "ensure", force |-> FALSE,
             secret |-> None, issued |-> None, stale |-> FALSE]

\* The Harbor may have a robot of a Gateway installed before.
Init ==
  /\ robot \in {None, 1} /\ row = None
  /\ link = [login |-> None, fp |-> None]
  /\ queued = FALSE /\ lock = None
  /\ hand = [c \in Actor |-> IdleHand]
  /\ healthy = ~Faults /\ requests = 0 /\ crashes = 0

\* generateRobotSecret, or what the Harbor mints: one in use nowhere.
Fresh ==
  CHOOSE s \in Secret :
    s \notin {robot, row, link.login, link.fp}
             \union {hand[c].secret : c \in Actor} \union {hand[c].issued : c \in Actor}

-----------------------------------------------------------------------------
(* Requests, and the worker.                                               *)

Quiet == \A c \in Actor : hand[c].pc = "idle"

Start(c, new) ==
  /\ hand[c].pc = "idle" /\ (Apart => Quiet) /\ requests < MaxRequests
  /\ requests' = requests + 1
  /\ hand' = [hand EXCEPT ![c] = new]
  /\ UNCHANGED <<robot, link, queued, lock, healthy, crashes>>

\* ensureSystemRobot finds nothing stored.
Ensure(c) ==
  /\ row = None /\ UNCHANGED row
  /\ Start(c, [IdleHand EXCEPT !.pc = "lock"])

\* POST system-robot forgets before it takes the lock, DELETE only forgets.
Rotate(c) ==
  /\ row' = None
  /\ Start(c, [IdleHand EXCEPT !.pc = "lock", !.kind = "rotate"])

Forget(c) == row' = None /\ Start(c, IdleHand)

\* Held by another, the lock is refused and the handler fails.
TryLock(c) ==
  /\ hand[c].pc = "lock"
  /\ IF lock # None
     THEN hand' = [hand EXCEPT ![c] = IdleHand] /\ UNCHANGED lock
     ELSE /\ hand' = [hand EXCEPT ![c].pc = IF hand[c].kind = "ensure" THEN "again" ELSE "find"]
          /\ lock' = c
  /\ UNCHANGED <<robot, row, link, queued, healthy, requests, crashes>>

\* The worker's sync, or the replay of a queued one.
StartSync(force) ==
  /\ hand[Worker].pc = "idle" /\ lock = None /\ (Apart => Quiet) /\ (force => queued)
  /\ hand' = [hand EXCEPT ![Worker] = [IdleHand EXCEPT !.pc = "again", !.force = force]]
  /\ lock' = Worker
  /\ UNCHANGED <<robot, row, link, queued, healthy, requests, crashes>>

-----------------------------------------------------------------------------
(* provision.                                                              *)

\* A handler is done; a sync goes on with the login it was given.
Given(c, secret) ==
  /\ hand' = [hand EXCEPT ![c] = IF c = Worker
       THEN [IdleHand EXCEPT !.pc = "endpoint", !.force = hand[c].force, !.secret = secret]
       ELSE IdleHand]
  /\ lock' = IF c = Worker THEN lock ELSE None

Again(c) ==
  /\ hand[c].pc = "again"
  /\ IF row = None
     THEN hand' = [hand EXCEPT ![c].pc = "find"] /\ UNCHANGED lock
     ELSE Given(c, row)
  /\ UNCHANGED <<robot, row, link, queued, healthy, requests, crashes>>

Find(c) ==
  /\ hand[c].pc = "find"
  /\ hand' = [hand EXCEPT ![c].pc = IF robot = None THEN "create" ELSE "patch"]
  /\ UNCHANGED <<robot, row, link, queued, lock, healthy, requests, crashes>>

Create(c) ==
  /\ hand[c].pc = "create"
  /\ robot' = Fresh
  /\ hand' = [hand EXCEPT ![c].pc = "patch", ![c].issued = Fresh]
  /\ UNCHANGED <<row, link, queued, lock, healthy, requests, crashes>>

\* The secret is set to one the Gateway chose...
Patch(c) ==
  /\ hand[c].pc = "patch"
  /\ robot' = Fresh
  /\ hand' = [hand EXCEPT ![c].pc = "before", ![c].secret = Fresh]
  /\ UNCHANGED <<row, link, queued, lock, healthy, requests, crashes>>

\* ...or the Harbor refuses, and what it issued serves.
PatchRefused(c) ==
  /\ ~healthy /\ hand[c].pc = "patch" /\ hand[c].issued # None
  /\ hand' = [hand EXCEPT ![c].pc = "before", ![c].secret = hand[c].issued]
  /\ UNCHANGED <<robot, row, link, queued, lock, healthy, requests, crashes>>

\* Whether anybody may hold a stale copy is read before the write.
Before(c) ==
  /\ hand[c].pc = "before"
  /\ hand' = [hand EXCEPT ![c].pc = "write", ![c].stale = (row # None)]
  /\ UNCHANGED <<robot, row, link, queued, lock, healthy, requests, crashes>>

Write(c) ==
  /\ hand[c].pc = "write"
  /\ row' = hand[c].secret
  /\ IF hand[c].stale
     THEN hand' = [hand EXCEPT ![c].pc = "owe"] /\ UNCHANGED lock
     ELSE Given(c, hand[c].secret)
  /\ UNCHANGED <<robot, link, queued, healthy, requests, crashes>>

Owe(c) ==
  /\ hand[c].pc = "owe"
  /\ queued' = TRUE
  /\ Given(c, hand[c].secret)
  /\ UNCHANGED <<robot, row, link, healthy, requests, crashes>>

\* A call fails, has its effect and is not heard of, or an adopted robot refuses its
\* secret.  A sync falls back to the administrator's login.
ProvisionFails(c) ==
  /\ ~healthy /\ hand[c].pc \in {"find", "create", "patch", "before", "write", "owe"}
  /\ robot' \in {robot} \union (IF hand[c].pc \in {"create", "patch"} THEN {Fresh} ELSE {})
  /\ Given(c, AdminLogin)
  /\ UNCHANGED <<row, link, queued, healthy, requests, crashes>>

-----------------------------------------------------------------------------
(* The rest of a sync: applyReplicationLink.                               *)

SyncEnds == hand' = [hand EXCEPT ![Worker] = IdleHand] /\ lock' = None

\* The fingerprint covers the login.
SyncSkips ==
  /\ hand[Worker].pc = "endpoint" /\ ~hand[Worker].force /\ link.fp = hand[Worker].secret
  /\ SyncEnds
  /\ UNCHANGED <<robot, row, link, queued, healthy, requests, crashes>>

\* The endpoint is written, also when the last verification is long ago.
SyncDeposits ==
  /\ hand[Worker].pc = "endpoint"
  /\ link' = [login |-> hand[Worker].secret, fp |-> None]
  /\ hand' = [hand EXCEPT ![Worker].pc = "ping"]
  /\ UNCHANGED <<robot, row, queued, lock, healthy, requests, crashes>>

Opens(login) == login = AdminLogin \/ (login # None /\ login = robot)

\* The peer reaches the Harbor with what it was given.
SyncWorks ==
  /\ hand[Worker].pc = "ping" /\ Opens(link.login)
  /\ link' = [link EXCEPT !.fp = hand[Worker].secret]
  /\ queued' = (queued /\ ~hand[Worker].force)
  /\ SyncEnds
  /\ UNCHANGED <<robot, row, healthy, requests, crashes>>

SyncFails ==
  /\ hand[Worker].pc \in {"endpoint", "ping"}
  /\ healthy => hand[Worker].pc = "ping" /\ ~Opens(link.login)
  /\ link' = [link EXCEPT !.fp = None]
  /\ queued' = TRUE
  /\ SyncEnds
  /\ UNCHANGED <<robot, row, healthy, requests, crashes>>

-----------------------------------------------------------------------------
\* The process dies; PostgreSQL drops its lock.
Crash(c) ==
  /\ ~healthy /\ hand[c].pc # "idle" /\ crashes < MaxCrashes
  /\ crashes' = crashes + 1
  /\ hand' = [hand EXCEPT ![c] = IdleHand]
  /\ lock' = IF lock = c THEN None ELSE lock
  /\ UNCHANGED <<robot, row, link, queued, healthy, requests>>

Heal ==
  /\ ~healthy /\ healthy' = TRUE
  /\ UNCHANGED <<robot, row, link, queued, lock, hand, requests, crashes>>

HandStep(c) ==
  \/ TryLock(c) \/ Again(c) \/ Find(c) \/ Create(c) \/ Patch(c) \/ PatchRefused(c)
  \/ Before(c) \/ Write(c) \/ Owe(c) \/ ProvisionFails(c)

SyncStep == HandStep(Worker) \/ SyncSkips \/ SyncDeposits \/ SyncWorks \/ SyncFails

Next ==
  \/ \E c \in Caller : Ensure(c) \/ Rotate(c) \/ Forget(c) \/ HandStep(c)
  \/ \E force \in BOOLEAN : StartSync(force)
  \/ SyncStep
  \/ \E c \in Actor : Crash(c)
  \/ Heal

Spec == Init /\ [][Next]_vars

\* The faults come to an end, what has started goes on, and the worker comes round.
FairSpec ==
  /\ Spec /\ WF_vars(Heal)
  /\ \A c \in Caller : WF_vars(HandStep(c))
  /\ WF_vars(SyncStep)
  /\ WF_vars(StartSync(FALSE)) /\ SF_vars(StartSync(TRUE))

-----------------------------------------------------------------------------
(* Properties.                                                             *)

\* The secret that is stored opens the robot whenever nobody provisions it: nothing
\* looks again at one that is stored (system-robot/route.ts: "a provision that fails
\* halfway must not leave credentials that no longer authenticate presented as
\* current").
StoredOpens == lock = None /\ row # None => row = robot

\* A peer that was given a robot's secret which no longer opens it is owed a sync
\* (system-robot.ts: "Replacing a secret therefore invalidates an endpoint on each of
\* them, and none of them has any way to notice").  The code does not guarantee it: a
\* rotation forgets the secret first, after which none counts as replaced, and the peer
\* waits for the worker's next sync.
PeerIsOwed == Quiet /\ link.login # None => Opens(link.login) \/ queued

\* The peer has the secret that is stored, which opens the robot, and no sync is owed.
Settled == lock = None => ~queued /\ link.login = row /\ link.fp = row /\ row = robot
LoginSettles == <>[]Settled

=============================================================================
