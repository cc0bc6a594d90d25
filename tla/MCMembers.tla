------------------------------ MODULE MCMembers ------------------------------
(***************************************************************************)
(* Small instances of what every member of a cluster is given, and the     *)
(* worker repairs: the first state says which one a behaviour follows, and *)
(* the variables of the others stay None.                                  *)
(*   mesh:  two Harbors and the link of the first to the second;           *)
(*   robot: one robot account on two Harbors;                              *)
(*   login: the Gateway's own robot on a Harbor, and the peer that pushes  *)
(*          with it, when calls fail and handlers die;                     *)
(*   rush:  the same in every interleaving of handlers and syncs.          *)
(***************************************************************************)
EXTENDS Naturals

CONSTANTS
  Harbor, Source, Target,             \* the links followed are of a Source to a Target
  MaxMoves, MaxLogins, MaxRebuilds,
  Caller, Lone, worker, admin,        \* Lone is the caller of login, and one of rush
  MaxSecrets, MaxRequests, MaxCrashes,
  None

VARIABLES
  part, healthy, crashes,
  members, on, login, link, cleanup, object, epoch, foreign, queued, run, strays, moves,
  row, place, robot, queue, nextId, hand, pass, shown, requests,
  lock

meshOnly == <<members, on, login, cleanup, object, epoch, foreign, run, strays, moves>>
robotOnly == <<place, queue, nextId, pass, shown>>
meshVars == <<meshOnly, link, queued>>
robotVars == <<robotOnly, row, robot, hand, requests>>
vars == <<part, healthy, crashes, meshVars, robotVars, lock>>

Edge == {e \in Source \X Target : e[1] # e[2]}

Mesh == INSTANCE ReplicationMesh WITH Founders <- Harbor

Robot == INSTANCE Robots WITH
  Apart <- TRUE, Patient <- TRUE, AnswersLost <- FALSE, MaxCrashes <- 0

Own(how) == INSTANCE SystemRobot WITH
  Caller <- how.callers, Worker <- worker, AdminLogin <- admin,
  Faults <- how.faults, Apart <- how.apart, MaxCrashes <- how.crashes
Secure == [callers |-> {Lone}, faults |-> TRUE, apart |-> TRUE, crashes |-> MaxCrashes]
Rush == [callers |-> Caller, faults |-> FALSE, apart |-> FALSE, crashes |-> 0]

Init ==
  \/ /\ part = "mesh" /\ Mesh!Init
     /\ row = None /\ robot = None /\ hand = None /\ requests = None
     /\ place = None /\ queue = None /\ nextId = None /\ pass = None /\ shown = None
     /\ lock = None
  \/ /\ \/ part = "robot" /\ Robot!Init /\ lock = None /\ link = None /\ queued = None
        \/ /\ \/ part = "login" /\ Own(Secure)!Init
              \/ part = "rush" /\ Own(Rush)!Init
           /\ place = None /\ queue = None /\ nextId = None /\ pass = None /\ shown = None
     /\ members = None /\ on = None /\ login = None /\ cleanup = None /\ object = None
     /\ epoch = None /\ foreign = None /\ run = None /\ strays = None /\ moves = None

MeshStep(step) == part = "mesh" /\ step /\ UNCHANGED <<part, robotVars, lock>>
RobotStep(step) == part = "robot" /\ step /\ UNCHANGED <<part, meshVars, lock>>
LoginStep(secure, rush) ==
  /\ \/ part = "login" /\ secure
     \/ part = "rush" /\ rush
  /\ UNCHANGED <<part, meshOnly, robotOnly>>

Next == MeshStep(Mesh!Next) \/ RobotStep(Robot!Next) \/ LoginStep(Own(Secure)!Next, Own(Rush)!Next)

\* As in ReplicationMesh, Robots and SystemRobot.
FairSpec ==
  /\ Init /\ [][Next]_vars
  /\ WF_vars(MeshStep(Mesh!Heal) \/ RobotStep(Robot!Heal)
             \/ LoginStep(Own(Secure)!Heal, Own(Rush)!Heal))
  /\ \A c \in Caller :
       WF_vars(\/ MeshStep(Mesh!RunStep) \/ RobotStep(Robot!HandStep)
               \/ LoginStep(c = Lone /\ Own(Secure)!HandStep(c), Own(Rush)!HandStep(c)))
  /\ \A e \in Edge :
       WF_vars(\/ MeshStep(Mesh!Elapse(e)) \/ RobotStep(Robot!PassStep)
               \/ LoginStep(Own(Secure)!SyncStep, Own(Rush)!SyncStep))
  /\ WF_vars(\/ RobotStep(\E h \in Harbor : Robot!PassStart(h))
             \/ LoginStep(Own(Secure)!StartSync(FALSE), Own(Rush)!StartSync(FALSE)))
  /\ SF_vars(MeshStep(\E force \in BOOLEAN : Mesh!StartSync(force)))
  /\ SF_vars(\/ MeshStep(\E h \in Harbor : Mesh!StartReplay(h))
             \/ LoginStep(Own(Secure)!StartSync(TRUE), Own(Rush)!StartSync(TRUE)))
  /\ SF_vars(MeshStep(\E c \in cleanup : Mesh!StartDrain(c)))

-----------------------------------------------------------------------------
TypeOK ==
  CASE part = "mesh" -> Mesh!TypeOK
    [] part = "robot" -> Robot!TypeOK
    [] part = "login" -> Own(Secure)!TypeOK
    [] part = "rush" -> Own(Rush)!TypeOK

\* An active link that a sync will leave alone is wired.
ActiveIsWired == part = "mesh" => Mesh!ActiveIsWired

\* An object of the mesh is known, or its creation was never heard of.
NothingIsForgotten == part = "mesh" => Mesh!NothingIsForgotten

\* No cleanup takes the objects of a live link.
CleanupSparesLinks == part = "mesh" => Mesh!CleanupSparesLinks

\* The secret kept for a Harbor opens it, or the Harbor is owed it; the flag says that
\* one secret opens them all only when it does.  The secret stored for the Gateway's
\* own robot opens it.
SecretWorks ==
  /\ part = "robot" => Robot!SecretWorks /\ Robot!FlagIsTrue
  /\ part = "login" => Own(Secure)!StoredOpens
  /\ part = "rush" => Own(Rush)!StoredOpens

\* What a revoked robot still opens is owed its deletion.
RevokedOpensNothing == part = "robot" => Robot!RevokedOpensNothing

\* Once the faults stop, the mesh is what the membership, the mode and the logins
\* call for, but for the links whose recorded ids a rebuilt Harbor gave to other objects,
\* which are shown as failed; the queued work of the robot is done, and one secret opens
\* every Harbor; the peer pushes with the secret that is stored and opens the Gateway's
\* own robot.
MembersSettle ==
  <>[] /\ part = "mesh" => Mesh!Settled
       /\ part = "robot" => Robot!AllSettled
       /\ part = "login" => Own(Secure)!Settled
       /\ part = "rush" => Own(Rush)!Settled

=============================================================================
