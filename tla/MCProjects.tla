------------------------------ MODULE MCProjects ------------------------------
(***************************************************************************)
(* Small instances of what happens to a project: the first state says which*)
(* one a behaviour follows.                                                *)
(*   life: a project requested, approved and deleted, and a crash;         *)
(*   name: two projects that take the same name one after the other;       *)
(*   meet: Harbors and projects that change clusters, one change at a time;*)
(*   rush: the same with every step of every handler and of the pass       *)
(*         interleaved;                                                    *)
(*   wipe: images removed from an active project;                          *)
(*   names: two people of one project, and the accounts they go by;        *)
(*   moves: a person of two projects, who changes accounts.                *)
(***************************************************************************)
EXTENDS TLC

CONSTANTS Harbor, Admin, Cluster, Home, Image, Whole, None, h1, h2, a1, a2, c1, c2, i1, i2

VARIABLES part, project, placement, harbor, queue, nextId, hand, pass, torn, served, crashes,
          member, claimed,
          mode, holds, flight, live, removals, pushes,
          mapping, row, withdrawn, grant, requests

lifeVars == <<project, placement, harbor, torn, served, crashes>>
clusterVars == <<member, claimed>>
imageVars == <<holds, flight, live, removals, pushes>>
nameVars == <<mapping, row, withdrawn, grant, requests>>
vars == <<part, queue, nextId, hand, pass, mode, lifeVars, clusterVars, imageVars, nameVars>>

Life == INSTANCE ProjectLifecycle WITH
  Apart <- TRUE, Patient <- TRUE, AnswersLost <- FALSE,
  MaxProjects <- 1, MaxRequests <- 3, MaxCrashes <- 1

Name == INSTANCE ProjectLifecycle WITH
  Admin <- {a1},
  Apart <- TRUE, Patient <- TRUE, AnswersLost <- FALSE,
  MaxProjects <- 2, MaxRequests <- 3, MaxCrashes <- 0

Gather(how) == INSTANCE ClusterComposition WITH
  Apart <- how.apart, Patient <- how.patient, AnswersLost <- FALSE,
  MaxProjects <- how.projects, MaxRequests <- how.requests, MaxCrashes <- how.crashes

Meet == [apart |-> TRUE, patient |-> TRUE, projects |-> 2, requests |-> 3, crashes |-> 1]

Rush == [apart |-> FALSE, patient |-> FALSE, projects |-> 2, requests |-> 2, crashes |-> 0]

Removal(how) == INSTANCE ArtifactRemoval WITH
  Person <- how.people, Modes <- how.modes, Patient <- TRUE, Apart <- TRUE,
  MaxRemovals <- how.removals, MaxPushes <- how.pushes

Wipe == [people |-> {"caller"}, modes |-> {"none", "event_based", "scheduled"},
         removals |-> 2, pushes |-> 1]

Naming(how) == INSTANCE Identities WITH
  Harbor <- how.harbors, Project <- how.projects, User <- how.users, Admin <- how.admins,
  Mappable <- how.mappable, Username <- how.usernames, Fold <- how.fold,
  Remaps <- FALSE, Apart <- TRUE, Patient <- TRUE, MaxRequests <- how.requests

Names == [harbors |-> {"harbor"}, projects |-> {"p"}, users |-> {"u", "v"}, admins |-> {"admin"},
          mappable |-> {"a", "b"}, usernames |-> [u |-> "u", v |-> "v"],
          fold |-> [u |-> "u", v |-> "v", a |-> "a", b |-> "b"], requests |-> 3]

Moves == [harbors |-> {"harbor"}, projects |-> {"p", "q"}, users |-> {"u"}, admins |-> {"admin"},
          mappable |-> {"a", "b"}, usernames |-> [u |-> "u"],
          fold |-> [u |-> "u", a |-> "a", b |-> "b"], requests |-> 2]

LifeOff ==
  /\ project = None /\ placement = None /\ harbor = None
  /\ torn = None /\ served = None /\ crashes = None
ClustersOff == member = None /\ claimed = None
ImagesOff ==
  /\ holds = None /\ flight = None /\ live = None
  /\ removals = None /\ pushes = None
NamesOff ==
  /\ mapping = None /\ row = None /\ withdrawn = None /\ grant = None /\ requests = None

Init ==
  \/ /\ \/ part = "life" /\ Life!Init
        \/ part = "name" /\ Name!Init
     /\ ClustersOff /\ mode = None /\ ImagesOff /\ NamesOff
  \/ /\ \/ part = "meet" /\ Gather(Meet)!Init
        \/ part = "rush" /\ Gather(Rush)!Init
     /\ mode = None /\ ImagesOff /\ NamesOff
  \/ part = "wipe" /\ Removal(Wipe)!Init /\ LifeOff /\ ClustersOff /\ NamesOff
  \/ /\ \/ part = "names" /\ Naming(Names)!Init
        \/ part = "moves" /\ Naming(Moves)!Init
     /\ LifeOff /\ ClustersOff /\ ImagesOff

Next ==
  /\ UNCHANGED part
  /\ \/ part = "life" /\ Life!Next /\ UNCHANGED <<clusterVars, mode, imageVars, nameVars>>
     \/ part = "name" /\ Name!Next /\ UNCHANGED <<clusterVars, mode, imageVars, nameVars>>
     \/ part = "meet" /\ Gather(Meet)!Next /\ UNCHANGED <<mode, imageVars, nameVars>>
     \/ part = "rush" /\ Gather(Rush)!Next /\ UNCHANGED <<mode, imageVars, nameVars>>
     \/ part = "wipe" /\ Removal(Wipe)!Next /\ UNCHANGED <<lifeVars, clusterVars, nameVars>>
     \/ part = "names" /\ Naming(Names)!Next /\ UNCHANGED <<lifeVars, clusterVars, imageVars>>
     \/ part = "moves" /\ Naming(Moves)!Next /\ UNCHANGED <<lifeVars, clusterVars, imageVars>>

Spec == Init /\ [][Next]_vars

Symmetry == Permutations(Harbor) \union Permutations(Admin) \union Permutations(Image)

-----------------------------------------------------------------------------
TypeOK ==
  CASE part = "life" -> Life!TypeOK
    [] part = "name" -> Name!TypeOK
    [] part = "meet" -> Gather(Meet)!TypeOK
    [] part = "rush" -> Gather(Rush)!TypeOK
    [] part = "wipe" -> Removal(Wipe)!TypeOK
    [] part = "names" -> Naming(Names)!TypeOK
    [] part = "moves" -> Naming(Moves)!TypeOK

\* An active project is on every Harbor of its cluster, or owed to it, and a placement
\* shown as failed is owed its replay.
ActiveIsHeld ==
  /\ part = "life" => Life!ActiveIsHeld /\ Life!FailedIsOwed
  /\ part = "name" => Name!ActiveIsHeld /\ Name!FailedIsOwed

\* A deleted project is nowhere, or its deletion is owed, or was refused.
DeletedIsOwed ==
  /\ part = "life" => Life!DeletedIsOwed
  /\ part = "name" => Name!DeletedIsOwed

\* Every member of a project's cluster holds the project or is owed it, whatever
\* joins, leaves, moves and replays do to each other.
MemberHolds ==
  /\ part = "meet" => Gather(Meet)!MemberHolds
  /\ part = "rush" => Gather(Rush)!MemberHolds

\* A placement is of a member of the project's cluster, which holds the project.
PlacementIsTrue == part = "meet" => Gather(Meet)!PlacementIsTrue

\* What the Gateway put on a member is known, or its deletion is owed or was refused.
NothingStray == part = "meet" => Gather(Meet)!NothingStray

\* Once all that was queued has been replayed, an image that was removed is nowhere,
\* unless the mesh copies at times: what a Harbor copies before its own removal is
\* replayed is back on the others, which are owed nothing.
StaysRemoved == part = "wipe" /\ mode # "scheduled" => Removal(Wipe)!StaysRemoved

\* An image that was not removed is somewhere.
KeptIsServed == part = "wipe" => Removal(Wipe)!KeptIsServed

\* Whoever a Harbor lets in is what some member goes by, or is owed the removal, and
\* every member is let in or owed the grant, whatever changes of account there were.
AccountsAreTrue ==
  /\ part = "names" => Naming(Names)!GrantIsSomebodys /\ Naming(Names)!MemberIsLetIn
  /\ part = "moves" => Naming(Moves)!GrantIsSomebodys /\ Naming(Moves)!MemberIsLetIn

=============================================================================
