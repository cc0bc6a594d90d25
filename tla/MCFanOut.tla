------------------------------ MODULE MCFanOut ------------------------------
(***************************************************************************)
(* The liveness of the fan-out, on three small clusters that have nothing  *)
(* in common but the queue they are written with: the first state says     *)
(* which one a behaviour follows.                                          *)
(*   careful: two Harbors, steps about one person kept apart;              *)
(*   overlap: one Harbor, two handlers and the pass in every interleaving, *)
(*            lost answers, misread lookups and a crash;                   *)
(*   setting: two Harbors that are given one setting; a retention policy   *)
(*            is left out, which a lost answer leaves without an id for good.*)
(***************************************************************************)
EXTENDS Naturals

CONSTANTS h1, h2, u1, r1, m1, m2, v0, v1, None

VARIABLES cluster, queue, nextId, hand, pass,
          row, born, grant, placed, requests, crashes,
          kind, desired, held, project, changes

grants == <<row, born, grant, placed, requests, crashes>>
setting == <<kind, desired, held, project, changes>>
vars == <<cluster, queue, nextId, hand, pass, grants, setting>>

Careful == INSTANCE MembershipSync WITH
  Harbor <- {h1, h2}, User <- {u1}, Role <- {r1}, Manager <- {m1}, Unknown <- {},
  Apart <- TRUE, Patient <- TRUE, Misread <- FALSE, AnswersLost <- FALSE,
  MaxRequests <- 2, MaxCrashes <- 0

Overlap == INSTANCE MembershipSync WITH
  Harbor <- {h1}, User <- {u1}, Role <- {r1}, Manager <- {m1, m2}, Unknown <- {},
  Apart <- FALSE, Patient <- FALSE, Misread <- TRUE, AnswersLost <- TRUE,
  MaxRequests <- 2, MaxCrashes <- 1

One == INSTANCE SettingSync WITH
  Harbor <- {h1, h2}, Value <- {v0, v1}, Initial <- v0, Admin <- {m1}, Refused <- {},
  Apart <- TRUE, AnswersLost <- TRUE, MaxChanges <- 1

Init ==
  \/ /\ \/ cluster = "careful" /\ Careful!Init
        \/ cluster = "overlap" /\ Overlap!Init
     /\ kind = None /\ desired = None /\ held = None /\ project = None /\ changes = None
  \/ /\ cluster = "setting" /\ One!Init /\ kind # "RETENTION_UPSERT"
     /\ row = None /\ born = None /\ grant = None /\ placed = None
     /\ requests = None /\ crashes = None

\* The step of the cluster a behaviour follows.
Step(careful, overlap, one) ==
  /\ UNCHANGED cluster
  /\ \/ cluster = "careful" /\ careful /\ UNCHANGED setting
     \/ cluster = "overlap" /\ overlap /\ UNCHANGED setting
     \/ cluster = "setting" /\ one /\ UNCHANGED grants

Next == Step(Careful!Next, Overlap!Next, One!Next)

\* A handler that does not die answers, and every pass ends.  The worker visits
\* every registry again and again, and a Harbor that keeps being asked answers in
\* the end: each step of a replay happens if it is tried often enough.
FairSpec ==
  /\ Init /\ [][Next]_vars
  /\ WF_vars(Step(Careful!Handler(m1), Overlap!Handler(m1), One!Handler(m1)))
  /\ WF_vars(Step(FALSE, Overlap!Handler(m2), FALSE))
  /\ SF_vars(Step(Careful!PassStart(h1), Overlap!PassStart(h1), One!PassStart(h1)))
  /\ SF_vars(Step(Careful!PassStart(h2), FALSE, One!PassStart(h2)))
  /\ SF_vars(Step(\E op \in pass.ops : Careful!PassTake(op),
                  \E op \in pass.ops : Overlap!PassTake(op),
                  \E op \in pass.ops : One!PassTake(op)))
  /\ SF_vars(Step(Careful!PassCall, Overlap!PassCall, One!PassCall))
  /\ SF_vars(Step(Careful!PassMember(u1), Overlap!PassMember(u1), One!PassPush))
  /\ SF_vars(Step(Careful!PassMembersDone, Overlap!PassMembersDone, FALSE))
  /\ SF_vars(Step(Careful!PassDelete, Overlap!PassDelete, One!PassDelete))
  /\ WF_vars(Step(Careful!PassEnds, Overlap!PassEnds, One!PassEnds))

\* Once the requests stop, what was queued has been replayed, whatever overlapped,
\* was lost or died; every Harbor holds the grants the Gateway shows when the steps
\* about one person are kept apart, and the setting the Gateway shows.
FanOutSettles ==
  <>[] /\ queue = {}
       /\ cluster = "careful" => Careful!Converged
       /\ cluster = "setting" => One!Converged

=============================================================================
