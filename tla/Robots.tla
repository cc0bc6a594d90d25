------------------------------- MODULE Robots -------------------------------
(***************************************************************************)
(* One robot account of a project: one credential that opens every Harbor  *)
(* of the cluster (lib/clusters/robots.ts and the two robot routes).  A    *)
(* Harbor mints a secret of its own when it creates a robot, which the     *)
(* Gateway replaces with the one it chose; a Harbor that refuses keeps its *)
(* own, which the placement then remembers.  What failed is queued, and    *)
(* the pass replays it and realigns what is out of line (reconcile.ts).    *)
(* The robot does not expire.  A handler's fan-out may interleave with a   *)
(* pass unless Apart; its writes to the queue are then one step each.      *)
(***************************************************************************)
EXTENDS Integers, PendingOps

CONSTANTS
  Harbor,       \* the Harbors of the cluster
  None,         \* no robot, no secret, nobody
  Apart,        \* whether handlers and passes do not overlap
  Patient,      \* whether a name is used again only once its deletions are replayed
  AnswersLost,  \* whether a call that took effect may seem to have failed
  MaxRequests,  \* bound: creations, rotations and revocations
  MaxCrashes    \* bound: handlers and passes that die

VARIABLES
  row,       \* the RobotAccount row, if there is one
  place,     \* its RobotPlacement rows
  robot,     \* what each Harbor holds under the robot's name
  queue, nextId,
  hand,      \* the handler under way
  pass,      \* the pass under way
  shown,     \* history: the secrets people were given for a Harbor
  healthy,   \* whether the faults have come to an end
  requests, crashes

vars == <<row, place, robot, queue, nextId, hand, pass, shown, healthy, requests, crashes>>

\* The n-th request chooses secret n; a robot created since is numbered n, and has the
\* secret -n at first.
Account == 1..MaxRequests
Rid == 1..MaxRequests
Secret == -MaxRequests..MaxRequests
Minted(rid) == -rid

Placement == [rid : Rid \union {None}, own : Secret \union {None},
              status : {"NONE", "ACTIVE", "FAILED"}]
NoPlacement == [rid |-> None, own |-> None, status |-> "NONE"]

\* Where the work on one Harbor stands.
Stage == [pc : {"find", "patch", "record", "delete", "done", "failed"},
          rid : Rid \union {None}, issued : BOOLEAN, unified : BOOLEAN]
AtFind == [pc |-> "find", rid |-> None, issued |-> FALSE, unified |-> FALSE]
AtDelete(rid) == [AtFind EXCEPT !.pc = "delete", !.rid = rid]
Done == [AtFind EXCEPT !.pc = "done"]

Idle == [job |-> "idle", secret |-> 0, prev |-> 0, at |-> [h \in Harbor |-> Done], any |-> FALSE]
NoOp == Row(0, None, "NONE", <<0, 0>>)
Asleep == [pc |-> "idle", h |-> None, ops |-> {}, op |-> NoOp, at |-> Done, secret |-> 0]

TypeOK ==
  /\ row = None \/ row \in [id : Account, secret : Secret, unified : BOOLEAN]
  /\ place \in [Harbor -> Placement]
  /\ robot \in [Harbor -> [rid : Rid \union {None}, secret : Secret \union {None}]]
  /\ \A op \in queue : /\ op.registry \in Harbor /\ op.kind \in {"ROBOT_CREATE", "ROBOT_DELETE"}
                       /\ op.id < nextId
  /\ hand \in [job : {"idle", "create", "rotate", "revoke"}, secret : Secret, prev : Secret,
               at : [Harbor -> Stage], any : BOOLEAN]
  /\ pass.pc \in {"idle", "queue", "replay", "unqueue", "realign", "realigned"}
  /\ shown \subseteq Harbor \X Secret /\ requests \in 0..MaxRequests /\ crashes \in 0..MaxCrashes

NoRobot == [rid |-> None, secret |-> None]

Init ==
  /\ row = None /\ place = [h \in Harbor |-> NoPlacement]
  /\ robot = [h \in Harbor |-> NoRobot]
  /\ queue = {} /\ nextId = 1 /\ hand = Idle /\ pass = Asleep
  /\ shown = {} /\ healthy = FALSE /\ requests = 0 /\ crashes = 0

-----------------------------------------------------------------------------
(* applyRobotToMember, and the deletion on one Harbor: each is a sequence  *)
(* of calls, and a call has one of several results, which are records of   *)
(* the stage reached, what the Harbor holds and what its placement says.   *)

Result(stage, held, placed) == [stage |-> stage, held |-> held, placed |-> placed]

Failing(s) == [s EXCEPT !.pc = "failed"]

\* A call succeeds; or it fails, having done nothing, or its answer was lost.
Answers(h, s, held, placed) ==
  {Result(s, held, placed)}
    \union (IF healthy THEN {} ELSE {Result(Failing(s), robot[h], place[h])})
    \union (IF healthy \/ ~AnswersLost THEN {} ELSE {Result(Failing(s), held, place[h])})

Find(h, s) ==
  IF robot[h].rid # None
  THEN Answers(h, [s EXCEPT !.pc = "patch", !.rid = robot[h].rid], robot[h], place[h])
  ELSE Answers(h, [s EXCEPT !.pc = "patch", !.rid = requests, !.issued = TRUE],
               [rid |-> requests, secret |-> Minted(requests)], place[h])

\* The secret is set, or refused with the Harbor keeping the one it has.
Patch(h, s, secret) ==
  (IF robot[h].rid = s.rid
   THEN Answers(h, [s EXCEPT !.pc = "record", !.unified = TRUE],
                [rid |-> s.rid, secret |-> secret], place[h])
   ELSE {})
    \union (IF healthy /\ robot[h].rid = s.rid THEN {}
            ELSE {Result([s EXCEPT !.pc = "record"], robot[h], place[h])})

\* A seeded bug: a secret that is not known is taken for the cluster's.
RecordPlacementBug(h, s) ==
  LET own == IF s.unified THEN None ELSE IF s.issued THEN Minted(s.rid) ELSE place[h].own IN
  {Result([s EXCEPT !.pc = "done"], robot[h], [rid |-> s.rid, own |-> own, status |-> "ACTIVE"])}

\* A Harbor out of line must have a secret that is known.
RecordPlacement(h, s) ==
  LET own == IF s.unified THEN None ELSE IF s.issued THEN Minted(s.rid) ELSE place[h].own IN
  IF ~s.unified /\ own = None
  THEN {Result(Failing(s), robot[h], place[h])}
  ELSE {Result([s EXCEPT !.pc = "done"], robot[h],
               [rid |-> s.rid, own |-> own, status |-> "ACTIVE"])}

\* 404 is success.
Delete(h, s) ==
  Answers(h, Done, IF robot[h].rid = s.rid THEN NoRobot ELSE robot[h], place[h])

Results(h, s, secret) ==
  CASE s.pc = "find" -> Find(h, s)
    [] s.pc = "patch" -> Patch(h, s, secret)
    [] s.pc = "record" -> RecordPlacement(h, s)
    [] s.pc = "delete" -> Delete(h, s)
    [] OTHER -> {}

\* A seeded bug: a placement that failed counts as aligned.
RefreshedBug(placed) ==
  IF row = None THEN None
  ELSE [row EXCEPT !.unified =
          \A h \in Harbor : placed[h].own = None]

\* refreshRobotUnifiedFlag.
Refreshed(placed) ==
  IF row = None THEN None
  ELSE [row EXCEPT !.unified =
          \A h \in Harbor : placed[h].status = "ACTIVE" /\ placed[h].own = None]

-----------------------------------------------------------------------------
(* The handlers.                                                           *)

Free == hand.job = "idle" /\ (Apart => pass.pc = "idle") /\ requests < MaxRequests

\* The row comes first: the fan-out, and every replay, reads it.
Create ==
  /\ Free /\ row = None
  /\ Patient => queue = {}
  /\ requests' = requests + 1
  /\ row' = [id |-> requests', secret |-> requests', unified |-> TRUE]
  /\ hand' = [job |-> "create", secret |-> requests', prev |-> requests',
              at |-> [h \in Harbor |-> AtFind], any |-> FALSE]
  /\ UNCHANGED <<place, robot, queue, nextId, pass, shown, healthy, crashes>>

Rotate ==
  /\ Free /\ row # None
  /\ requests' = requests + 1
  /\ row' = [row EXCEPT !.secret = requests']
  /\ hand' = [job |-> "rotate", secret |-> requests', prev |-> row.secret,
              at |-> [h \in Harbor |-> AtFind], any |-> FALSE]
  /\ UNCHANGED <<place, robot, queue, nextId, pass, shown, healthy, crashes>>

\* A placement without an id is left alone.
Revoke ==
  /\ Free /\ row # None
  /\ requests' = requests + 1
  /\ hand' = [Idle EXCEPT !.job = "revoke",
                !.at = [h \in Harbor |-> IF place[h].rid = None THEN Done
                                         ELSE AtDelete(place[h].rid)]]
  /\ UNCHANGED <<row, place, robot, queue, nextId, pass, shown, healthy, crashes>>

HandCalls(h) ==
  \E r \in Results(h, hand.at[h], hand.secret) :
    /\ hand.job # "idle"
    /\ hand' = [hand EXCEPT !.at[h] = r.stage, !.any = @ \/ r.stage.pc = "done"]
    /\ robot' = [robot EXCEPT ![h] = r.held]
    /\ place' = [place EXCEPT ![h] = r.placed]
    /\ UNCHANGED <<row, queue, nextId, pass, shown, healthy, requests, crashes>>

FannedOut == hand.job # "idle" /\ \A h \in Harbor : hand.at[h].pc \in {"done", "failed"}

\* A seeded bug: the rows of one fan-out are given one id.
HandQueuesBug(h) ==
  /\ FannedOut /\ hand.at[h].pc = "failed"
  /\ IF hand.job = "revoke"
     THEN /\ queue' = (queue \ Subject(queue, h, {"ROBOT_CREATE"}, <<row.id, 0>>))
                        \union {Row(nextId, h, "ROBOT_DELETE", <<row.id, place[h].rid>>)}
          /\ UNCHANGED place
     ELSE /\ queue' = EnqueueOnce(queue, nextId, h, "ROBOT_CREATE", <<row.id, 0>>)
          /\ place' = [place EXCEPT ![h].status = "FAILED"]
  /\ hand' = [hand EXCEPT !.at[h] = Done]
  /\ UNCHANGED <<row, robot, nextId, pass, shown, healthy, requests, crashes>>

\* What failed is marked, and queued for.
HandQueues(h) ==
  /\ FannedOut /\ hand.at[h].pc = "failed"
  /\ IF hand.job = "revoke"
     THEN /\ queue' = (queue \ Subject(queue, h, {"ROBOT_CREATE"}, <<row.id, 0>>))
                        \union {Row(nextId, h, "ROBOT_DELETE", <<row.id, place[h].rid>>)}
          /\ UNCHANGED place
     ELSE /\ queue' = EnqueueOnce(queue, nextId, h, "ROBOT_CREATE", <<row.id, 0>>)
          /\ place' = [place EXCEPT ![h].status = "FAILED"]
  /\ nextId' = nextId + 1
  /\ hand' = [hand EXCEPT !.at[h] = Done]
  /\ UNCHANGED <<row, robot, pass, shown, healthy, requests, crashes>>

Settled == FannedOut /\ \A h \in Harbor : hand.at[h].pc = "done"

\* The secret is shown once, with those of the Harbors out of line.
HandAnswers ==
  /\ Settled /\ hand.job \in {"create", "rotate"} /\ hand.any
  /\ row' = Refreshed(place)
  /\ shown' = shown \union {<<h, hand.secret>> : h \in Harbor}
                \union {<<h, place[h].own>> : h \in {g \in Harbor : hand.job = "create" /\ place[g].own # None}}
  /\ hand' = Idle
  /\ UNCHANGED <<place, robot, queue, nextId, pass, healthy, requests, crashes>>

\* No Harbor took it: a creation is undone, a rotation put back.
HandGivesUp ==
  /\ Settled /\ hand.job \in {"create", "rotate"} /\ ~hand.any
  /\ IF hand.job = "create"
     THEN /\ row' = None
          /\ queue' = {op \in queue : op.key[1] # row.id}
          /\ place' = [h \in Harbor |-> NoPlacement]
     ELSE row' = [Refreshed(place) EXCEPT !.secret = hand.prev] /\ UNCHANGED <<queue, place>>
  /\ hand' = Idle
  /\ UNCHANGED <<robot, nextId, pass, shown, healthy, requests, crashes>>

\* The row goes, whatever failed, and the placements with it.
HandForgets ==
  /\ Settled /\ hand.job = "revoke"
  /\ row' = None /\ place' = [h \in Harbor |-> NoPlacement]
  /\ hand' = Idle
  /\ UNCHANGED <<robot, queue, nextId, pass, shown, healthy, requests, crashes>>

-----------------------------------------------------------------------------
(* The pass over one Harbor.                                               *)

Divergent(h) == place[h].rid # None /\ place[h].own # None

\* A seeded bug: an empty queue is a reason to stop.
PassStartBug(h) ==
  /\ pass.pc = "idle" /\ (Apart => hand.job = "idle")
  /\ Owed(queue, h) # {}
  /\ pass' = [Asleep EXCEPT !.pc = "queue", !.h = h, !.ops = Owed(queue, h)]
  /\ UNCHANGED <<row, place, robot, queue, nextId, hand, shown, healthy, requests, crashes>>

PassStart(h) ==
  /\ pass.pc = "idle" /\ (Apart => hand.job = "idle")
  /\ Owed(queue, h) # {} \/ Divergent(h)
  /\ pass' = [Asleep EXCEPT !.pc = "queue", !.h = h, !.ops = Owed(queue, h)]
  /\ UNCHANGED <<row, place, robot, queue, nextId, hand, shown, healthy, requests, crashes>>

\* A seeded bug: the deletion of a robot without a row is stale.
PassTakeBug(op) ==
  LET at == IF op.kind = "ROBOT_DELETE" /\ row # None THEN AtDelete(op.key[2])
            ELSE IF row # None /\ row.id = op.key[1] THEN AtFind ELSE Done
  IN /\ pass.pc = "queue" /\ IsOldest(op, pass.ops)
     /\ pass' = [pass EXCEPT !.pc = IF at = Done THEN "unqueue" ELSE "replay",
                   !.op = op, !.ops = @ \ {op}, !.at = at,
                   !.secret = IF row = None THEN 0 ELSE row.secret]
     /\ UNCHANGED <<row, place, robot, queue, nextId, hand, shown, healthy, requests, crashes>>

\* A row whose robot is gone is dropped.
PassTake(op) ==
  LET at == IF op.kind = "ROBOT_DELETE" THEN AtDelete(op.key[2])
            ELSE IF row # None /\ row.id = op.key[1] THEN AtFind ELSE Done
  IN /\ pass.pc = "queue" /\ IsOldest(op, pass.ops)
     /\ pass' = [pass EXCEPT !.pc = IF at = Done THEN "unqueue" ELSE "replay",
                   !.op = op, !.ops = @ \ {op}, !.at = at,
                   !.secret = IF row = None THEN 0 ELSE row.secret]
     /\ UNCHANGED <<row, place, robot, queue, nextId, hand, shown, healthy, requests, crashes>>

\* The first failure ends the replays, not the pass.
PassCalls ==
  \E r \in Results(pass.h, pass.at, pass.secret) :
    /\ pass.pc = "replay"
    /\ robot' = [robot EXCEPT ![pass.h] = r.held]
    /\ place' = [place EXCEPT ![pass.h] = r.placed]
    /\ pass' = CASE r.stage.pc = "done" -> [pass EXCEPT !.pc = "unqueue", !.at = r.stage]
                 [] r.stage.pc = "failed" -> [pass EXCEPT !.pc = "realign", !.at = Done]
                 [] OTHER -> [pass EXCEPT !.at = r.stage]
    /\ row' = IF r.stage.pc = "done" THEN Refreshed(place') ELSE row
    /\ UNCHANGED <<queue, nextId, hand, shown, healthy, requests, crashes>>

PassUnqueues ==
  /\ pass.pc = "unqueue"
  /\ queue' = queue \ {pass.op}
  /\ pass' = [pass EXCEPT !.pc = "queue", !.op = NoOp, !.at = Done]
  /\ UNCHANGED <<row, place, robot, nextId, hand, shown, healthy, requests, crashes>>

PassReplayed ==
  /\ pass.pc = "queue" /\ pass.ops = {}
  /\ pass' = [pass EXCEPT !.pc = "realign"]
  /\ UNCHANGED <<row, place, robot, queue, nextId, hand, shown, healthy, requests, crashes>>

\* realignRobotSecrets: what the Harbor does not accept stays for another pass.
PassRealigns ==
  LET h == pass.h
      s == [AtFind EXCEPT !.pc = "patch", !.rid = place[h].rid]
  IN /\ pass.pc = "realign"
     /\ IF Divergent(h)
        THEN \E r \in Patch(h, s, row.secret) :
               /\ robot' = [robot EXCEPT ![h] = r.held]
               /\ pass' = IF r.stage.pc = "record" /\ r.stage.unified
                          THEN [pass EXCEPT !.pc = "realigned", !.at = Done]
                          ELSE Asleep
        ELSE pass' = Asleep /\ UNCHANGED robot
     /\ UNCHANGED <<row, place, queue, nextId, hand, shown, healthy, requests, crashes>>

PassRealigned ==
  /\ pass.pc = "realigned"
  /\ place' = IF row = None THEN place ELSE [place EXCEPT ![pass.h].own = None]
  /\ row' = Refreshed(place')
  /\ pass' = Asleep
  /\ UNCHANGED <<robot, queue, nextId, hand, shown, healthy, requests, crashes>>

Crash ==
  /\ ~healthy /\ crashes < MaxCrashes /\ crashes' = crashes + 1
  /\ \/ hand # Idle /\ hand' = Idle /\ UNCHANGED pass
     \/ pass # Asleep /\ pass' = Asleep /\ UNCHANGED hand
  /\ UNCHANGED <<row, place, robot, queue, nextId, shown, healthy, requests>>

\* Every Harbor answers, and accepts a secret, from here on.
Heal ==
  /\ ~healthy /\ healthy' = TRUE
  /\ UNCHANGED <<row, place, robot, queue, nextId, hand, pass, shown, requests, crashes>>

HandStep ==
  \/ HandAnswers \/ HandGivesUp \/ HandForgets
  \/ \E h \in Harbor : HandCalls(h) \/ HandQueues(h)

PassStep ==
  \/ PassCalls \/ PassUnqueues \/ PassReplayed \/ PassRealigns \/ PassRealigned
  \/ \E op \in pass.ops : PassTake(op)

Next ==
  \/ Create \/ Rotate \/ Revoke \/ HandStep
  \/ \E h \in Harbor : PassStart(h)
  \/ PassStep \/ Crash \/ Heal

Spec == Init /\ [][Next]_vars

\* A handler and a pass that do not die come to their end, the worker goes on
\* making passes, and the faults end.
FairSpec ==
  /\ Spec
  /\ WF_vars(Heal) /\ WF_vars(HandStep) /\ WF_vars(PassStep)
  /\ WF_vars(\E h \in Harbor : PassStart(h))

-----------------------------------------------------------------------------
(* Properties.                                                             *)

Quiet == hand.job = "idle" /\ pass.pc = "idle" /\ crashes = 0

OwedKind(h, kind) == \E op \in Owed(queue, h) : op.kind = kind

\* Once nothing is under way, the secret the Gateway keeps for a Harbor opens it, or
\* the Harbor is owed it (robots.ts: "whatever secret is known to work on this member
\* while it stays out of line").
SecretWorks ==
  Quiet /\ row # None =>
    \A h \in Harbor :
      \/ OwedKind(h, "ROBOT_CREATE")
      \/ /\ place[h].status = "ACTIVE" /\ robot[h].rid = place[h].rid
         /\ robot[h].secret = IF place[h].own = None THEN row.secret ELSE place[h].own

\* A robot that is revoked, or was never made, opens nothing: what a Harbor still
\* holds is owed its deletion, or has a secret nobody was given.
RevokedOpensNothing ==
  Quiet /\ row = None =>
    \A h \in Harbor :
      <<h, robot[h].secret>> \in shown => OwedKind(h, "ROBOT_DELETE")

\* The flag says that the one secret opens every Harbor only when it does.
FlagIsTrue ==
  Quiet /\ row # None /\ row.unified =>
    \A h \in Harbor : robot[h].secret = row.secret

\* When the requests and the faults stop, the queue is drained, and every Harbor
\* ends with the one secret, if no handler died half way.
AllSettled == crashes = 0 => queue = {} /\ (row # None => row.unified)
RobotSettles == <>[]AllSettled

=============================================================================
