--------------------------- MODULE ReplicationMesh ---------------------------
(***************************************************************************)
(* The replication mesh of a cluster (lib/clusters/replication.ts): one    *)
(* directed link from every member to every other, each of which is an     *)
(* endpoint and a policy on the source Harbor.  A sync brings the objects  *)
(* and the rows in line with the membership; a link that is dropped turns  *)
(* into a cleanup row that survives it (replication-cleanup.ts).  The      *)
(* worker (replication-worker.ts) drains the cleanups, replays the queued  *)
(* syncs and syncs; all of them, and the changes of membership, hold the   *)
(* replication lock (replication-lock.ts), so there is one run at a time.  *)
(*                                                                         *)
(* The edges of a run are applied one after the other: the code applies    *)
(* those of distinct sources in parallel, which share no row or object.    *)
(* A Harbor names its objects after the peer, so it has at most one        *)
(* endpoint and one policy per edge; their ids change when it is rebuilt,  *)
(* and the old ones may then be given to other objects, which the Gateway  *)
(* must not touch: what it has recorded is then in need of a hand.         *)
(***************************************************************************)
EXTENDS Naturals

CONSTANTS
  Harbor,       \* the registries
  Founders,     \* those that are members at first
  Edge,         \* the directions followed, pairs <<source, destination>>
  None,         \* no id, no login, no edge
  MaxMoves,     \* bound: joins, departures and changes of mode
  MaxLogins,    \* bound: logins a registry has had
  MaxRebuilds,  \* bound: times a Harbor lost its objects
  MaxCrashes    \* bound: runs that die

VARIABLES
  members,  \* the registries of the cluster
  on,       \* whether Cluster.replicationMode is not "none"
  login,    \* per registry: which login its peers have to push with
  link,     \* the ReplicationLink rows
  cleanup,  \* the ReplicationCleanup rows
  object,   \* what the source Harbor of an edge holds for it
  epoch,    \* per Harbor: how often it was rebuilt
  foreign,  \* the ids of an edge that its rebuilt source has given to objects of other names
  queued,   \* the registries a REPLICATION_SYNC row is queued for
  run,      \* what the holder of the replication lock is doing
  strays,   \* history: edges an object of which was created and not recorded
  healthy,  \* whether the faults have come to an end
  moves, crashes

vars == <<members, on, login, link, cleanup, object, epoch, foreign, queued, run, strays,
          healthy, moves, crashes>>

Id == 0..MaxRebuilds
Ids == Id \union {None}
Login == 0..MaxLogins

\* fp: the login of the fingerprint, recent: lastPingAt of an active link is
\* within the verification window, or nextAttemptAt of a failed one is to come.
NoLink == [status |-> "NONE", ep |-> None, pol |-> None, fp |-> None, recent |-> FALSE]
Link == [status : {"NONE", "PENDING", "ACTIVE", "FAILED"}, ep : Ids, pol : Ids,
         fp : Login \union {None}, recent : BOOLEAN]

NoObject == [ep |-> None, login |-> None, pol |-> None, on |-> FALSE]
Object == [ep : Ids, login : Login \union {None}, pol : Ids, on : BOOLEAN]

Cleanup == [edge : Edge, ep : Ids, pol : Ids]
NoCleanup == [edge |-> None, ep |-> None, pol |-> None]

\* drops, todo: links to remove and edges to apply; then: where removing leads;
\* at, want, ep, pol: the edge in hand, the login it is given and the ids found;
\* clean: the cleanup row in hand; row: the registry whose queued sync this is;
\* who: the member that leaves.
Run == [pc : {"idle", "unlink", "disable", "delete", "forget", "remove", "close",
              "leave", "detach", "edges", "endpoint", "record", "ping", "activate"},
        then : {"idle", "leave", "edges"}, force : BOOLEAN,
        drops : SUBSET Edge, todo : SUBSET Edge, failed : SUBSET Harbor,
        at : Edge \union {None}, want : Login \union {None}, ep : Ids, pol : Ids,
        clean : Cleanup \union {NoCleanup},
        row : Harbor \union {None}, who : Harbor \union {None}]

TypeOK ==
  /\ members \subseteq Harbor /\ on \in BOOLEAN /\ login \in [Harbor -> Login]
  /\ link \in [Edge -> Link] /\ cleanup \subseteq Cleanup
  /\ object \in [Edge -> Object] /\ epoch \in [Harbor -> Id]
  /\ foreign \subseteq Edge \X {"ep", "pol"} \X Id
  /\ queued \subseteq Harbor /\ run \in Run /\ strays \subseteq Edge
  /\ healthy \in BOOLEAN /\ moves \in 0..MaxMoves /\ crashes \in 0..MaxCrashes

IdleRun == [pc |-> "idle", then |-> "idle", force |-> FALSE,
            drops |-> {}, todo |-> {}, failed |-> {},
            at |-> None, want |-> None, ep |-> None, pol |-> None,
            clean |-> NoCleanup, row |-> None, who |-> None]

Init ==
  /\ members = Founders /\ on = TRUE
  /\ login = [h \in Harbor |-> 0]
  /\ link = [e \in Edge |-> NoLink] /\ cleanup = {}
  /\ object = [e \in Edge |-> NoObject] /\ epoch = [h \in Harbor |-> 0]
  /\ foreign = {} /\ queued = {} /\ run = IdleRun /\ strays = {}
  /\ healthy = FALSE /\ moves = 0 /\ crashes = 0

Wanted(ms, mode) == IF mode THEN {e \in Edge : e[1] \in ms /\ e[2] \in ms} ELSE {}

-----------------------------------------------------------------------------
(* runClusterSync reads the membership, the mode and the links.            *)

Planned(ms, mode, force, row) ==
  [IdleRun EXCEPT !.pc = "unlink", !.then = "edges", !.force = force, !.row = row,
     !.todo = Wanted(ms, mode),
     !.drops = {e \in Edge : /\ link[e] # NoLink
                             /\ e[1] \in ms \/ e[2] \in ms
                             /\ e \notin Wanted(ms, mode)}]

\* The worker, or an operator who asks for a check and repair.
StartSync(force) ==
  /\ run.pc = "idle"
  /\ run' = Planned(members, on, force, None)
  /\ UNCHANGED <<members, on, login, link, cleanup, object, epoch, foreign, queued, strays,
                 healthy, moves, crashes>>

\* The replay of a REPLICATION_SYNC row; that of a registry which left is stale.
StartReplay(h) ==
  /\ run.pc = "idle" /\ h \in queued
  /\ IF h \in members
     THEN run' = Planned(members, on, TRUE, h) /\ UNCHANGED queued
     ELSE queued' = queued \ {h} /\ UNCHANGED run
  /\ UNCHANGED <<members, on, login, link, cleanup, object, epoch, foreign, strays, healthy,
                 moves, crashes>>

Join(h) ==
  /\ run.pc = "idle" /\ h \notin members /\ moves < MaxMoves
  /\ members' = members \union {h}
  /\ run' = Planned(members', on, FALSE, None)
  /\ moves' = moves + 1
  /\ UNCHANGED <<on, login, link, cleanup, object, epoch, foreign, queued, strays, healthy,
                 crashes>>

SwitchMode ==
  /\ run.pc = "idle" /\ moves < MaxMoves
  /\ on' = ~on
  /\ run' = Planned(members, on', TRUE, None)
  /\ moves' = moves + 1
  /\ UNCHANGED <<members, login, link, cleanup, object, epoch, foreign, queued, strays, healthy,
                 crashes>>

\* Leaving unlinks first, whichever the direction...
Leave(h) ==
  /\ run.pc = "idle" /\ h \in members /\ moves < MaxMoves
  /\ run' = [IdleRun EXCEPT !.pc = "unlink", !.then = "leave", !.who = h,
               !.drops = {e \in Edge : link[e] # NoLink /\ h \in {e[1], e[2]}}]
  /\ moves' = moves + 1
  /\ UNCHANGED <<members, on, login, link, cleanup, object, epoch, foreign, queued, strays,
                 healthy, crashes>>

\* ...then forgets what the registry was owed, lets it go, and syncs the others.
LeaveForgets ==
  /\ run.pc = "leave"
  /\ queued' = queued \ {run.who}
  /\ run' = [run EXCEPT !.pc = "detach"]
  /\ UNCHANGED <<members, on, login, link, cleanup, object, epoch, foreign, strays, healthy,
                 moves, crashes>>

LeaveDetaches ==
  /\ run.pc = "detach"
  /\ members' = members \ {run.who}
  /\ run' = Planned(members', on, FALSE, None)
  /\ UNCHANGED <<on, login, link, cleanup, object, epoch, foreign, queued, strays, healthy,
                 moves, crashes>>

-----------------------------------------------------------------------------
(* Removing a link, and what it left on its source Harbor.                 *)

FirstStep(c) ==
  IF c.pol # None THEN "disable" ELSE IF c.ep # None THEN "remove" ELSE "close"

\* removeReplicationLink: one transaction, then the drain of that one row.
Unlink(e) ==
  LET c == [edge |-> e, ep |-> link[e].ep, pol |-> link[e].pol] IN
  /\ run.pc = "unlink" /\ e \in run.drops
  /\ cleanup' = cleanup \union {c}
  /\ link' = [link EXCEPT ![e] = NoLink]
  /\ run' = [run EXCEPT !.pc = FirstStep(c), !.clean = c, !.drops = @ \ {e}]
  /\ UNCHANGED <<members, on, login, object, epoch, foreign, queued, strays, healthy, moves,
                 crashes>>

Unlinked ==
  /\ run.pc = "unlink" /\ run.drops = {}
  /\ run' = [run EXCEPT !.pc = run.then]
  /\ UNCHANGED <<members, on, login, link, cleanup, object, epoch, foreign, queued, strays,
                 healthy, moves, crashes>>

\* The worker comes back to a row whose back-off has elapsed.
StartDrain(c) ==
  /\ run.pc = "idle" /\ c \in cleanup
  /\ run' = [IdleRun EXCEPT !.pc = FirstStep(c), !.clean = c]
  /\ UNCHANGED <<members, on, login, link, cleanup, object, epoch, foreign, queued, strays,
                 healthy, moves, crashes>>

Leaving(c) == IF run.then = "idle" THEN IdleRun
              ELSE [run EXCEPT !.pc = "unlink", !.clean = NoCleanup]

\* harborObjectMatches: an id that is recorded now names another object.
Taken(e, kind, id) == <<e, kind, id>> \in foreign

\* A seeded bug: an id the Harbor no longer knows is an error.
DrainDisableBug ==
  LET c == run.clean IN
  /\ run.pc = "disable" /\ ~Taken(c.edge, "pol", c.pol)
  /\ IF object[c.edge].pol = c.pol
     THEN /\ object' = [object EXCEPT ![c.edge].on = FALSE]
          /\ run' = [run EXCEPT !.pc = "delete"]
     ELSE /\ UNCHANGED object
          /\ run' = Leaving(c)
  /\ UNCHANGED <<members, on, login, link, cleanup, epoch, foreign, queued, strays, healthy,
                 moves, crashes>>

\* harborObjectMatches: an id the Harbor no longer knows is skipped.
DrainDisable ==
  LET c == run.clean IN
  /\ run.pc = "disable" /\ ~Taken(c.edge, "pol", c.pol)
  /\ IF object[c.edge].pol = c.pol
     THEN /\ object' = [object EXCEPT ![c.edge].on = FALSE]
          /\ run' = [run EXCEPT !.pc = "delete"]
     ELSE /\ UNCHANGED object
          /\ run' = [run EXCEPT !.pc = "forget"]
  /\ UNCHANGED <<members, on, login, link, cleanup, epoch, foreign, queued, strays, healthy,
                 moves, crashes>>

DrainDelete ==
  /\ run.pc = "delete"
  /\ object' = [object EXCEPT ![run.clean.edge].pol = None]
  /\ run' = [run EXCEPT !.pc = "forget"]
  /\ UNCHANGED <<members, on, login, link, cleanup, epoch, foreign, queued, strays, healthy,
                 moves, crashes>>

DrainForget ==
  LET c == [run.clean EXCEPT !.pol = None] IN
  /\ run.pc = "forget"
  /\ cleanup' = (cleanup \ {run.clean}) \union {c}
  /\ run' = [run EXCEPT !.pc = FirstStep(c), !.clean = c]
  /\ UNCHANGED <<members, on, login, link, object, epoch, foreign, queued, strays, healthy,
                 moves, crashes>>

DrainRemove ==
  LET c == run.clean IN
  /\ run.pc = "remove" /\ ~Taken(c.edge, "ep", c.ep)
  /\ object' = [object EXCEPT ![c.edge] =
                  IF @.ep = c.ep THEN [@ EXCEPT !.ep = None, !.login = None] ELSE @]
  /\ run' = [run EXCEPT !.pc = "close"]
  /\ UNCHANGED <<members, on, login, link, cleanup, epoch, foreign, queued, strays, healthy,
                 moves, crashes>>

DrainClose ==
  /\ run.pc = "close"
  /\ cleanup' = cleanup \ {run.clean}
  /\ run' = Leaving(run.clean)
  /\ UNCHANGED <<members, on, login, link, object, epoch, foreign, queued, strays, healthy,
                 moves, crashes>>

\* Whatever is well: an object of another name is not touched, and the row stays.
DrainBarred ==
  LET c == run.clean IN
  /\ \/ run.pc = "disable" /\ Taken(c.edge, "pol", c.pol)
     \/ run.pc = "remove" /\ Taken(c.edge, "ep", c.ep)
  /\ run' = Leaving(c)
  /\ UNCHANGED <<members, on, login, link, cleanup, object, epoch, foreign, queued, strays,
                 healthy, moves, crashes>>

\* A seeded bug: a row that failed is forgotten.
DrainFailsBug ==
  /\ ~healthy /\ run.pc \in {"disable", "delete", "forget", "remove", "close"}
  /\ run' = Leaving(run.clean)
  /\ cleanup' = cleanup \ {run.clean}
  /\ UNCHANGED <<members, on, login, link, object, epoch, foreign, queued, strays,
                 healthy, moves, crashes>>

\* A call is refused (a policy whose executions are not over cannot be deleted), or
\* its answer is lost: the row stays for the worker.
DrainFails ==
  /\ ~healthy /\ run.pc \in {"disable", "delete", "forget", "remove", "close"}
  /\ run' = Leaving(run.clean)
  /\ UNCHANGED <<members, on, login, link, cleanup, object, epoch, foreign, queued, strays,
                 healthy, moves, crashes>>

-----------------------------------------------------------------------------
(* applyReplicationLink.                                                   *)

\* A seeded bug: a run that is not forced does not look for a cleanup.
CleaningUpBug(e) == run.force /\ \E c \in cleanup : c.edge = e

CleaningUp(e) == \E c \in cleanup : c.edge = e

BackingOff(e) == ~run.force /\ link[e].status = "FAILED" /\ link[e].recent

Unmoved(e) ==
  /\ ~run.force /\ link[e].status = "ACTIVE" /\ link[e].fp = login[e[2]]
  /\ link[e].ep # None /\ link[e].pol # None /\ link[e].recent

\* recordEdgeFailure.
Failure(e) == [link EXCEPT ![e] = [@ EXCEPT !.status = "FAILED", !.fp = None, !.recent = TRUE]]

\* A seeded bug: the edge is queued for, not its source.
FailEdgeBug(e) ==
  /\ link' = Failure(e)
  /\ run' = [run EXCEPT !.pc = "edges", !.todo = @ \ {e}, !.failed = @ \union {e},
               !.at = None, !.want = None, !.ep = None, !.pol = None]

FailEdge(e) ==
  /\ link' = Failure(e)
  /\ run' = [run EXCEPT !.pc = "edges", !.todo = @ \ {e}, !.failed = @ \union {e[1]},
               !.at = None, !.want = None, !.ep = None, !.pol = None]

ApplyRefused(e) ==
  /\ run.pc = "edges" /\ e \in run.todo
  /\ BackingOff(e) \/ CleaningUp(e)
  /\ FailEdge(e)
  /\ UNCHANGED <<members, on, login, cleanup, object, epoch, foreign, queued, strays, healthy,
                 moves, crashes>>

\* An edge whose fingerprint is unchanged costs no network at all.
ApplySkips(e) ==
  /\ run.pc = "edges" /\ e \in run.todo
  /\ ~BackingOff(e) /\ ~CleaningUp(e) /\ Unmoved(e)
  /\ run' = [run EXCEPT !.todo = @ \ {e}]
  /\ UNCHANGED <<members, on, login, link, cleanup, object, epoch, foreign, queued, strays,
                 healthy, moves, crashes>>

ApplyReads(e) ==
  /\ run.pc = "edges" /\ e \in run.todo
  /\ ~BackingOff(e) /\ ~CleaningUp(e) /\ ~Unmoved(e)
  /\ run' = [run EXCEPT !.pc = "endpoint", !.at = e, !.want = login[e[2]]]
  /\ UNCHANGED <<members, on, login, link, cleanup, object, epoch, foreign, queued, strays,
                 healthy, moves, crashes>>

\* The endpoint is updated in place, adopted by its name and updated, or created.
ApplyEndpoint ==
  LET e == run.at
      id == IF object[e].ep # None THEN object[e].ep ELSE epoch[e[1]]
  IN /\ run.pc = "endpoint" /\ ~Taken(e, "ep", link[e].ep)
     /\ object' = [object EXCEPT ![e].ep = id, ![e].login = run.want]
     /\ run' = [run EXCEPT !.pc = "record", !.ep = id]
     /\ UNCHANGED <<members, on, login, link, cleanup, epoch, foreign, queued, strays, healthy,
                    moves, crashes>>

\* A seeded bug: the fingerprint of the last success is kept.
ApplyRecordBug ==
  /\ run.pc = "record"
  /\ link' = [link EXCEPT ![run.at].ep = run.ep,
                ![run.at].status = IF @ = "NONE" THEN "PENDING" ELSE @]
  /\ run' = [run EXCEPT !.pc = "ping"]
  /\ UNCHANGED <<members, on, login, cleanup, object, epoch, foreign, queued, strays, healthy,
                 moves, crashes>>

\* Recorded before the probe, with the fingerprint cleared.
ApplyRecord ==
  /\ run.pc = "record"
  /\ link' = [link EXCEPT ![run.at].ep = run.ep, ![run.at].fp = None,
                ![run.at].status = IF @ = "NONE" THEN "PENDING" ELSE @]
  /\ run' = [run EXCEPT !.pc = "ping"]
  /\ UNCHANGED <<members, on, login, cleanup, object, epoch, foreign, queued, strays, healthy,
                 moves, crashes>>

\* The source knows the endpoint, and may reach the peer.
Reachable == run.pc = "ping" /\ object[run.at].ep = run.ep

\* The source reaches the peer: its policy is rewritten, adopted or created.
ApplyPolicy ==
  LET e == run.at
      id == IF object[e].pol # None THEN object[e].pol ELSE epoch[e[1]]
  IN /\ Reachable /\ ~Taken(e, "pol", link[e].pol)
     /\ object' = [object EXCEPT ![e].pol = id, ![e].on = TRUE]
     /\ run' = [run EXCEPT !.pc = "activate", !.pol = id]
     /\ UNCHANGED <<members, on, login, link, cleanup, epoch, foreign, queued, strays, healthy,
                    moves, crashes>>

ApplyActivates ==
  /\ run.pc = "activate"
  /\ link' = [link EXCEPT ![run.at] = [status |-> "ACTIVE", ep |-> run.ep, pol |-> run.pol,
                                       fp |-> run.want, recent |-> TRUE]]
  /\ strays' = strays \ {run.at}
  /\ run' = [run EXCEPT !.pc = "edges", !.todo = @ \ {run.at},
               !.at = None, !.want = None, !.ep = None, !.pol = None]
  /\ UNCHANGED <<members, on, login, cleanup, object, epoch, foreign, queued, healthy, moves,
                 crashes>>

\* An object may be there that no row has the id of yet.
Straying == IF run.pc \in {"record", "activate"} THEN strays \union {run.at} ELSE strays

\* The next call throws whatever is well: the id it would write to names another
\* object, or the endpoint is gone again and cannot be reached.
ApplyBarred ==
  \/ run.pc = "endpoint" /\ Taken(run.at, "ep", link[run.at].ep)
  \/ run.pc = "ping" /\ (~Reachable \/ Taken(run.at, "pol", link[run.at].pol))

\* A call fails, or its answer is lost, or the source cannot reach the peer.
ApplyFails ==
  /\ run.pc \in {"endpoint", "record", "ping", "activate"}
  /\ healthy => ApplyBarred
  /\ FailEdge(run.at)
  /\ strays' = Straying
  /\ UNCHANGED <<members, on, login, cleanup, object, epoch, foreign, queued, healthy, moves,
                 crashes>>

\* A source with a failed edge is queued for; a replay whose sync failed stays.
SyncEnds ==
  /\ run.pc = "edges" /\ run.todo = {}
  /\ queued' = IF run.failed = {} THEN queued \ {run.row} ELSE queued \union run.failed
  /\ run' = IdleRun
  /\ UNCHANGED <<members, on, login, link, cleanup, object, epoch, foreign, strays, healthy,
                 moves, crashes>>

-----------------------------------------------------------------------------
(* The environment.                                                        *)

\* The registry's login is changed, or its system robot replaced, unlocked.
NewLogin(h) ==
  /\ ~healthy /\ login[h] < MaxLogins
  /\ login' = [login EXCEPT ![h] = @ + 1]
  /\ UNCHANGED <<members, on, link, cleanup, object, epoch, foreign, queued, run, strays,
                 healthy, moves, crashes>>

Rebuild(h) ==
  /\ ~healthy /\ epoch[h] < MaxRebuilds
  /\ epoch' = [epoch EXCEPT ![h] = @ + 1]
  /\ object' = [e \in Edge |-> IF e[1] = h THEN NoObject ELSE object[e]]
  /\ foreign' = {t \in foreign : t[1][1] # h}
  /\ UNCHANGED <<members, on, login, link, cleanup, queued, run, strays, healthy,
                 moves, crashes>>

Recorded(e, kind) ==
  IF kind = "ep" THEN {link[e].ep} \union {c.ep : c \in {x \in cleanup : x.edge = e}}
  ELSE {link[e].pol} \union {c.pol : c \in {x \in cleanup : x.edge = e}}

\* A rebuilt Harbor gives an id of before to something else: a link of another edge,
\* or what its administrator adds.  (An id that no row has is of no interest.  Not
\* between two calls about the edge: rebuilding a Harbor takes longer than they do.)
Reuse(e, kind, id) ==
  /\ id < epoch[e[1]] /\ ~Taken(e, kind, id) /\ id \in Recorded(e, kind)
  /\ run.at # e /\ run.clean.edge # e
  /\ foreign' = foreign \union {<<e, kind, id>>}
  /\ UNCHANGED <<members, on, login, link, cleanup, object, epoch, queued, run, strays,
                 healthy, moves, crashes>>

\* The verification window, or the back-off, of a link elapses.
Elapse(e) ==
  /\ link[e].recent
  /\ link' = [link EXCEPT ![e].recent = FALSE]
  /\ UNCHANGED <<members, on, login, cleanup, object, epoch, foreign, queued, run, strays,
                 healthy, moves, crashes>>

\* PostgreSQL drops the lock of a pod that dies.
Crash ==
  /\ ~healthy /\ run.pc # "idle" /\ crashes < MaxCrashes
  /\ run' = IdleRun
  /\ strays' = Straying
  /\ crashes' = crashes + 1
  /\ UNCHANGED <<members, on, login, link, cleanup, object, epoch, foreign, queued, healthy,
                 moves>>

Heal ==
  /\ ~healthy
  /\ healthy' = TRUE
  /\ UNCHANGED <<members, on, login, link, cleanup, object, epoch, foreign, queued, run, strays,
                 moves, crashes>>

RunStep ==
  \/ LeaveForgets \/ LeaveDetaches
  \/ Unlinked \/ DrainDisable \/ DrainDelete \/ DrainForget \/ DrainRemove \/ DrainClose
  \/ DrainBarred
  \/ ApplyEndpoint \/ ApplyRecord \/ ApplyPolicy \/ ApplyActivates \/ ApplyFails
  \/ SyncEnds
  \/ \E e \in Edge : Unlink(e) \/ ApplyRefused(e) \/ ApplySkips(e) \/ ApplyReads(e)

Next ==
  \/ \E force \in BOOLEAN : StartSync(force)
  \/ \E h \in Harbor : StartReplay(h) \/ Join(h) \/ Leave(h)
  \/ SwitchMode
  \/ \E c \in cleanup : StartDrain(c)
  \/ RunStep
  \/ DrainFails \/ Crash
  \/ \E h \in Harbor : NewLogin(h) \/ Rebuild(h)
  \/ \E e \in Edge : Elapse(e) \/ \E kind \in {"ep", "pol"}, id \in Id : Reuse(e, kind, id)
  \/ Heal

Spec == Init /\ [][Next]_vars

\* The faults come to an end, a run that does not die is run to its end, time
\* passes, and the worker comes back to each of its duties.
FairSpec ==
  /\ Spec
  /\ WF_vars(Heal)
  /\ WF_vars(RunStep)
  /\ \A e \in Edge : WF_vars(Elapse(e))
  /\ SF_vars(\E force \in BOOLEAN : StartSync(force))
  /\ SF_vars(\E h \in Harbor : StartReplay(h))
  /\ \A c \in Cleanup : SF_vars(StartDrain(c))

-----------------------------------------------------------------------------
(* Properties.                                                             *)

Wired(e) ==
  /\ object[e].ep = link[e].ep /\ object[e].login = login[e[2]]
  /\ object[e].pol = link[e].pol /\ object[e].on

Applying(e) == run.at = e

\* An active link whose fingerprint is that of the current login, which a sync will
\* leave alone, is wired: its Harbor has the endpoint with that login and the
\* policy switched on, unless it was rebuilt since, and its repair broke off at the
\* first object (replication.ts: "what is on Harbor matches what the peer row says
\* now").
ActiveIsWired ==
  \A e \in Edge :
    link[e].status = "ACTIVE" /\ link[e].fp = login[e[2]] =>
      Wired(e) \/ object[e] = NoObject \/ Applying(e) \/ e \in strays

\* An object on a Harbor is known to a link or to a cleanup row, and its policy
\* cannot fire unseen once the link is gone: only the creation whose answer was
\* lost leaves one behind (replication-cleanup.ts: "never forget the external
\* objects on a failed step").
NothingIsForgotten ==
  \A e \in Edge :
    LET known(i, rows) == i \in rows \/ Applying(e) \/ e \in strays
    IN  /\ object[e].ep # None => known(object[e].ep, Recorded(e, "ep"))
        /\ object[e].pol # None /\ object[e].on => known(object[e].pol, Recorded(e, "pol"))

\* A direction is not wired again while what it left is still being removed: no
\* cleanup can take away the objects of a live link.
CleanupSparesLinks ==
  \A e \in Edge : \A c \in cleanup :
    c.edge = e => /\ link[e].status # "ACTIVE"
                  /\ c.ep # None => link[e].ep = None
                  /\ c.pol # None => link[e].pol = None

\* What is recorded of an edge names another object on its rebuilt source.
Barred(e) == \E kind \in {"ep", "pol"} : \E id \in Recorded(e, kind) : Taken(e, kind, id)

\* Once the faults stop, the mesh is what the membership, the mode and the logins
\* call for: every link wanted is active and wired, and of any other nothing is
\* left but what no row ever knew.  An edge of which a recorded id was given to another
\* object is the exception: no pass repairs it or cleans it up (harbor.ts: "a reused ID
\* must never overwrite or delete an unrelated administrator's object"), and it is shown
\* as failed for as long as it is wanted.
Settled ==
  \A e \in Edge :
    IF e \in Wanted(members, on)
    THEN IF Barred(e) THEN link[e].status = "FAILED"
         ELSE link[e].status = "ACTIVE" /\ Wired(e) /\ ~CleaningUp(e)
    ELSE /\ link[e] = NoLink
         /\ Barred(e) \/ (~CleaningUp(e) /\ (object[e] = NoObject \/ e \in strays))
MeshSettles == <>[]Settled

=============================================================================
