----------------------- MODULE ReplicationMesh_proofs -----------------------
(***************************************************************************)
(* What holds of the mesh for any registries and edges, and any number of  *)
(* moves, of logins, of rebuilt Harbors and of runs that die.              *)
(***************************************************************************)
EXTENDS ReplicationMesh, TLAPS

\* What the constants have to be: an edge is a pair of registries, and None is nothing else.
Sorts ==
  /\ Founders \subseteq Harbor /\ Edge \subseteq Harbor \X Harbor
  /\ None \notin Harbor \union Edge \union Nat
  /\ MaxMoves \in Nat /\ MaxLogins \in Nat /\ MaxRebuilds \in Nat /\ MaxCrashes \in Nat

Applies == {"endpoint", "record", "ping", "activate"}
Drains == {"disable", "delete", "forget", "remove", "close"}

-----------------------------------------------------------------------------
(* The invariant.                                                          *)

\* The run has an edge in hand while it applies one, which nothing is left to be cleaned up
\* of, and the login it is given is one the destination has had.
EdgeIsHeld ==
  /\ run.pc \in Applies <=> run.at # None
  /\ run.at # None => /\ run.want \in Login /\ run.want <= login[run.at[2]]
                      /\ ~CleaningUp(run.at)

\* What the run created is what it holds the ids of, unless the Harbor was rebuilt since.
EdgeIsMade ==
  /\ run.pc \in {"record", "ping", "activate"} =>
       /\ run.ep \in Id
       /\ object[run.at] = NoObject
          \/ (object[run.at].ep = run.ep /\ object[run.at].login = run.want)
  /\ run.pc \in {"ping", "activate"} => link[run.at].ep = run.ep /\ link[run.at].fp = None
  /\ run.pc = "activate" =>
       /\ run.pol \in Id
       /\ object[run.at] = NoObject \/ (object[run.at].pol = run.pol /\ object[run.at].on)

\* A cleanup row in hand is there until what it names is not.
RowIsHeld ==
  LET c == run.clean IN
  /\ run.pc \in Drains => c \in cleanup
  /\ run.pc \in {"disable", "delete", "forget"} => c.pol # None
  /\ run.pc = "forget" => object[c.edge].pol # c.pol
  /\ run.pc \in {"remove", "close"} => c.pol = None
  /\ run.pc = "remove" => c.ep # None
  /\ run.pc = "close" => c.ep = None \/ object[c.edge].ep # c.ep

RunInv == TypeOK /\ EdgeIsHeld /\ EdgeIsMade /\ RowIsHeld

\* A fingerprint is of a login the destination has, or has had.
FpIsPast == \A e \in Edge : link[e].fp # None => link[e].fp <= login[e[2]]

\* At pc, the edge in hand is e.
Halfway(pc, e) == run.pc = pc /\ run.at = e

\* ActiveIsWired, but that only a run between the write of an endpoint and its record is
\* an excuse.
Wiring ==
  \A e \in Edge :
    link[e].status = "ACTIVE" /\ link[e].fp = login[e[2]] =>
      Wired(e) \/ object[e] = NoObject \/ e \in strays \/ Halfway("record", e)

EpKnown(e, i) == link[e].ep = i \/ \E c \in cleanup : c.edge = e /\ c.ep = i
PolKnown(e, i) == link[e].pol = i \/ \E c \in cleanup : c.edge = e /\ c.pol = i

\* NothingIsForgotten, but that only a run that has created and not yet recorded is an excuse.
Remembered ==
  \A e \in Edge :
    /\ object[e].ep # None =>
         EpKnown(e, object[e].ep) \/ e \in strays \/ Halfway("record", e)
    /\ object[e].pol # None /\ object[e].on =>
         PolKnown(e, object[e].pol) \/ e \in strays \/ Halfway("activate", e)

MeshInv == RunInv /\ CleanupSparesLinks /\ FpIsPast /\ Wiring /\ Remembered

-----------------------------------------------------------------------------
(* Types.                                                                  *)

\* The ends of an edge are registries.
LEMMA Ends == ASSUME Sorts PROVE \A e \in Edge : e[1] \in Harbor /\ e[2] \in Harbor
  BY DEF Sorts

\* A run that holds nothing.
LEMMA IdleIsRun ==
  ASSUME Sorts
  PROVE  /\ IdleRun \in Run /\ IdleRun.pc = "idle" /\ IdleRun.then = "idle" /\ IdleRun.at = None
         /\ IdleRun.clean = NoCleanup
  BY DEF IdleRun, Run, Ids

\* A sync that begins has no edge in hand.
LEMMA Plans ==
  ASSUME Sorts, NEW ms, NEW mode, NEW force \in BOOLEAN, NEW h \in Harbor \union {None}
  PROVE  /\ Planned(ms, mode, force, h) \in Run
         /\ Planned(ms, mode, force, h).pc = "unlink" /\ Planned(ms, mode, force, h).at = None
<1>1. Wanted(ms, mode) \subseteq Edge
  BY DEF Wanted
<1> QED
  BY <1>1, IdleIsRun DEF Planned, Run

\* Where a drain begins is what its row still names.
LEMMA FirstSteps ==
  ASSUME NEW c
  PROVE  /\ FirstStep(c) \in {"disable", "remove", "close"}
         /\ FirstStep(c) = "disable" => c.pol # None
         /\ FirstStep(c) = "remove" => c.pol = None /\ c.ep # None
         /\ FirstStep(c) = "close" => c.pol = None /\ c.ep = None
  BY DEF FirstStep

\* A drain that ends goes back to the removals, or leaves nothing in hand.
LEMMA Left ==
  ASSUME Sorts, run \in Run, NEW c
  PROVE  /\ Leaving(c) \in Run /\ Leaving(c).pc \in {"idle", "unlink"}
         /\ Leaving(c).at \in {run.at, None}
<1>1. Leaving(c) = IdleRun
      \/ Leaving(c) = [run EXCEPT !.pc = "unlink", !.clean = NoCleanup]
  BY DEF Leaving
<1> QED
  BY <1>1, IdleIsRun DEF Run

\* An edge that fails keeps the ids of its objects, and loses its fingerprint.
LEMMA FailsEdge ==
  ASSUME Sorts, TypeOK, NEW e \in Edge, FailEdge(e)
  PROVE  /\ link' \in [Edge -> Link] /\ run' \in Run
         /\ run'.pc = "edges" /\ run'.at = None
         /\ \A x \in Edge \ {e} : link'[x] = link[x]
         /\ link'[e].status = "FAILED" /\ link'[e].fp = None
         /\ link'[e].ep = link[e].ep /\ link'[e].pol = link[e].pol
<1>1. link \in [Edge -> Link] /\ run \in Run
  BY DEF TypeOK
<1>2. PICK l : l = [link[e] EXCEPT !.status = "FAILED", !.fp = None, !.recent = TRUE]
  OBVIOUS
<1>3. l \in Link /\ l.status = "FAILED" /\ l.fp = None /\ l.ep = link[e].ep /\ l.pol = link[e].pol
  BY <1>1, <1>2 DEF Link
<1>4. link' = [link EXCEPT ![e] = l]
  BY <1>2 DEF FailEdge, Failure
<1>5. run' = [run EXCEPT !.pc = "edges", !.todo = run.todo \ {e},
                !.failed = run.failed \union {e[1]},
                !.at = None, !.want = None, !.ep = None, !.pol = None]
  BY DEF FailEdge
<1>6. run' \in Run /\ run'.pc = "edges" /\ run'.at = None
  BY <1>1, <1>5, Ends DEF Run, Ids
<1> QED
  BY <1>1, <1>3, <1>4, <1>6

\* Any step keeps the types.
LEMMA TypeNext == ASSUME Sorts, RunInv, Next PROVE TypeOK'
<1>a. /\ members \subseteq Harbor /\ on \in BOOLEAN /\ login \in [Harbor -> Login]
      /\ link \in [Edge -> Link] /\ cleanup \subseteq Cleanup
      /\ object \in [Edge -> Object] /\ epoch \in [Harbor -> Id]
      /\ foreign \subseteq Edge \X {"ep", "pol"} \X Id
      /\ queued \subseteq Harbor /\ run \in Run /\ strays \subseteq Edge
      /\ healthy \in BOOLEAN /\ moves \in 0..MaxMoves /\ crashes \in 0..MaxCrashes
  BY DEF RunInv, TypeOK
<1>b. /\ run.at \in Edge \union {None} /\ run.want \in Login \union {None}
      /\ run.ep \in Ids /\ run.pol \in Ids /\ run.row \in Harbor \union {None}
      /\ run.who \in Harbor \union {None} /\ run.drops \subseteq Edge /\ run.todo \subseteq Edge
      /\ run.failed \subseteq Harbor /\ run.then \in {"idle", "leave", "edges"}
      /\ run.clean \in Cleanup \union {NoCleanup}
  BY <1>a DEF Run
<1>c. run.pc \in Applies => run.at \in Edge
  BY <1>b DEF RunInv, EdgeIsHeld
<1>d. run.pc \in Drains => run.clean \in Cleanup /\ run.clean.edge \in Edge
  <2>1. run.pc \in Drains => run.clean \in Cleanup
    BY <1>a DEF RunInv, RowIsHeld
  <2> QED
    BY <2>1 DEF Cleanup
<1>e. NoLink \in Link /\ NoObject \in Object
  BY DEF NoLink, Link, NoObject, Object, Ids
<1>1. ASSUME NEW force \in BOOLEAN, StartSync(force) PROVE TypeOK'
  BY <1>1, <1>a, Plans DEF StartSync, TypeOK
<1>2. ASSUME NEW h \in Harbor, StartReplay(h) PROVE TypeOK'
  <2>1. run' = Planned(members, on, TRUE, h) \/ run' = run
    BY <1>2 DEF StartReplay
  <2>2. run' \in Run
    <3>1. TRUE \in BOOLEAN /\ h \in Harbor \union {None}
      OBVIOUS
    <3>2. Planned(members, on, TRUE, h) \in Run
      BY <3>1, Plans
    <3> QED
      BY <2>1, <1>a, <3>2
  <2>3. queued' \subseteq Harbor
    BY <1>2, <1>a DEF StartReplay
  <2> QED
    BY <1>2, <2>2, <2>3, <1>a DEF StartReplay, TypeOK
<1>3. ASSUME NEW h \in Harbor, Join(h) PROVE TypeOK'
  <2>1. run' \in Run
    BY <1>3, Plans DEF Join
  <2>2. members' \subseteq Harbor /\ moves' \in 0..MaxMoves
    BY <1>3, <1>a DEF Join, Sorts
  <2> QED
    BY <1>3, <2>1, <2>2, <1>a DEF Join, TypeOK
<1>4. ASSUME NEW h \in Harbor, Leave(h) PROVE TypeOK'
  <2>1. run' \in Run
    BY <1>4, IdleIsRun DEF Leave, Run
  <2>2. moves' \in 0..MaxMoves
    BY <1>4, <1>a DEF Leave, Sorts
  <2> QED
    BY <1>4, <2>1, <2>2, <1>a DEF Leave, TypeOK
<1>5. CASE SwitchMode
  <2>1. run' \in Run
    BY <1>5, Plans DEF SwitchMode
  <2>2. on' \in BOOLEAN /\ moves' \in 0..MaxMoves
    BY <1>5, <1>a DEF SwitchMode, Sorts
  <2> QED
    BY <1>5, <2>1, <2>2, <1>a DEF SwitchMode, TypeOK
<1>6. ASSUME NEW c \in cleanup, StartDrain(c) PROVE TypeOK'
  <2>1. run' \in Run
    BY <1>6, <1>a, IdleIsRun, FirstSteps DEF StartDrain, Run
  <2> QED
    BY <1>6, <2>1, <1>a DEF StartDrain, TypeOK
<1>7. CASE LeaveForgets
  <2>1. run' \in Run /\ queued' \subseteq Harbor
    BY <1>7, <1>a DEF LeaveForgets, Run
  <2> QED
    BY <1>7, <2>1, <1>a DEF LeaveForgets, TypeOK
<1>8. CASE LeaveDetaches
  <2>1. run' \in Run
    BY <1>8, Plans DEF LeaveDetaches
  <2>2. members' \subseteq Harbor
    BY <1>8, <1>a DEF LeaveDetaches
  <2> QED
    BY <1>8, <2>1, <2>2, <1>a DEF LeaveDetaches, TypeOK
<1>9. CASE Unlinked
  <2>1. run' \in Run
    BY <1>9, <1>a, <1>b DEF Unlinked, Run
  <2> QED
    BY <1>9, <2>1, <1>a DEF Unlinked, TypeOK
<1>10. CASE DrainDisable
  <2>1. run' = [run EXCEPT !.pc = "delete"] \/ run' = [run EXCEPT !.pc = "forget"]
    BY <1>10 DEF DrainDisable
  <2>2. run' \in Run
    BY <2>1, <1>a DEF Run
  <2>3. object' = object \/ object' = [object EXCEPT ![run.clean.edge].on = FALSE]
    BY <1>10 DEF DrainDisable
  <2>4. object' \in [Edge -> Object]
    BY <2>3, <1>10, <1>a, <1>d DEF Object, DrainDisable, Drains
  <2> QED
    BY <1>10, <2>2, <2>4, <1>a DEF DrainDisable, TypeOK
<1>11. CASE DrainDelete
  <2>1. run' \in Run
    BY <1>11, <1>a DEF DrainDelete, Run
  <2>2. object' \in [Edge -> Object]
    BY <1>11, <1>a, <1>d DEF Object, DrainDelete, Drains, Ids
  <2> QED
    BY <1>11, <2>1, <2>2, <1>a DEF DrainDelete, TypeOK
<1>12. CASE DrainForget
  <2>1. PICK c : c = [run.clean EXCEPT !.pol = None]
    OBVIOUS
  <2>2. c \in Cleanup
    BY <1>12, <2>1, <1>d DEF DrainForget, Drains, Cleanup, Ids
  <2>3. run' = [run EXCEPT !.pc = FirstStep(c), !.clean = c]
        /\ cleanup' = (cleanup \ {run.clean}) \union {c}
    BY <1>12, <2>1 DEF DrainForget
  <2>4. run' \in Run /\ cleanup' \subseteq Cleanup
    BY <2>2, <2>3, <1>a, FirstSteps DEF Run
  <2> QED
    BY <1>12, <2>4, <1>a DEF DrainForget, TypeOK
<1>13. CASE DrainRemove
  <2>1. run' \in Run
    BY <1>13, <1>a DEF DrainRemove, Run
  <2>2. PICK o : o = IF object[run.clean.edge].ep = run.clean.ep
                     THEN [object[run.clean.edge] EXCEPT !.ep = None, !.login = None]
                     ELSE object[run.clean.edge]
    OBVIOUS
  <2>3. run.clean.edge \in Edge
    BY <1>13, <1>d DEF DrainRemove, Drains
  <2>4. o \in Object
    BY <2>2, <2>3, <1>a DEF Object, Ids
  <2>5. object' = [object EXCEPT ![run.clean.edge] = o]
    BY <1>13, <2>2 DEF DrainRemove
  <2> QED
    BY <1>13, <2>1, <2>4, <2>5, <1>a DEF DrainRemove, TypeOK
<1>14. CASE DrainClose
  <2>1. run' \in Run /\ cleanup' \subseteq Cleanup
    BY <1>14, <1>a, Left DEF DrainClose
  <2> QED
    BY <1>14, <2>1, <1>a DEF DrainClose, TypeOK
<1>15. CASE DrainFails
  <2>1. run' \in Run
    BY <1>15, <1>a, Left DEF DrainFails
  <2> QED
    BY <1>15, <2>1, <1>a DEF DrainFails, TypeOK
<1>16. CASE ApplyEndpoint
  <2>1. PICK id : id = IF object[run.at].ep # None THEN object[run.at].ep ELSE epoch[run.at[1]]
    OBVIOUS
  <2>2. run.at \in Edge
    BY <1>16, <1>c DEF ApplyEndpoint, Applies
  <2>3. id \in Ids
    <3>1. object[run.at].ep \in Ids
      BY <2>2, <1>a DEF Object
    <3>2. epoch[run.at[1]] \in Ids
      BY <2>2, <1>a, Ends DEF Ids
    <3> QED
      BY <2>1, <3>1, <3>2
  <2>4. run' = [run EXCEPT !.pc = "record", !.ep = id]
        /\ object' = [object EXCEPT ![run.at].ep = id, ![run.at].login = run.want]
    BY <1>16, <2>1 DEF ApplyEndpoint
  <2>5. run' \in Run
    BY <2>3, <2>4, <1>a DEF Run
  <2>6. object' \in [Edge -> Object]
    BY <2>2, <2>3, <2>4, <1>a, <1>b DEF Object
  <2> QED
    BY <1>16, <2>5, <2>6, <1>a DEF ApplyEndpoint, TypeOK
<1>17. CASE ApplyRecord
  <2>1. run' \in Run
    BY <1>17, <1>a DEF ApplyRecord, Run
  <2>2. run.at \in Edge
    BY <1>17, <1>c DEF ApplyRecord, Applies
  <2>3. PICK l : l = [link[run.at] EXCEPT !.ep = run.ep, !.fp = None,
                        !.status = IF link[run.at].status = "NONE" THEN "PENDING"
                                   ELSE link[run.at].status]
    OBVIOUS
  <2>4. l \in Link
    BY <2>2, <2>3, <1>a, <1>b DEF Link
  <2>5. link' = [link EXCEPT ![run.at] = l]
    BY <1>17, <2>3 DEF ApplyRecord
  <2> QED
    BY <1>17, <2>1, <2>4, <2>5, <1>a DEF ApplyRecord, TypeOK
<1>18. CASE ApplyPolicy
  <2>1. PICK id : id = IF object[run.at].pol # None THEN object[run.at].pol ELSE epoch[run.at[1]]
    OBVIOUS
  <2>2. run.at \in Edge
    BY <1>18, <1>c DEF ApplyPolicy, Reachable, Applies
  <2>3. id \in Ids
    <3>1. object[run.at].pol \in Ids
      BY <2>2, <1>a DEF Object
    <3>2. epoch[run.at[1]] \in Ids
      BY <2>2, <1>a, Ends DEF Ids
    <3> QED
      BY <2>1, <3>1, <3>2
  <2>4. run' = [run EXCEPT !.pc = "activate", !.pol = id]
        /\ object' = [object EXCEPT ![run.at].pol = id, ![run.at].on = TRUE]
    BY <1>18, <2>1 DEF ApplyPolicy
  <2>5. run' \in Run
    BY <2>3, <2>4, <1>a DEF Run
  <2>6. object' \in [Edge -> Object]
    BY <2>2, <2>3, <2>4, <1>a DEF Object
  <2> QED
    BY <1>18, <2>5, <2>6, <1>a DEF ApplyPolicy, TypeOK
<1>19. CASE ApplyActivates
  <2>1. PICK l : l = [status |-> "ACTIVE", ep |-> run.ep, pol |-> run.pol,
                      fp |-> run.want, recent |-> TRUE]
    OBVIOUS
  <2>2. l \in Link
    BY <2>1, <1>b DEF Link
  <2>3. link' = [link EXCEPT ![run.at] = l] /\ strays' \subseteq Edge
    BY <1>19, <2>1, <1>a DEF ApplyActivates
  <2>4. run' \in Run
    BY <1>19, <1>a DEF ApplyActivates, Run, Ids
  <2> QED
    BY <1>19, <2>2, <2>3, <2>4, <1>a DEF ApplyActivates, TypeOK
<1>20. CASE ApplyFails
  <2>1. run.at \in Edge /\ FailEdge(run.at)
    BY <1>20, <1>c DEF ApplyFails, Applies
  <2>2. link' \in [Edge -> Link] /\ run' \in Run
    BY <2>1, FailsEdge DEF RunInv
  <2>3. strays' \subseteq Edge
    BY <1>20, <2>1, <1>a DEF ApplyFails, Straying
  <2> QED
    BY <1>20, <2>2, <2>3, <1>a DEF ApplyFails, TypeOK
<1>21. CASE SyncEnds
  <2>1. run' \in Run /\ queued' \subseteq Harbor
    BY <1>21, <1>a, <1>b, IdleIsRun DEF SyncEnds
  <2> QED
    BY <1>21, <2>1, <1>a DEF SyncEnds, TypeOK
<1>22. ASSUME NEW e \in Edge, Unlink(e) PROVE TypeOK'
  <2>1. PICK c : c = [edge |-> e, ep |-> link[e].ep, pol |-> link[e].pol]
    OBVIOUS
  <2>2. c \in Cleanup
    BY <2>1, <1>a DEF Cleanup, Link
  <2>3. /\ cleanup' = cleanup \union {c} /\ link' = [link EXCEPT ![e] = NoLink]
        /\ run' = [run EXCEPT !.pc = FirstStep(c), !.clean = c, !.drops = run.drops \ {e}]
    BY <1>22, <2>1 DEF Unlink
  <2>4. run' \in Run
    BY <2>2, <2>3, <1>a, FirstSteps DEF Run
  <2>5. link' \in [Edge -> Link] /\ cleanup' \subseteq Cleanup
    BY <2>2, <2>3, <1>a, <1>e
  <2> QED
    BY <1>22, <2>4, <2>5, <1>a DEF Unlink, TypeOK
<1>23. ASSUME NEW e \in Edge, ApplyRefused(e) PROVE TypeOK'
  <2>1. link' \in [Edge -> Link] /\ run' \in Run
    BY <1>23, FailsEdge DEF RunInv, ApplyRefused
  <2> QED
    BY <1>23, <2>1, <1>a DEF ApplyRefused, TypeOK
<1>24. ASSUME NEW e \in Edge, ApplySkips(e) PROVE TypeOK'
  <2>1. run' \in Run
    BY <1>24, <1>a DEF ApplySkips, Run
  <2> QED
    BY <1>24, <2>1, <1>a DEF ApplySkips, TypeOK
<1>25. ASSUME NEW e \in Edge, ApplyReads(e) PROVE TypeOK'
  <2>1. login[e[2]] \in Login
    BY <1>a, Ends
  <2>2. run' \in Run
    BY <1>25, <2>1, <1>a DEF ApplyReads, Run
  <2> QED
    BY <1>25, <2>2, <1>a DEF ApplyReads, TypeOK
<1>26. CASE Crash
  <2>1. strays' \subseteq Edge
    BY <1>26, <1>a, <1>c DEF Crash, Straying, Applies
  <2>2. crashes' \in 0..MaxCrashes /\ run' \in Run
    BY <1>26, <1>a, IdleIsRun DEF Crash, Sorts
  <2> QED
    BY <1>26, <2>1, <2>2, <1>a DEF Crash, TypeOK
<1>27. ASSUME NEW h \in Harbor, NewLogin(h) PROVE TypeOK'
  <2>1. login[h] + 1 \in Login
    BY <1>27, <1>a DEF NewLogin, Login, Sorts
  <2>2. login' \in [Harbor -> Login]
    BY <1>27, <2>1, <1>a DEF NewLogin
  <2> QED
    BY <1>27, <2>2, <1>a DEF NewLogin, TypeOK
<1>28. ASSUME NEW h \in Harbor, Rebuild(h) PROVE TypeOK'
  <2>1. epoch[h] + 1 \in Id
    BY <1>28, <1>a DEF Rebuild, Id, Sorts
  <2>2. epoch' \in [Harbor -> Id]
    BY <1>28, <2>1, <1>a DEF Rebuild
  <2>3. object' \in [Edge -> Object]
    BY <1>28, <1>a, <1>e DEF Rebuild
  <2>4. foreign' \subseteq foreign
    BY <1>28 DEF Rebuild
  <2> QED
    BY <1>28, <2>2, <2>3, <2>4, <1>a DEF Rebuild, TypeOK
<1>29. ASSUME NEW e \in Edge, Elapse(e) PROVE TypeOK'
  <2>1. link' \in [Edge -> Link]
    BY <1>29, <1>a DEF Elapse, Link
  <2> QED
    BY <1>29, <2>1, <1>a DEF Elapse, TypeOK
<1>30. CASE Heal
  BY <1>30, <1>a DEF Heal, TypeOK
<1>31. CASE DrainBarred
  <2>1. run' \in Run
    BY <1>31, <1>a, Left DEF DrainBarred
  <2> QED
    BY <1>31, <2>1, <1>a DEF DrainBarred, TypeOK
<1>32. ASSUME NEW e \in Edge, NEW kind \in {"ep", "pol"}, NEW id \in Id, Reuse(e, kind, id)
       PROVE  TypeOK'
  <2>1. foreign' \subseteq Edge \X {"ep", "pol"} \X Id
    BY <1>32, <1>a DEF Reuse
  <2> QED
    BY <1>32, <2>1, <1>a DEF Reuse, TypeOK
<1> QED
  BY <1>1, <1>2, <1>3, <1>4, <1>5, <1>6, <1>7, <1>8, <1>9, <1>10, <1>11, <1>12, <1>13, <1>14,
     <1>15, <1>16, <1>17, <1>18, <1>19, <1>20, <1>21, <1>22, <1>23, <1>24, <1>25, <1>26, <1>27,
     <1>28, <1>29, <1>30, <1>31, <1>32 DEF Next, RunStep

-----------------------------------------------------------------------------
(* Steps that touch no link, object, login or cleanup.                     *)

Others == CleanupSparesLinks /\ FpIsPast /\ Wiring /\ Remembered

\* What the invariant takes from the types.
LEMMA Typed ==
  ASSUME Sorts, MeshInv
  PROVE  /\ login \in [Harbor -> Login] /\ link \in [Edge -> Link] /\ cleanup \subseteq Cleanup
         /\ object \in [Edge -> Object] /\ epoch \in [Harbor -> Id] /\ run \in Run
         /\ strays \subseteq Edge
         /\ run.at \in Edge \union {None} /\ (run.pc \in Applies => run.at \in Edge)
         /\ run.pc \in Drains => /\ run.clean \in cleanup /\ run.clean.edge \in Edge
                                 /\ run.clean.ep \in Ids /\ run.clean.pol \in Ids
         /\ \A h \in Harbor : login[h] \in Nat
<1>1. /\ login \in [Harbor -> Login] /\ link \in [Edge -> Link] /\ cleanup \subseteq Cleanup
      /\ object \in [Edge -> Object] /\ epoch \in [Harbor -> Id] /\ run \in Run
      /\ strays \subseteq Edge
  BY DEF MeshInv, RunInv, TypeOK
<1>2. run.at \in Edge \union {None}
  BY <1>1 DEF Run
<1>3. run.pc \in Applies => run.at \in Edge
  BY <1>2 DEF MeshInv, RunInv, EdgeIsHeld
<1>4. run.pc \in Drains => run.clean \in cleanup
  BY DEF MeshInv, RunInv, RowIsHeld
<1>5. \A c \in cleanup : c.edge \in Edge /\ c.ep \in Ids /\ c.pol \in Ids
  BY <1>1 DEF Cleanup
<1>6. \A h \in Harbor : login[h] \in Nat
  BY <1>1 DEF Login
<1> QED
  BY <1>1, <1>2, <1>3, <1>4, <1>5, <1>6

\* A run may put down what it has in hand, when what it has not recorded counts as stray.
LEMMA Elsewhere ==
  ASSUME Sorts, MeshInv, UNCHANGED <<link, object, login, cleanup>>, strays \subseteq strays',
         run.pc \in {"record", "activate"} => run.at \in strays'
  PROVE  Others'
<1>1. CleanupSparesLinks' /\ FpIsPast'
  BY DEF MeshInv, CleanupSparesLinks, FpIsPast
<1>2. Wiring'
  BY DEF MeshInv, Wiring, Wired, Halfway
<1>3. Remembered'
  BY DEF MeshInv, Remembered, EpKnown, PolKnown, Halfway
<1> QED
  BY <1>1, <1>2, <1>3 DEF Others

\* Such a step that leaves the run with nothing in hand keeps the invariant.
LEMMA Away ==
  ASSUME Sorts, MeshInv, TypeOK', UNCHANGED <<link, object, login, cleanup>>,
         strays \subseteq strays', run.pc \in {"record", "activate"} => run.at \in strays',
         run'.at = None, run'.pc \notin Applies \union Drains
  PROVE  MeshInv'
<1>1. EdgeIsHeld' /\ EdgeIsMade' /\ RowIsHeld'
  BY DEF EdgeIsHeld, EdgeIsMade, RowIsHeld, Applies, Drains
<1> QED
  BY <1>1, Elsewhere DEF MeshInv, RunInv, Others

\* The invariant is about these variables only.
LEMMA Stays ==
  ASSUME MeshInv, TypeOK', UNCHANGED <<link, object, login, cleanup, run, strays>>
  PROVE  MeshInv'
  BY DEF MeshInv, RunInv, EdgeIsHeld, EdgeIsMade, RowIsHeld, CleaningUp, CleanupSparesLinks,
         FpIsPast, Wiring, Wired, Remembered, EpKnown, PolKnown, Halfway

\* Runs that begin, that pass from one phase to the next, that end, and that die.
LEMMA PhaseNext ==
  ASSUME Sorts, MeshInv, TypeOK',
         \/ \E force \in BOOLEAN : StartSync(force)
         \/ \E h \in Harbor : StartReplay(h) \/ Join(h) \/ Leave(h)
         \/ SwitchMode \/ LeaveForgets \/ LeaveDetaches \/ Unlinked \/ SyncEnds
         \/ \E e \in Edge : ApplySkips(e)
         \/ DrainFails \/ DrainBarred \/ Crash \/ Heal
  PROVE  MeshInv'
<1>a. run \in Run /\ run.then \in {"idle", "leave", "edges"} /\ strays \subseteq Edge
  BY Typed DEF Run
<1>b. run.pc \notin Applies => run.at = None
  BY DEF MeshInv, RunInv, EdgeIsHeld
<1>c. None \in Harbor \union {None} /\ TRUE \in BOOLEAN /\ FALSE \in BOOLEAN
  OBVIOUS
<1>1. ASSUME NEW force \in BOOLEAN, StartSync(force) PROVE MeshInv'
  <2>1. run'.at = None /\ run'.pc = "unlink"
    BY <1>1, <1>c, Plans DEF StartSync
  <2> QED
    BY <1>1, <2>1, Away DEF StartSync, Applies, Drains
<1>2. ASSUME NEW h \in Harbor, StartReplay(h) PROVE MeshInv'
  <2>1. CASE h \in members
    <3>1. h \in Harbor \union {None}
      OBVIOUS
    <3>2. run' = Planned(members, on, TRUE, h)
      BY <1>2, <2>1 DEF StartReplay
    <3>3. run'.at = None /\ run'.pc = "unlink"
      BY <1>c, <3>1, <3>2, Plans
    <3> QED
      BY <1>2, <3>3, Away DEF StartReplay, Applies, Drains
  <2>2. CASE h \notin members
    BY <1>2, <2>2, Stays DEF StartReplay
  <2> QED
    BY <2>1, <2>2
<1>3. ASSUME NEW h \in Harbor, Join(h) PROVE MeshInv'
  <2>1. run'.at = None /\ run'.pc = "unlink"
    BY <1>3, <1>c, Plans DEF Join
  <2> QED
    BY <1>3, <2>1, Away DEF Join, Applies, Drains
<1>4. ASSUME NEW h \in Harbor, Leave(h) PROVE MeshInv'
  <2>1. run'.at = None /\ run'.pc = "unlink"
    BY <1>4, IdleIsRun DEF Leave, Run
  <2> QED
    BY <1>4, <2>1, Away DEF Leave, Applies, Drains
<1>5. CASE SwitchMode
  <2>1. run'.at = None /\ run'.pc = "unlink"
    BY <1>5, <1>c, Plans DEF SwitchMode
  <2> QED
    BY <1>5, <2>1, Away DEF SwitchMode, Applies, Drains
<1>6. CASE LeaveForgets
  <2>1. run'.at = run.at /\ run'.pc = "detach" /\ run.pc = "leave"
    BY <1>6, <1>a DEF LeaveForgets, Run
  <2> QED
    BY <1>6, <1>b, <2>1, Away DEF LeaveForgets, Applies, Drains
<1>7. CASE LeaveDetaches
  <2>1. run'.at = None /\ run'.pc = "unlink" /\ run.pc = "detach"
    BY <1>7, <1>c, Plans DEF LeaveDetaches
  <2> QED
    BY <1>7, <2>1, Away DEF LeaveDetaches, Applies, Drains
<1>8. CASE Unlinked
  <2>1. run'.at = run.at /\ run'.pc \in {"idle", "leave", "edges"} /\ run.pc = "unlink"
    BY <1>8, <1>a DEF Unlinked, Run
  <2> QED
    BY <1>8, <1>b, <2>1, Away DEF Unlinked, Applies, Drains
<1>9. CASE SyncEnds
  <2>1. run'.at = None /\ run'.pc = "idle" /\ run.pc = "edges"
    BY <1>9, IdleIsRun DEF SyncEnds
  <2> QED
    BY <1>9, <2>1, Away DEF SyncEnds, Applies, Drains
<1>10. ASSUME NEW e \in Edge, ApplySkips(e) PROVE MeshInv'
  <2>1. run'.at = run.at /\ run'.pc = "edges" /\ run.pc = "edges"
    BY <1>10, <1>a DEF ApplySkips, Run
  <2> QED
    BY <1>10, <1>b, <2>1, Away DEF ApplySkips, Applies, Drains
<1>11. CASE DrainFails
  <2>1. run.pc \in Drains /\ run' = Leaving(run.clean)
    BY <1>11 DEF DrainFails, Drains
  <2>2. run.at = None
    BY <1>b, <2>1 DEF Applies, Drains
  <2>3. run'.at = None /\ run'.pc \in {"idle", "unlink"}
    BY <1>a, <2>1, <2>2, Left
  <2> QED
    BY <1>11, <2>1, <2>3, Away DEF DrainFails, Applies, Drains
<1>12. CASE Crash
  <2>1. run'.at = None /\ run'.pc = "idle"
    BY <1>12, IdleIsRun DEF Crash
  <2>2. strays \subseteq strays' /\ (run.pc \in {"record", "activate"} => run.at \in strays')
    BY <1>12 DEF Crash, Straying
  <2> QED
    BY <1>12, <2>1, <2>2, Away DEF Crash, Applies, Drains
<1>13. CASE Heal
  BY <1>13, Stays DEF Heal
<1>14. CASE DrainBarred
  <2>1. run.pc \in Drains /\ run' = Leaving(run.clean)
    BY <1>14 DEF DrainBarred, Drains
  <2>2. run.at = None
    BY <1>b, <2>1 DEF Applies, Drains
  <2>3. run'.at = None /\ run'.pc \in {"idle", "unlink"}
    BY <1>a, <2>1, <2>2, Left
  <2> QED
    BY <1>14, <2>1, <2>3, Away DEF DrainBarred, Applies, Drains
<1> QED
  BY <1>1, <1>2, <1>3, <1>4, <1>5, <1>6, <1>7, <1>8, <1>9, <1>10, <1>11, <1>12, <1>13, <1>14

-----------------------------------------------------------------------------
(* Removing.                                                               *)

\* A drain takes from what the Harbor holds for an edge that no live link is of.
LEMMA Drained ==
  ASSUME Sorts, MeshInv, run.pc \in Drains,
         \A e \in Edge \ {run.clean.edge} : object'[e] = object[e],
         object'[run.clean.edge].ep \in {object[run.clean.edge].ep, None},
         object'[run.clean.edge].pol \in {object[run.clean.edge].pol, None},
         object'[run.clean.edge].on => object[run.clean.edge].on,
         UNCHANGED <<link, login, cleanup, strays>>
  PROVE  Others'
<1>1. run.clean \in cleanup /\ run.clean.edge \in Edge /\ run.pc \notin {"record", "activate"}
  BY Typed DEF Drains
<1>2. CleanupSparesLinks' /\ FpIsPast'
  BY DEF MeshInv, CleanupSparesLinks, FpIsPast
<1>3. Wiring'
  BY <1>1 DEF MeshInv, CleanupSparesLinks, Wiring, Wired, Halfway
<1>4. Remembered'
  BY <1>1 DEF MeshInv, Remembered, EpKnown, PolKnown, Halfway
<1> QED
  BY <1>2, <1>3, <1>4 DEF Others

\* The steps of a drain, and those that begin and end it.
LEMMA DrainNext ==
  ASSUME Sorts, MeshInv, TypeOK',
         \/ \E c \in cleanup : StartDrain(c)
         \/ \E e \in Edge : Unlink(e)
         \/ DrainDisable \/ DrainDelete \/ DrainForget \/ DrainRemove \/ DrainClose
  PROVE  MeshInv'
<1>a. /\ link \in [Edge -> Link] /\ cleanup \subseteq Cleanup /\ object \in [Edge -> Object]
      /\ run \in Run
      /\ run.pc \in Drains => /\ run.clean \in cleanup /\ run.clean.edge \in Edge
                              /\ run.clean.ep \in Ids /\ run.clean.pol \in Ids
  BY Typed
<1>b. run.pc \notin Applies => run.at = None
  BY DEF MeshInv, RunInv, EdgeIsHeld
<1>c. CleanupSparesLinks /\ FpIsPast /\ Wiring /\ Remembered /\ RowIsHeld
  BY DEF MeshInv, RunInv
<1>1. ASSUME NEW c \in cleanup, StartDrain(c) PROVE MeshInv'
  <2>1. run.pc = "idle" /\ run' = [IdleRun EXCEPT !.pc = FirstStep(c), !.clean = c]
        /\ UNCHANGED <<link, object, login, cleanup, strays>>
    BY <1>1 DEF StartDrain
  <2>2. run'.pc = FirstStep(c) /\ run'.clean = c /\ run'.at = None
    BY <2>1, IdleIsRun DEF Run
  <2>3. EdgeIsHeld' /\ EdgeIsMade' /\ RowIsHeld'
    BY <2>1, <2>2, FirstSteps DEF EdgeIsHeld, EdgeIsMade, RowIsHeld, Applies, Drains
  <2> QED
    BY <2>1, <2>3, Elsewhere DEF MeshInv, RunInv, Others
<1>2. ASSUME NEW e \in Edge, Unlink(e) PROVE MeshInv'
  <2>1. PICK c : c = [edge |-> e, ep |-> link[e].ep, pol |-> link[e].pol]
    OBVIOUS
  <2>2. /\ run.pc = "unlink" /\ cleanup' = cleanup \union {c}
        /\ link' = [link EXCEPT ![e] = NoLink]
        /\ run' = [run EXCEPT !.pc = FirstStep(c), !.clean = c, !.drops = run.drops \ {e}]
        /\ UNCHANGED <<object, login, strays>>
    BY <1>2, <2>1 DEF Unlink
  <2>3. run.at = None /\ run.pc \notin {"record", "activate"}
    BY <1>b, <2>2 DEF Applies
  <2>4. run'.pc = FirstStep(c) /\ run'.clean = c /\ run'.at = None
    BY <1>a, <2>2, <2>3 DEF Run
  <2>5. EdgeIsHeld' /\ EdgeIsMade' /\ RowIsHeld'
    BY <2>2, <2>4, FirstSteps DEF EdgeIsHeld, EdgeIsMade, RowIsHeld, Applies, Drains
  <2>6. /\ link'[e] = NoLink /\ \A x \in Edge \ {e} : link'[x] = link[x]
        /\ c.edge = e /\ c.ep = link[e].ep /\ c.pol = link[e].pol
    BY <1>a, <2>1, <2>2
  <2>7. NoLink.status # "ACTIVE" /\ NoLink.fp = None /\ NoLink.ep = None /\ NoLink.pol = None
    BY DEF NoLink
  <2>8. CleanupSparesLinks' /\ FpIsPast'
    BY <1>c, <2>2, <2>6, <2>7 DEF CleanupSparesLinks, FpIsPast
  <2>9. Wiring'
    BY <1>c, <2>2, <2>3, <2>6, <2>7 DEF Wiring, Wired, Halfway
  <2>10. Remembered'
    BY <1>c, <2>2, <2>3, <2>6, <2>7 DEF Remembered, EpKnown, PolKnown, Halfway
  <2> QED
    BY <2>5, <2>8, <2>9, <2>10 DEF MeshInv, RunInv
<1>3. CASE DrainDisable
  <2>1. run.pc = "disable" /\ run.clean \in cleanup /\ run.clean.edge \in Edge /\ run.at = None
        /\ run.clean.pol # None /\ UNCHANGED <<link, login, cleanup, strays>>
    BY <1>3, <1>a, <1>b, <1>c DEF DrainDisable, Applies, Drains, RowIsHeld
  <2>2. /\ \A e \in Edge \ {run.clean.edge} : object'[e] = object[e]
        /\ object'[run.clean.edge].ep = object[run.clean.edge].ep
        /\ object'[run.clean.edge].pol = object[run.clean.edge].pol
        /\ object'[run.clean.edge].on => object[run.clean.edge].on
    BY <1>3, <1>a, <2>1 DEF DrainDisable, Object
  <2>3. Others'
    BY <2>1, <2>2, Drained DEF Drains
  <2>4. /\ run'.pc \in {"delete", "forget"} /\ run'.at = None /\ run'.clean = run.clean
        /\ run'.pc = "forget" => object[run.clean.edge].pol # run.clean.pol
    BY <1>3, <1>a, <2>1 DEF DrainDisable, Run
  <2>5. EdgeIsHeld' /\ EdgeIsMade' /\ RowIsHeld'
    BY <2>1, <2>2, <2>4 DEF EdgeIsHeld, EdgeIsMade, RowIsHeld, Applies, Drains
  <2> QED
    BY <2>3, <2>5 DEF MeshInv, RunInv, Others
<1>4. CASE DrainDelete
  <2>1. run.pc = "delete" /\ run.clean \in cleanup /\ run.clean.edge \in Edge /\ run.at = None
        /\ run.clean.pol # None /\ UNCHANGED <<link, login, cleanup, strays>>
    BY <1>4, <1>a, <1>b, <1>c DEF DrainDelete, Applies, Drains, RowIsHeld
  <2>2. /\ \A e \in Edge \ {run.clean.edge} : object'[e] = object[e]
        /\ object'[run.clean.edge].ep = object[run.clean.edge].ep
        /\ object'[run.clean.edge].pol = None
        /\ object'[run.clean.edge].on => object[run.clean.edge].on
    BY <1>4, <1>a, <2>1 DEF DrainDelete, Object
  <2>3. Others'
    BY <2>1, <2>2, Drained DEF Drains
  <2>4. run'.pc = "forget" /\ run'.at = None /\ run'.clean = run.clean
    BY <1>4, <1>a, <2>1 DEF DrainDelete, Run
  <2>5. EdgeIsHeld' /\ EdgeIsMade' /\ RowIsHeld'
    BY <2>1, <2>2, <2>4 DEF EdgeIsHeld, EdgeIsMade, RowIsHeld, Applies, Drains
  <2> QED
    BY <2>3, <2>5 DEF MeshInv, RunInv, Others
<1>5. CASE DrainForget
  <2>1. PICK c : c = [run.clean EXCEPT !.pol = None]
    OBVIOUS
  <2>2. /\ run.pc = "forget" /\ cleanup' = (cleanup \ {run.clean}) \union {c}
        /\ run' = [run EXCEPT !.pc = FirstStep(c), !.clean = c]
        /\ UNCHANGED <<link, object, login, strays>>
    BY <1>5, <2>1 DEF DrainForget
  <2>3. /\ run.clean \in cleanup /\ run.clean.edge \in Edge /\ run.at = None
        /\ object[run.clean.edge].pol # run.clean.pol /\ run.pc \notin {"record", "activate"}
    BY <1>a, <1>b, <1>c, <2>2 DEF Applies, Drains, RowIsHeld
  <2>4. c.edge = run.clean.edge /\ c.ep = run.clean.ep /\ c.pol = None
    BY <1>a, <2>1, <2>3 DEF Cleanup
  <2>5. run'.pc = FirstStep(c) /\ run'.clean = c /\ run'.at = None
    BY <1>a, <2>2, <2>3 DEF Run
  <2>6. EdgeIsHeld' /\ EdgeIsMade' /\ RowIsHeld'
    BY <2>2, <2>4, <2>5, FirstSteps DEF EdgeIsHeld, EdgeIsMade, RowIsHeld, Applies, Drains
  <2>7. CleanupSparesLinks' /\ FpIsPast'
    BY <1>c, <2>2, <2>3, <2>4 DEF CleanupSparesLinks, FpIsPast
  <2>8. Wiring'
    BY <1>c, <2>2, <2>3 DEF Wiring, Wired, Halfway
  <2>9. \A e \in Edge : \A i : EpKnown(e, i) => EpKnown(e, i)'
    BY <2>2, <2>4 DEF EpKnown
  <2>10. \A e \in Edge : PolKnown(e, object[e].pol) => PolKnown(e, object[e].pol)'
    BY <2>2, <2>3 DEF PolKnown
  <2>11. Remembered'
    BY <1>c, <2>2, <2>3, <2>9, <2>10 DEF Remembered, Halfway
  <2> QED
    BY <2>6, <2>7, <2>8, <2>11 DEF MeshInv, RunInv
<1>6. CASE DrainRemove
  <2>1. run.pc = "remove" /\ run.clean \in cleanup /\ run.clean.edge \in Edge /\ run.at = None
        /\ run.clean.pol = None /\ run.clean.ep # None /\ UNCHANGED <<link, login, cleanup, strays>>
    BY <1>6, <1>a, <1>b, <1>c DEF DrainRemove, Applies, Drains, RowIsHeld
  <2>2. PICK o : o = IF object[run.clean.edge].ep = run.clean.ep
                     THEN [object[run.clean.edge] EXCEPT !.ep = None, !.login = None]
                     ELSE object[run.clean.edge]
    OBVIOUS
  <2>3. object' = [object EXCEPT ![run.clean.edge] = o]
    BY <1>6, <2>2 DEF DrainRemove
  <2>4. /\ o.ep \in {object[run.clean.edge].ep, None} /\ o.ep # run.clean.ep
        /\ o.pol = object[run.clean.edge].pol /\ o.on = object[run.clean.edge].on
    BY <1>a, <2>1, <2>2 DEF Object
  <2>5. /\ \A e \in Edge \ {run.clean.edge} : object'[e] = object[e]
        /\ object'[run.clean.edge] = o
    BY <1>a, <2>1, <2>3
  <2>6. Others'
    BY <2>1, <2>4, <2>5, Drained DEF Drains
  <2>7. run'.pc = "close" /\ run'.at = None /\ run'.clean = run.clean
    BY <1>6, <1>a, <2>1 DEF DrainRemove, Run
  <2>8. EdgeIsHeld' /\ EdgeIsMade' /\ RowIsHeld'
    BY <2>1, <2>4, <2>5, <2>7 DEF EdgeIsHeld, EdgeIsMade, RowIsHeld, Applies, Drains
  <2> QED
    BY <2>6, <2>8 DEF MeshInv, RunInv, Others
<1>7. CASE DrainClose
  <2>1. /\ run.pc = "close" /\ cleanup' = cleanup \ {run.clean} /\ run' = Leaving(run.clean)
        /\ UNCHANGED <<link, object, login, strays>>
    BY <1>7 DEF DrainClose
  <2>2. /\ run.clean.edge \in Edge /\ run.at = None /\ run.pc \notin {"record", "activate"}
        /\ run.clean.pol = None
        /\ run.clean.ep = None \/ object[run.clean.edge].ep # run.clean.ep
    BY <1>a, <1>b, <1>c, <2>1 DEF Applies, Drains, RowIsHeld
  <2>3. run'.at = None /\ run'.pc \in {"idle", "unlink"}
    BY <1>a, <2>1, <2>2, Left
  <2>4. EdgeIsHeld' /\ EdgeIsMade' /\ RowIsHeld'
    BY <2>3 DEF EdgeIsHeld, EdgeIsMade, RowIsHeld, Applies, Drains
  <2>5. CleanupSparesLinks' /\ FpIsPast'
    BY <1>c, <2>1 DEF CleanupSparesLinks, FpIsPast
  <2>6. Wiring'
    BY <1>c, <2>1, <2>2 DEF Wiring, Wired, Halfway
  <2>7. \A e \in Edge : object[e].ep # None /\ EpKnown(e, object[e].ep)
                          => EpKnown(e, object[e].ep)'
    BY <2>1, <2>2 DEF EpKnown
  <2>8. \A e \in Edge : object[e].pol # None /\ PolKnown(e, object[e].pol)
                          => PolKnown(e, object[e].pol)'
    BY <2>1, <2>2 DEF PolKnown
  <2>9. Remembered'
    BY <1>c, <2>1, <2>2, <2>7, <2>8 DEF Remembered, Halfway
  <2> QED
    BY <2>4, <2>5, <2>6, <2>9 DEF MeshInv, RunInv
<1> QED
  BY <1>1, <1>2, <1>3, <1>4, <1>5, <1>6, <1>7

-----------------------------------------------------------------------------
(* Applying an edge.                                                       *)

\* An edge that fails keeps the ids its link has; what it has not recorded counts as stray.
LEMMA FailingNext ==
  ASSUME Sorts, MeshInv, TypeOK', NEW e \in Edge, FailEdge(e),
         UNCHANGED <<object, login, cleanup>>, strays \subseteq strays',
         run.pc \in {"record", "activate"} => run.at \in strays'
  PROVE  MeshInv'
<1>1. /\ run'.pc = "edges" /\ run'.at = None
      /\ \A x \in Edge \ {e} : link'[x] = link[x]
      /\ link'[e].status = "FAILED" /\ link'[e].fp = None
      /\ link'[e].ep = link[e].ep /\ link'[e].pol = link[e].pol
  BY FailsEdge DEF MeshInv, RunInv
<1>2. EdgeIsHeld' /\ EdgeIsMade' /\ RowIsHeld'
  BY <1>1 DEF EdgeIsHeld, EdgeIsMade, RowIsHeld, Applies, Drains
<1>3. CleanupSparesLinks' /\ FpIsPast'
  BY <1>1 DEF MeshInv, CleanupSparesLinks, FpIsPast
<1>4. Wiring'
  BY <1>1 DEF MeshInv, Wiring, Wired, Halfway
<1>5. Remembered'
  BY <1>1 DEF MeshInv, Remembered, EpKnown, PolKnown, Halfway
<1> QED
  BY <1>2, <1>3, <1>4, <1>5 DEF MeshInv, RunInv

\* The steps of a run that applies an edge.
LEMMA ApplyNext ==
  ASSUME Sorts, MeshInv, TypeOK',
         \/ \E e \in Edge : ApplyRefused(e) \/ ApplyReads(e)
         \/ ApplyEndpoint \/ ApplyRecord \/ ApplyPolicy \/ ApplyActivates \/ ApplyFails
  PROVE  MeshInv'
<1>a. /\ link \in [Edge -> Link] /\ object \in [Edge -> Object] /\ run \in Run
      /\ login \in [Harbor -> Login] /\ epoch \in [Harbor -> Id] /\ strays \subseteq Edge
      /\ run.pc \in Applies => run.at \in Edge
      /\ \A h \in Harbor : login[h] \in Nat
  BY Typed
<1>b. run.pc \notin Applies => run.at = None
  BY DEF MeshInv, RunInv, EdgeIsHeld
<1>c. /\ CleanupSparesLinks /\ FpIsPast /\ Wiring /\ Remembered
      /\ EdgeIsHeld /\ EdgeIsMade
  BY DEF MeshInv, RunInv
<1>d. None \notin Edge /\ None \notin Id
  BY DEF Sorts, Id
<1>1. ASSUME NEW e \in Edge, ApplyRefused(e) PROVE MeshInv'
  BY <1>1, FailingNext DEF ApplyRefused
<1>2. ASSUME NEW e \in Edge, ApplyReads(e) PROVE MeshInv'
  <2>1. /\ run.pc = "edges" /\ ~CleaningUp(e)
        /\ run' = [run EXCEPT !.pc = "endpoint", !.at = e, !.want = login[e[2]]]
        /\ UNCHANGED <<login, link, cleanup, object, strays>>
    BY <1>2 DEF ApplyReads
  <2>2. run'.pc = "endpoint" /\ run'.at = e /\ run'.want = login[e[2]]
    BY <1>a, <2>1 DEF Run
  <2>3. login[e[2]] \in Login /\ login[e[2]] <= login[e[2]]
    BY <1>a, Ends DEF Login
  <2>4. EdgeIsHeld' /\ EdgeIsMade' /\ RowIsHeld'
    BY <1>d, <2>1, <2>2, <2>3 DEF EdgeIsHeld, EdgeIsMade, RowIsHeld, CleaningUp, Applies, Drains
  <2>5. Others'
    BY <2>1, Elsewhere
  <2> QED
    BY <2>4, <2>5 DEF MeshInv, RunInv, Others
<1>3. CASE ApplyEndpoint
  <2>1. PICK id : id = IF object[run.at].ep # None THEN object[run.at].ep ELSE epoch[run.at[1]]
    OBVIOUS
  <2>2. run.pc = "endpoint" /\ run.at \in Edge
    BY <1>3, <1>a DEF ApplyEndpoint, Applies
  <2>3. id \in Id
    <3>1. object[run.at].ep \in Ids
      BY <2>2, <1>a DEF Object
    <3>2. epoch[run.at[1]] \in Id
      BY <2>2, <1>a, Ends
    <3> QED
      BY <2>1, <3>1, <3>2 DEF Ids
  <2>4. run' = [run EXCEPT !.pc = "record", !.ep = id]
        /\ object' = [object EXCEPT ![run.at].ep = id, ![run.at].login = run.want]
        /\ UNCHANGED <<link, login, cleanup, strays>>
    BY <1>3, <2>1 DEF ApplyEndpoint
  <2>5. run'.pc = "record" /\ run'.ep = id /\ run'.at = run.at /\ run'.want = run.want
    BY <1>a, <2>4 DEF Run
  <2>6. /\ \A e \in Edge \ {run.at} : object'[e] = object[e]
        /\ object'[run.at].ep = id /\ object'[run.at].login = run.want
        /\ object'[run.at].pol = object[run.at].pol /\ object'[run.at].on = object[run.at].on
    BY <1>a, <2>2, <2>4 DEF Object
  <2>7. EdgeIsHeld' /\ EdgeIsMade' /\ RowIsHeld'
    BY <1>c, <2>2, <2>3, <2>4, <2>5, <2>6
    DEF EdgeIsHeld, EdgeIsMade, RowIsHeld, CleaningUp, Applies, Drains
  <2>8. CleanupSparesLinks' /\ FpIsPast'
    BY <1>c, <2>4 DEF CleanupSparesLinks, FpIsPast
  <2>9. Wiring'
    BY <1>c, <2>2, <2>4, <2>5, <2>6 DEF Wiring, Wired, Halfway
  <2>10. Remembered'
    <3>1. SUFFICES ASSUME NEW e \in Edge
                   PROVE  /\ object'[e].ep # None =>
                               EpKnown(e, object[e].ep)' \/ e \in strays \/ Halfway("record", e)'
                          /\ object'[e].pol # None /\ object'[e].on =>
                               \/ PolKnown(e, object[e].pol)' \/ e \in strays
                               \/ Halfway("activate", e)'
      BY <2>4 DEF Remembered, EpKnown, PolKnown, Halfway
    <3>2. /\ object[e].ep # None => EpKnown(e, object[e].ep) \/ e \in strays
          /\ object[e].pol # None /\ object[e].on => PolKnown(e, object[e].pol) \/ e \in strays
      BY <1>c, <2>2 DEF Remembered, Halfway
    <3>3. CASE e = run.at
      BY <2>4, <2>5, <2>6, <3>2, <3>3 DEF EpKnown, PolKnown, Halfway
    <3>4. CASE e # run.at
      BY <2>4, <2>6, <3>2, <3>4 DEF EpKnown, PolKnown
    <3> QED
      BY <3>3, <3>4
  <2> QED
    BY <2>7, <2>8, <2>9, <2>10 DEF MeshInv, RunInv
<1>4. CASE ApplyRecord
  <2>1. run.pc = "record" /\ run.at \in Edge /\ UNCHANGED <<object, login, cleanup, strays>>
    BY <1>4, <1>a DEF ApplyRecord, Applies
  <2>2. run'.pc = "ping" /\ run'.ep = run.ep /\ run'.at = run.at /\ run'.want = run.want
    BY <1>4, <1>a DEF ApplyRecord, Run
  <2>3. /\ \A e \in Edge \ {run.at} : link'[e] = link[e]
        /\ link'[run.at].ep = run.ep /\ link'[run.at].fp = None
        /\ link'[run.at].pol = link[run.at].pol
        /\ link'[run.at].status = "ACTIVE" => link[run.at].status = "ACTIVE"
    BY <1>4, <1>a, <2>1 DEF ApplyRecord, Link
  <2>4. EdgeIsHeld' /\ EdgeIsMade' /\ RowIsHeld'
    BY <1>c, <2>1, <2>2, <2>3
    DEF EdgeIsHeld, EdgeIsMade, RowIsHeld, CleaningUp, Applies, Drains
  <2>5. CleanupSparesLinks' /\ FpIsPast'
    BY <1>c, <1>d, <2>1, <2>3
    DEF CleanupSparesLinks, FpIsPast, EdgeIsHeld, CleaningUp
  <2>6. \A e \in Edge : link'[e].fp = login[e[2]] => e # run.at
    BY <1>a, <2>3, Ends DEF Sorts
  <2>7. Wiring'
    BY <1>c, <2>1, <2>2, <2>3, <2>6 DEF Wiring, Wired, Halfway
  <2>8. object[run.at].ep # None => object[run.at].ep = run.ep
    BY <1>c, <2>1 DEF EdgeIsMade, NoObject
  <2>9. Remembered'
    BY <1>c, <2>1, <2>2, <2>3, <2>8 DEF Remembered, EpKnown, PolKnown, Halfway
  <2> QED
    BY <2>4, <2>5, <2>7, <2>9 DEF MeshInv, RunInv
<1>5. CASE ApplyPolicy
  <2>1. PICK id : id = IF object[run.at].pol # None THEN object[run.at].pol ELSE epoch[run.at[1]]
    OBVIOUS
  <2>2. run.pc = "ping" /\ run.at \in Edge /\ object[run.at].ep = run.ep
    BY <1>5, <1>a DEF ApplyPolicy, Reachable, Applies
  <2>3. id \in Id
    <3>1. object[run.at].pol \in Ids
      BY <2>2, <1>a DEF Object
    <3>2. epoch[run.at[1]] \in Id
      BY <2>2, <1>a, Ends
    <3> QED
      BY <2>1, <3>1, <3>2 DEF Ids
  <2>4. run' = [run EXCEPT !.pc = "activate", !.pol = id]
        /\ object' = [object EXCEPT ![run.at].pol = id, ![run.at].on = TRUE]
        /\ UNCHANGED <<link, login, cleanup, strays>>
    BY <1>5, <2>1 DEF ApplyPolicy
  <2>5. /\ run'.pc = "activate" /\ run'.pol = id /\ run'.ep = run.ep /\ run'.at = run.at
        /\ run'.want = run.want
    BY <1>a, <2>4 DEF Run
  <2>6. /\ \A e \in Edge \ {run.at} : object'[e] = object[e]
        /\ object'[run.at].ep = object[run.at].ep
        /\ object'[run.at].login = object[run.at].login
        /\ object'[run.at].pol = id /\ object'[run.at].on
    BY <1>a, <2>2, <2>4 DEF Object
  <2>7. /\ run.ep \in Id /\ object[run.at].login = run.want
        /\ link[run.at].ep = run.ep /\ link[run.at].fp = None
    <3>1. run.ep \in Id /\ object[run.at] # NoObject
      BY <1>c, <1>d, <2>2 DEF EdgeIsMade, NoObject
    <3> QED
      BY <1>c, <2>2, <3>1 DEF EdgeIsMade
  <2>8. EdgeIsHeld' /\ EdgeIsMade' /\ RowIsHeld'
    BY <1>c, <2>2, <2>3, <2>4, <2>5, <2>6, <2>7
    DEF EdgeIsHeld, EdgeIsMade, RowIsHeld, CleaningUp, Applies, Drains
  <2>9. CleanupSparesLinks' /\ FpIsPast'
    BY <1>c, <2>4 DEF CleanupSparesLinks, FpIsPast
  <2>10. \A e \in Edge : link[e].fp = login[e[2]] => e # run.at
    BY <1>a, <2>7, Ends DEF Sorts
  <2>11. Wiring'
    BY <1>c, <2>2, <2>4, <2>5, <2>6, <2>10 DEF Wiring, Wired, Halfway
  <2>12. Remembered'
    <3>1. SUFFICES ASSUME NEW e \in Edge
                   PROVE  /\ object'[e].ep # None =>
                               EpKnown(e, object[e].ep)' \/ e \in strays \/ Halfway("record", e)'
                          /\ object'[e].pol # None /\ object'[e].on =>
                               \/ PolKnown(e, object[e].pol)' \/ e \in strays
                               \/ Halfway("activate", e)'
      BY <2>4 DEF Remembered, EpKnown, PolKnown, Halfway
    <3>2. /\ object[e].ep # None => EpKnown(e, object[e].ep) \/ e \in strays
          /\ object[e].pol # None /\ object[e].on => PolKnown(e, object[e].pol) \/ e \in strays
      BY <1>c, <2>2 DEF Remembered, Halfway
    <3>3. CASE e = run.at
      BY <2>4, <2>5, <2>6, <3>2, <3>3 DEF EpKnown, PolKnown, Halfway
    <3>4. CASE e # run.at
      BY <2>4, <2>6, <3>2, <3>4 DEF EpKnown, PolKnown
    <3> QED
      BY <3>3, <3>4
  <2> QED
    BY <2>8, <2>9, <2>11, <2>12 DEF MeshInv, RunInv
<1>6. CASE ApplyActivates
  <2>1. PICK l : l = [status |-> "ACTIVE", ep |-> run.ep, pol |-> run.pol,
                      fp |-> run.want, recent |-> TRUE]
    OBVIOUS
  <2>2. /\ run.pc = "activate" /\ run.at \in Edge /\ strays' = strays \ {run.at}
        /\ link' = [link EXCEPT ![run.at] = l]
        /\ UNCHANGED <<object, login, cleanup>>
    BY <1>6, <1>a, <2>1 DEF ApplyActivates, Applies
  <2>3. run'.pc = "edges" /\ run'.at = None
    BY <1>6, <1>a DEF ApplyActivates, Run
  <2>4. /\ \A e \in Edge \ {run.at} : link'[e] = link[e]
        /\ link'[run.at] = l /\ l.ep = run.ep /\ l.pol = run.pol /\ l.fp = run.want
    BY <1>a, <2>1, <2>2
  <2>5. EdgeIsHeld' /\ EdgeIsMade' /\ RowIsHeld'
    BY <2>3 DEF EdgeIsHeld, EdgeIsMade, RowIsHeld, Applies, Drains
  <2>6. ~CleaningUp(run.at) /\ run.want <= login[run.at[2]]
    BY <1>c, <1>d, <2>2 DEF EdgeIsHeld
  <2>7. CleanupSparesLinks' /\ FpIsPast'
    BY <1>c, <2>2, <2>4, <2>6 DEF CleanupSparesLinks, FpIsPast, CleaningUp
  <2>8. object[run.at] = NoObject
        \/ /\ object[run.at].ep = run.ep /\ object[run.at].login = run.want
           /\ object[run.at].pol = run.pol /\ object[run.at].on
    BY <1>c, <2>2 DEF EdgeIsMade
  <2>9. Wiring'
    BY <1>c, <2>2, <2>3, <2>4, <2>8 DEF Wiring, Wired, Halfway
  <2>10. NoObject.ep = None /\ NoObject.pol = None
    BY DEF NoObject
  <2>11. Remembered'
    BY <1>c, <2>2, <2>3, <2>4, <2>8, <2>10 DEF Remembered, EpKnown, PolKnown, Halfway
  <2> QED
    BY <2>5, <2>7, <2>9, <2>11 DEF MeshInv, RunInv
<1>7. CASE ApplyFails
  <2>1. run.at \in Edge /\ FailEdge(run.at) /\ UNCHANGED <<object, login, cleanup>>
        /\ strays' = Straying
    BY <1>7, <1>a DEF ApplyFails, Applies
  <2>2. strays \subseteq strays' /\ (run.pc \in {"record", "activate"} => run.at \in strays')
    BY <2>1 DEF Straying
  <2> QED
    BY <2>1, <2>2, FailingNext
<1> QED
  BY <1>1, <1>2, <1>3, <1>4, <1>5, <1>6, <1>7

-----------------------------------------------------------------------------
(* The environment.                                                        *)

\* Logins that change, Harbors that are rebuilt, ids that are given again and time that passes
\* keep the invariant.
LEMMA WorldNext ==
  ASSUME Sorts, MeshInv, TypeOK',
         \/ \E h \in Harbor : NewLogin(h) \/ Rebuild(h)
         \/ \E e \in Edge : Elapse(e) \/ \E kind \in {"ep", "pol"}, id \in Id : Reuse(e, kind, id)
  PROVE  MeshInv'
<1>a. /\ link \in [Edge -> Link] /\ object \in [Edge -> Object] /\ run \in Run
      /\ login \in [Harbor -> Login]
      /\ run.at \in Edge \union {None}
      /\ run.pc \in Applies => run.at \in Edge
      /\ run.pc \in Drains => run.clean.edge \in Edge
      /\ \A h \in Harbor : login[h] \in Nat
  BY Typed
<1>c. /\ CleanupSparesLinks /\ FpIsPast /\ Wiring /\ Remembered
      /\ EdgeIsHeld /\ EdgeIsMade /\ RowIsHeld
  BY DEF MeshInv, RunInv
<1>d. \A e \in Edge : link[e].fp # None => link[e].fp \in Nat
  BY <1>a DEF Link, Login
<1>1. ASSUME NEW h \in Harbor, NewLogin(h) PROVE MeshInv'
  <2>1. login' = [login EXCEPT ![h] = login[h] + 1]
        /\ UNCHANGED <<link, cleanup, object, run, strays>>
    BY <1>1 DEF NewLogin
  <2>2. /\ \A k \in Harbor \ {h} : login'[k] = login[k]
        /\ login'[h] = login[h] + 1
    BY <1>a, <2>1
  <2>3. \A k \in Harbor : login[k] <= login'[k] /\ login[k] \in Nat /\ login'[k] \in Nat
    BY <1>a, <2>2
  <2>4. \A e \in Edge : link[e].fp # None /\ link[e].fp = login'[e[2]] => link[e].fp = login[e[2]]
                                                                      /\ login'[e[2]] = login[e[2]]
    BY <1>a, <1>c, <1>d, <2>2, <2>3, Ends DEF FpIsPast
  <2>5. run.at # None => run.at \in Edge /\ run.at[2] \in Harbor /\ run.want \in Nat
    BY <1>a, <1>c, Ends DEF EdgeIsHeld, Login
  <2>6. EdgeIsHeld'
    BY <1>a, <1>c, <2>1, <2>3, <2>5 DEF EdgeIsHeld, CleaningUp
  <2>7. EdgeIsMade' /\ RowIsHeld' /\ CleanupSparesLinks'
    BY <1>c, <2>1 DEF EdgeIsMade, RowIsHeld, CleanupSparesLinks
  <2>8. FpIsPast'
    BY <1>c, <1>d, <2>1, <2>3, Ends DEF FpIsPast
  <2>9. \A e \in Edge : link[e].fp = login'[e[2]] => link[e].fp # None
    BY <2>3, Ends DEF Sorts
  <2>10. Wiring'
    BY <1>c, <2>1, <2>4, <2>9 DEF Wiring, Wired, Halfway
  <2>11. Remembered'
    BY <1>c, <2>1 DEF Remembered, EpKnown, PolKnown, Halfway
  <2> QED
    BY <2>6, <2>7, <2>8, <2>10, <2>11 DEF MeshInv, RunInv
<1>2. ASSUME NEW h \in Harbor, Rebuild(h) PROVE MeshInv'
  <2>1. UNCHANGED <<login, link, cleanup, run, strays>>
    BY <1>2 DEF Rebuild
  <2>2. \A e \in Edge : object'[e] = object[e] \/ object'[e] = NoObject
    BY <1>2 DEF Rebuild
  <2>3. NoObject.ep = None /\ NoObject.pol = None
    BY DEF NoObject
  <2>4. EdgeIsHeld' /\ CleanupSparesLinks' /\ FpIsPast'
    BY <1>c, <2>1 DEF EdgeIsHeld, CleaningUp, CleanupSparesLinks, FpIsPast
  <2>5. EdgeIsMade'
    BY <1>a, <1>c, <2>1, <2>2 DEF EdgeIsMade, Applies
  <2>6. RowIsHeld'
    BY <1>a, <1>c, <2>1, <2>2, <2>3 DEF RowIsHeld, Drains
  <2>7. Wiring'
    BY <1>c, <2>1, <2>2 DEF Wiring, Wired, Halfway
  <2>8. Remembered'
    BY <1>c, <2>1, <2>2, <2>3 DEF Remembered, EpKnown, PolKnown, Halfway
  <2> QED
    BY <2>4, <2>5, <2>6, <2>7, <2>8 DEF MeshInv, RunInv
<1>3. ASSUME NEW e \in Edge, Elapse(e) PROVE MeshInv'
  <2>1. link' = [link EXCEPT ![e].recent = FALSE]
        /\ UNCHANGED <<login, cleanup, object, run, strays>>
    BY <1>3 DEF Elapse
  <2>2. \A x \in Edge : /\ link'[x].status = link[x].status /\ link'[x].ep = link[x].ep
                        /\ link'[x].pol = link[x].pol /\ link'[x].fp = link[x].fp
    BY <1>a, <2>1 DEF Link
  <2>3. EdgeIsHeld' /\ EdgeIsMade' /\ RowIsHeld'
    BY <1>a, <1>c, <2>1, <2>2 DEF EdgeIsHeld, EdgeIsMade, RowIsHeld, CleaningUp, Applies
  <2>4. CleanupSparesLinks' /\ FpIsPast'
    BY <1>a, <1>c, <2>1, <2>2, Typed DEF CleanupSparesLinks, FpIsPast
  <2>5. Wiring' /\ Remembered'
    BY <1>c, <2>1, <2>2 DEF Wiring, Wired, Remembered, EpKnown, PolKnown, Halfway
  <2> QED
    BY <2>3, <2>4, <2>5 DEF MeshInv, RunInv
<1>4. ASSUME NEW e \in Edge, NEW kind \in {"ep", "pol"}, NEW id \in Id, Reuse(e, kind, id)
      PROVE  MeshInv'
  BY <1>4, Stays DEF Reuse
<1> QED
  BY <1>1, <1>2, <1>3, <1>4

-----------------------------------------------------------------------------
(* The theorems.                                                           *)

\* Any step keeps the invariant.
LEMMA MeshNext == ASSUME Sorts, MeshInv, [Next]_vars PROVE MeshInv'
<1>1. CASE UNCHANGED vars
  <2>1. TypeOK'
    BY <1>1 DEF vars, MeshInv, RunInv, TypeOK
  <2> QED
    BY <1>1, <2>1, Stays DEF vars
<1>2. CASE Next
  <2>1. TypeOK'
    BY <1>2, TypeNext DEF MeshInv
  <2> QED
    BY <1>2, <2>1, PhaseNext, DrainNext, ApplyNext, WorldNext DEF Next, RunStep
<1> QED
  BY <1>1, <1>2

\* The invariant holds of a cluster whose mesh was never synced.
LEMMA MeshInit == ASSUME Sorts, Init PROVE MeshInv
<1>1. NoLink \in Link /\ NoObject \in Object
  BY DEF NoLink, Link, NoObject, Object, Ids
<1>2. /\ NoLink.status # "ACTIVE" /\ NoLink.fp = None /\ NoObject.ep = None /\ NoObject.pol = None
      /\ IdleRun.pc = "idle" /\ IdleRun.at = None
  BY DEF NoLink, NoObject, IdleRun
<1>3. TypeOK
  <2>1. 0 \in Login /\ 0 \in Id /\ 0 \in 0..MaxMoves /\ 0 \in 0..MaxCrashes
    BY DEF Sorts, Login, Id
  <2>2. /\ login \in [Harbor -> Login] /\ epoch \in [Harbor -> Id]
        /\ link \in [Edge -> Link] /\ object \in [Edge -> Object]
    BY <1>1, <2>1 DEF Init
  <2>3. run \in Run
    BY IdleIsRun DEF Init
  <2> QED
    BY <2>1, <2>2, <2>3 DEF Init, TypeOK, Sorts
<1>4. EdgeIsHeld /\ EdgeIsMade /\ RowIsHeld
  BY <1>2 DEF Init, EdgeIsHeld, EdgeIsMade, RowIsHeld, Applies, Drains
<1>5. CleanupSparesLinks /\ FpIsPast /\ Wiring /\ Remembered
  BY <1>2 DEF Init, CleanupSparesLinks, FpIsPast, Wiring, Remembered
<1> QED
  BY <1>3, <1>4, <1>5 DEF MeshInv, RunInv

\* Every reachable state has its variables in their types.
THEOREM TypeCorrect == ASSUME Sorts PROVE Spec => []TypeOK
<1>1. Init => MeshInv
  BY MeshInit
<1>2. MeshInv /\ [Next]_vars => MeshInv'
  BY MeshNext
<1>3. MeshInv => TypeOK
  BY DEF MeshInv, RunInv
<1> QED
  BY <1>1, <1>2, <1>3, PTL DEF Spec

\* An active link that a sync will leave alone is wired, unless its Harbor was rebuilt or its
\* repair broke off, for any registries and edges, whatever fails, dies, moves or is rebuilt.
THEOREM WiredHolds == ASSUME Sorts PROVE Spec => []ActiveIsWired
<1>1. Init => MeshInv
  BY MeshInit
<1>2. MeshInv /\ [Next]_vars => MeshInv'
  BY MeshNext
<1>3. MeshInv => ActiveIsWired
  BY DEF MeshInv, Wiring, ActiveIsWired, Applying, Halfway
<1> QED
  BY <1>1, <1>2, <1>3, PTL DEF Spec

\* An object on a Harbor is known to a link or to a cleanup row, but for a creation that was
\* never heard of, whatever fails, dies, moves or is rebuilt.
THEOREM NothingForgottenHolds == ASSUME Sorts PROVE Spec => []NothingIsForgotten
<1>1. Init => MeshInv
  BY MeshInit
<1>2. MeshInv /\ [Next]_vars => MeshInv'
  BY MeshNext
<1>3. MeshInv => NothingIsForgotten
  BY DEF MeshInv, Remembered, EpKnown, PolKnown, NothingIsForgotten, Recorded, Applying, Halfway
<1> QED
  BY <1>1, <1>2, <1>3, PTL DEF Spec

\* No cleanup can take away the objects of a live link, whatever fails, dies or moves.
THEOREM SparesHolds == ASSUME Sorts PROVE Spec => []CleanupSparesLinks
<1>1. Init => MeshInv
  BY MeshInit
<1>2. MeshInv /\ [Next]_vars => MeshInv'
  BY MeshNext
<1>3. MeshInv => CleanupSparesLinks
  BY DEF MeshInv
<1> QED
  BY <1>1, <1>2, <1>3, PTL DEF Spec
====
