----------------------------- MODULE Identities -----------------------------
(***************************************************************************)
(* What the people of a cluster are called on its Harbors.  A person goes  *)
(* by the account mapped to them (UserClusterIdentity) or, where the       *)
(* cluster shares the Gateway's directory, by their User.username          *)
(* (lib/clusters/identity.ts).  Grants name accounts, so a change of       *)
(* account revokes under the old name and grants under the new one, on     *)
(* every project (lib/clusters/identity-sync.ts), and each Harbor that did *)
(* not answer is owed its half.                                            *)
(*                                                                         *)
(* Beside MembershipSync, which follows one account per person through     *)
(* roles, crashes and a queue written in two steps, every Harbor has every *)
(* project here, a failed call queues its row at once, and the calls about *)
(* all the projects of a person are one fan-out.                           *)
(***************************************************************************)
EXTENDS PendingOps, FiniteSets

CONSTANTS
  Harbor, Project, User,
  Username,      \* User.username, per person: an account of the shared directory
  Mappable,      \* the accounts administrators map people to
  Fold,          \* per account: the one it is for Harbor, which ignores case
  Admin,         \* concurrent handlers
  None,
  Remaps,        \* a member is given another account while being added to a project
  Apart,         \* one handler at a time, none while a row is being replayed
  Patient,       \* nobody is given an account whose removal, or whose grant to
                 \* somebody else, is still queued
  MaxRequests    \* bound: requests served

Account == Mappable \union {Username[u] : u \in User}

VARIABLES
  mode,       \* Cluster.identityMode
  mapping,    \* UserClusterIdentity.harborUsername
  row,        \* the ProjectMember rows: pairs of a project and a person
  withdrawn,  \* history: memberships whose grants went with a mapping that was dropped
  grant,      \* what Harbors hold: Harbor, project, account
  queue, nextId,
  hand, pass, requests

vars == <<mode, mapping, row, withdrawn, grant, queue, nextId, hand, pass, requests>>

Mode == {"GATEWAY", "MAPPED"}
Op == [id : Nat, registry : Harbor, kind : {"MEMBER_ADD", "MEMBER_REMOVE"},
       key : [project : Project, account : Account, user : User]]

\* old: the account mapped before; todo: the projects and Harbors a fan-out has
\* still to call, under the account name; reached: some Harbor accepted.
Hand == [pc : {"idle", "write", "revoke", "load", "grant", "upsert", "unrow"},
         kind : {"map", "unmap", "add", "drop"},
         user : User \union {None}, project : Project \union {None},
         name : Account \union {None}, old : Account \union {None},
         had : BOOLEAN, reached : BOOLEAN,
         todo : SUBSET (Project \X Harbor)]

Pass == [pc : {"idle", "next", "call", "delete"}, ops : SUBSET Op,
         at : Op \union {None}, name : Account \union {None}]

TypeOK ==
  /\ mode \in Mode
  /\ mapping \in [User -> Mappable \union {None}]
  /\ row \subseteq Project \X User
  /\ withdrawn \subseteq Project \X User
  /\ grant \subseteq Harbor \X Project \X Account
  /\ queue \subseteq Op
  /\ nextId \in Nat
  /\ hand \in [Admin -> Hand]
  /\ pass \in Pass
  /\ requests \in 0..MaxRequests

\* resolveHarborUsername
Resolved(u) ==
  IF mapping[u] # None THEN mapping[u]
  ELSE IF mode = "MAPPED" THEN None ELSE Username[u]

Held(u) == {p \in Project : <<p, u>> \in row}

IdleHand == [pc |-> "idle", kind |-> "map", user |-> None, project |-> None,
             name |-> None, old |-> None, had |-> FALSE, reached |-> FALSE, todo |-> {}]
IdlePass == [pc |-> "idle", ops |-> {}, at |-> None, name |-> None]

\* Some people are mapped, some are members, and every Harbor holds their grants.
Init ==
  /\ mode \in Mode
  /\ mapping \in [User -> Mappable \union {None}]
  /\ \A u, v \in User : u # v /\ Resolved(u) # None /\ Resolved(v) # None
                           => Fold[Resolved(u)] # Fold[Resolved(v)]
  /\ row \in SUBSET (Project \X User)
  /\ \A m \in row : Resolved(m[2]) # None
  /\ withdrawn = {}
  /\ grant = {<<h, m[1], Fold[Resolved(m[2])]>> : h \in Harbor, m \in row}
  /\ queue = {} /\ nextId = 0
  /\ hand = [m \in Admin |-> IdleHand]
  /\ pass = IdlePass
  /\ requests = 0

-----------------------------------------------------------------------------
(* Requests.                                                               *)

Free == pass.at = None /\ \A m \in Admin : hand[m].pc = "idle"
Owing(a, u) ==
  \E op \in queue : op.key.account = a /\ (op.kind = "MEMBER_REMOVE" \/ op.key.user # u)

\* The account is mapped to somebody else: the comparison ignores case.
Taken(a, u) == \E v \in User \ {u} : mapping[v] # None /\ Fold[mapping[v]] = Fold[a]

Start(m, new) ==
  /\ hand[m].pc = "idle" /\ requests < MaxRequests /\ (Apart => Free)
  /\ requests' = requests + 1
  /\ hand' = [hand EXCEPT ![m] = new]
  /\ UNCHANGED <<mode, mapping, row, withdrawn, grant, queue, nextId, pass>>

\* PUT identities: setClusterIdentity reads what is taken and what was mapped...
Map(m, u, a) ==
  /\ ~Taken(a, u) /\ (Patient => ~Owing(a, u))
  /\ Start(m, [IdleHand EXCEPT !.pc = "write", !.kind = "map", !.user = u, !.name = a,
                               !.old = mapping[u]])

\* DELETE identities/[userId]: there is something to drop.
Unmap(m, u) ==
  /\ mapping[u] # None
  /\ Start(m, [IdleHand EXCEPT !.pc = "write", !.kind = "unmap", !.user = u,
                               !.old = mapping[u]])

\* POST members, with an account to map the person to, or without: the mapping is
\* written before the row, by setClusterIdentity alone.
Add(m, p, u, a) ==
  LET name == IF a = None THEN Resolved(u) ELSE a IN
  /\ name # None /\ (Patient => ~Owing(name, u))
  /\ a # None => ~Taken(a, u) /\ (Remaps \/ Held(u) = {} \/ a = mapping[u])
  /\ Start(m, [IdleHand EXCEPT !.pc = IF a = None THEN "upsert" ELSE "write",
                               !.kind = "add", !.user = u, !.project = p, !.name = name])

\* DELETE members/[userId]: the name is resolved before the row goes; without one
\* there is nothing to revoke.
Drop(m, p, u) ==
  /\ <<p, u>> \in row
  /\ Start(m, [IdleHand EXCEPT
       !.pc = IF Resolved(u) = None THEN "unrow" ELSE "revoke",
       !.kind = "drop", !.user = u, !.project = p, !.name = Resolved(u),
       !.todo = IF Resolved(u) = None THEN {} ELSE {p} \X Harbor])

\* runUpdateCluster: MAPPED only once every member has an account.
SwitchMode ==
  /\ requests < MaxRequests /\ (Apart => Free)
  /\ mode = "GATEWAY" => \A m \in row : mapping[m[2]] # None
  /\ mode' \in Mode \ {mode}
  /\ requests' = requests + 1
  /\ UNCHANGED <<mapping, row, withdrawn, grant, queue, nextId, hand, pass>>

-----------------------------------------------------------------------------
(* Their steps.                                                            *)

\* A seeded bug: the name a person went by without a mapping is not thought of.
StaleBug(u, old, name) == IF old = name THEN None ELSE old

\* applyClusterIdentityChange: the name to revoke under, if any.  On a cluster with
\* a directory of its own nobody was granted anything without a mapping.
Stale(u, old, name) ==
  LET before == IF old # None THEN old
                ELSE IF mode = "MAPPED" THEN None ELSE Username[u]
  IN  IF before = name THEN None ELSE before

\* ...and writes.  The unique constraint on the account backs the check up.
MapWrite(m) ==
  LET u == hand[m].user IN
  LET clash == \E v \in User \ {u} : mapping[v] = hand[m].name IN
  LET stale == Stale(u, hand[m].old, hand[m].name) IN
  /\ hand[m].pc = "write" /\ hand[m].kind = "map"
  /\ mapping' = IF clash THEN mapping ELSE [mapping EXCEPT ![u] = hand[m].name]
  /\ hand' = [hand EXCEPT ![m] =
       IF clash \/ Held(u) = {} THEN IdleHand
       ELSE IF stale = None THEN [@ EXCEPT !.pc = "load"]
       ELSE [@ EXCEPT !.pc = "revoke", !.name = stale, !.todo = Held(u) \X Harbor]]
  /\ UNCHANGED <<mode, row, withdrawn, grant, queue, nextId, pass, requests>>

\* deleteClusterIdentity: the memberships stay, their grants go.
UnmapWrite(m) ==
  LET u == hand[m].user IN
  /\ hand[m].pc = "write" /\ hand[m].kind = "unmap"
  /\ mapping' = [mapping EXCEPT ![u] = None]
  /\ withdrawn' = withdrawn \union (Held(u) \X {u})
  /\ hand' = [hand EXCEPT ![m] = [@ EXCEPT !.pc = "revoke", !.name = hand[m].old,
                                           !.todo = Held(u) \X Harbor]]
  /\ UNCHANGED <<mode, row, grant, queue, nextId, pass, requests>>

AddMaps(m) ==
  LET u == hand[m].user IN
  LET clash == \E v \in User \ {u} : mapping[v] = hand[m].name IN
  /\ hand[m].pc = "write" /\ hand[m].kind = "add"
  /\ mapping' = IF clash THEN mapping ELSE [mapping EXCEPT ![u] = hand[m].name]
  /\ hand' = [hand EXCEPT ![m] = IF clash THEN IdleHand ELSE [@ EXCEPT !.pc = "upsert"]]
  /\ UNCHANGED <<mode, row, withdrawn, grant, queue, nextId, pass, requests>>

\* saveMemberAcrossCluster: the row...
AddRow(m) ==
  LET mine == <<hand[m].project, hand[m].user>> IN
  /\ hand[m].pc = "upsert"
  /\ row' = row \union {mine}
  /\ hand' = [hand EXCEPT ![m].pc = "load", ![m].had = mine \in row]
  /\ UNCHANGED <<mode, mapping, withdrawn, grant, queue, nextId, pass, requests>>

\* ...and syncMemberAcrossCluster, of one project or of all the person is in: the
\* name is resolved again.  A membership or a name that has gone is an error.
Load(m) ==
  LET u == hand[m].user IN
  LET mine == IF hand[m].kind = "add" THEN {hand[m].project} \intersect Held(u) ELSE Held(u) IN
  /\ hand[m].pc = "load"
  /\ IF Resolved(u) = None \/ mine = {}
     THEN /\ hand' = [hand EXCEPT ![m].pc = "grant"]
          /\ UNCHANGED withdrawn
     ELSE /\ hand' = [hand EXCEPT ![m].pc = "grant", ![m].name = Resolved(u),
                                  ![m].todo = mine \X Harbor]
          /\ withdrawn' = withdrawn \ (mine \X {u})
  /\ UNCHANGED <<mode, mapping, row, grant, queue, nextId, pass, requests>>

CallWorks(m, p, h) ==
  LET entry == <<h, p, Fold[hand[m].name]>> IN
  /\ <<p, h>> \in hand[m].todo
  /\ grant' = IF hand[m].pc = "grant" THEN grant \union {entry} ELSE grant \ {entry}
  /\ hand' = [hand EXCEPT ![m].todo = @ \ {<<p, h>>}, ![m].reached = TRUE]
  /\ UNCHANGED <<mode, mapping, row, withdrawn, queue, nextId, pass, requests>>

\* enqueue: the subject of a row is its account, spelt as it is; the person it is
\* about is refreshed where an addition is found.
CallFails(m, p, h) ==
  LET kind == IF hand[m].pc = "grant" THEN "MEMBER_ADD" ELSE "MEMBER_REMOVE" IN
  LET key == [project |-> p, account |-> hand[m].name, user |-> hand[m].user] IN
  LET found == {op \in queue : op.registry = h /\ op.key.project = p
                               /\ op.key.account = key.account} IN
  LET kept == {op \in found : op.kind = "MEMBER_ADD" /\ kind = "MEMBER_ADD"} IN
  /\ <<p, h>> \in hand[m].todo
  /\ hand' = [hand EXCEPT ![m].todo = @ \ {<<p, h>>}]
  /\ queue' = IF kept = {}
              THEN (queue \ found) \union {Row(nextId, h, kind, key)}
              ELSE (queue \ kept) \union {[op EXCEPT !.key = key] : op \in kept}
  /\ nextId' = IF kept = {} THEN nextId + 1 ELSE nextId
  /\ UNCHANGED <<mode, mapping, row, withdrawn, grant, pass, requests>>

\* All Harbors were called: the new name comes after the old one, the row goes after
\* the grants, and a row no Harbor accepted is rolled back with what it queued.
FannedOut(m) ==
  LET h == hand[m] IN
  LET undone == h.kind = "add" /\ ~h.had /\ ~h.reached IN
  /\ h.pc \in {"revoke", "grant", "unrow"} /\ h.todo = {}
  /\ hand' = [hand EXCEPT ![m] =
       IF h.kind = "map" /\ h.pc = "revoke" THEN [@ EXCEPT !.pc = "load"] ELSE IdleHand]
  /\ row' = IF h.kind = "drop" \/ undone THEN row \ {<<h.project, h.user>>} ELSE row
  /\ queue' = IF undone
              THEN {op \in queue : ~(op.key.project = h.project /\ op.key.account = h.name)}
              ELSE queue
  /\ UNCHANGED <<mode, mapping, withdrawn, grant, nextId, pass, requests>>

-----------------------------------------------------------------------------
(* The reconciliation pass.                                                *)

PassStart(h) ==
  /\ pass.pc = "idle" /\ Owed(queue, h) # {}
  /\ pass' = [IdlePass EXCEPT !.pc = "next", !.ops = Owed(queue, h)]
  /\ UNCHANGED <<mode, mapping, row, withdrawn, grant, queue, nextId, hand, requests>>

\* A removal goes by the account it was queued with, an addition by the name the
\* person has now; without a membership or a name it is stale.
PassTake(op) ==
  LET key == op.key IN
  LET name == IF op.kind = "MEMBER_REMOVE" THEN key.account
              ELSE IF <<key.project, key.user>> \in row THEN Resolved(key.user) ELSE None IN
  /\ pass.pc = "next" /\ IsOldest(op, pass.ops) /\ (Apart => Free)
  /\ pass' = [pass EXCEPT !.pc = IF name = None THEN "delete" ELSE "call",
                          !.at = op, !.name = name]
  /\ UNCHANGED <<mode, mapping, row, withdrawn, grant, queue, nextId, hand, requests>>

PassCall ==
  LET entry == <<pass.at.registry, pass.at.key.project, Fold[pass.name]>> IN
  /\ pass.pc = "call"
  /\ grant' = IF pass.at.kind = "MEMBER_ADD" THEN grant \union {entry} ELSE grant \ {entry}
  /\ pass' = [pass EXCEPT !.pc = "delete"]
  /\ UNCHANGED <<mode, mapping, row, withdrawn, queue, nextId, hand, requests>>

\* The row is deleted by its id; if it was superseded meanwhile the pass ends.
PassDelete ==
  LET mine == {op \in queue : op.id = pass.at.id} IN
  /\ pass.pc = "delete"
  /\ queue' = queue \ mine
  /\ pass' = IF mine = {} THEN IdlePass
             ELSE [IdlePass EXCEPT !.pc = "next", !.ops = pass.ops \ {pass.at}]
  /\ UNCHANGED <<mode, mapping, row, withdrawn, grant, nextId, hand, requests>>

\* The snapshot is drained, or a call fails and the rest waits.
PassEnds ==
  /\ pass.pc # "idle"
  /\ pass' = IdlePass
  /\ UNCHANGED <<mode, mapping, row, withdrawn, grant, queue, nextId, hand, requests>>

Next ==
  \/ \E m \in Admin, u \in User :
       \/ \E a \in Mappable : Map(m, u, a)
       \/ Unmap(m, u)
       \/ \E p \in Project : Drop(m, p, u) \/ \E a \in Mappable \union {None} : Add(m, p, u, a)
  \/ \E m \in Admin :
       \/ MapWrite(m) \/ UnmapWrite(m) \/ AddMaps(m) \/ AddRow(m) \/ Load(m) \/ FannedOut(m)
       \/ \E p \in Project, h \in Harbor : CallWorks(m, p, h) \/ CallFails(m, p, h)
  \/ SwitchMode
  \/ \E h \in Harbor : PassStart(h)
  \/ \E op \in pass.ops : PassTake(op)
  \/ PassCall \/ PassDelete \/ PassEnds

Spec == Init /\ [][Next]_vars

-----------------------------------------------------------------------------
(* Safety.                                                                 *)

\* A Harbor lets in no account that is not what some member of the project goes by,
\* unless it is owed the removal (identity-sync.ts: no "orphan grant on every member
\* with nothing in the Gateway pointing at it").
GrantIsSomebodys ==
  Free =>
    \A g \in grant :
      \/ \E u \in User : <<g[2], u>> \in row /\ Resolved(u) # None /\ Fold[Resolved(u)] = g[3]
      \/ \E op \in queue : /\ op.registry = g[1] /\ op.kind = "MEMBER_REMOVE"
                           /\ op.key.project = g[2] /\ Fold[op.key.account] = g[3]

\* A member is let in, by the account they go by, on every Harbor, or it is owed the
\* grant; but for those whose mapping was dropped.
MemberIsLetIn ==
  Free =>
    \A m \in row, h \in Harbor :
      \/ m \in withdrawn \/ Resolved(m[2]) = None
      \/ <<h, m[1], Fold[Resolved(m[2])]>> \in grant
      \/ \E op \in queue : /\ op.registry = h /\ op.kind = "MEMBER_ADD"
                           /\ op.key.project = m[1] /\ op.key.user = m[2]

=============================================================================
