------------------------------ MODULE Requests ------------------------------
(***************************************************************************)
(* What people ask of a live project and administrators decide: another    *)
(* storage limit (projects/[id]/quota/requests, quota-requests/[id]), or   *)
(* its deletion (projects/[id]/delete-requests, project-delete-requests).  *)
(* A decision reads the row and writes it in steps of its own, and what an *)
(* approval carries out happens in between.  A limit can also be set, and  *)
(* the project deleted, without a request.                                 *)
(***************************************************************************)
EXTENDS Naturals, FiniteSets

CONSTANTS
  Person,     \* those who ask, decide, or act on the project
  Limit,      \* storage limits
  None,       \* no row
  Apart,      \* nobody begins while somebody else is at it
  MaxAsks,    \* bound: requests made
  MaxDirect,  \* bound: limits set and deletions made without a request
  MaxCrashes  \* bound: handlers that die

VARIABLES
  project,  \* the project: whether it is there, and its limit
  asked,    \* the requests
  done,     \* history: the requests that were carried out
  hand,     \* per person: the handler
  direct, crashes

vars == <<project, asked, done, hand, direct, crashes>>

Id == 1..MaxAsks
Free == [pc |-> "idle", id |-> None, want |-> None, old |-> {}]

TypeOK ==
  /\ project \in [live : BOOLEAN, limit : Limit]
  /\ \A i \in Id : asked[i] = None \/
       asked[i] \in [kind : {"quota", "delete"}, want : Limit \union {None}, linked : BOOLEAN,
                     status : {"PENDING", "APPROVED", "REJECTED", "superseded"}]
  /\ done \subseteq Id /\ direct \in 0..MaxDirect /\ crashes \in 0..MaxCrashes
  /\ \A p \in Person :
       hand[p].pc \in {"idle", "quota", "delete", "carry", "approve", "reject", "set", "remove"}

Init ==
  /\ project \in {[live |-> TRUE, limit |-> l] : l \in Limit}
  /\ asked = [i \in Id |-> None] /\ done = {}
  /\ hand = [p \in Person |-> Free]
  /\ direct = 0 /\ crashes = 0

Pending(kind) == {i \in Id : asked[i] # None /\ asked[i].kind = kind /\ asked[i].status = "PENDING"}
New(i) == asked[i] = None /\ \A j \in Id : j < i => asked[j] # None

Begin(p, pc, id, want, old) ==
  /\ hand[p] = Free /\ (Apart => \A q \in Person : hand[q] = Free)
  /\ hand' = [hand EXCEPT ![p] = [pc |-> pc, id |-> id, want |-> want, old |-> old]]

End(p) == hand' = [hand EXCEPT ![p] = Free]

Then(p, pc) == hand' = [hand EXCEPT ![p].pc = pc]

-----------------------------------------------------------------------------
(* Asking.                                                                 *)

\* The transaction deletes the pending rows that it sees, and adds one: it does not
\* see what another is about to add.
AskQuota(p, want) ==
  /\ project.live /\ want # project.limit /\ \E i \in Id : New(i)
  /\ Begin(p, "quota", None, want, Pending("quota"))
  /\ UNCHANGED <<project, asked, done, direct, crashes>>

QuotaAsked(p) ==
  /\ hand[p].pc = "quota" /\ End(p)
  /\ \E i \in Id : New(i) /\ asked' =
       IF ~project.live THEN asked
       ELSE [j \in Id |->
              IF j = i THEN [kind |-> "quota", want |-> hand[p].want, linked |-> TRUE,
                             status |-> "PENDING"]
              ELSE IF j \in hand[p].old \intersect Pending("quota")
                   THEN [asked[j] EXCEPT !.status = "superseded"] ELSE asked[j]]
  /\ UNCHANGED <<project, done, direct, crashes>>

\* A second request for the deletion is refused while one is pending.
AskDelete(p) ==
  /\ project.live /\ Pending("delete") = {} /\ \E i \in Id : New(i)
  /\ Begin(p, "delete", None, None, {})
  /\ UNCHANGED <<project, asked, done, direct, crashes>>

DeleteAsked(p) ==
  /\ hand[p].pc = "delete" /\ End(p)
  /\ \E i \in Id : New(i) /\ asked' =
       IF ~project.live THEN asked
       ELSE [asked EXCEPT ![i] = [kind |-> "delete", want |-> None, linked |-> TRUE,
                                  status |-> "PENDING"]]
  /\ UNCHANGED <<project, done, direct, crashes>>

\* With no identifier left the request is not made: a bound.
AskLost(p) ==
  /\ hand[p].pc \in {"quota", "delete"} /\ End(p)
  /\ \A i \in Id : ~New(i)
  /\ UNCHANGED <<project, asked, done, direct, crashes>>

-----------------------------------------------------------------------------
(* Deciding.                                                               *)

\* A deletion can be approved only while there is a project to delete.
Decide(p, id, pc) ==
  /\ asked[id] # None /\ asked[id].status = "PENDING"
  /\ pc = "carry" => asked[id].linked
  /\ Begin(p, pc, id, asked[id].want, {})
  /\ UNCHANGED <<project, asked, done, direct, crashes>>

\* The limit is set on the project and its Harbors, or on none.
Limited(want) == project.live /\ project' = [project EXCEPT !.limit = want] /\ UNCHANGED asked

\* Deleted everywhere: its quota requests go with it, its deletion requests are kept.
Deleted ==
  /\ project.live /\ project' = [project EXCEPT !.live = FALSE]
  /\ asked' = [i \in Id |->
       IF asked[i] = None THEN None
       ELSE [asked[i] EXCEPT !.linked = FALSE,
                             !.status = IF asked[i].kind = "quota" THEN "superseded" ELSE @]]

\* A seeded bug: a refusal is taken for an approval.
CarryBug(p) ==
  /\ hand[p].pc = "carry"
  /\ \/ /\ \/ asked[hand[p].id].kind = "quota" /\ Limited(hand[p].want)
           \/ asked[hand[p].id].kind = "delete" /\ Deleted
        /\ done' = done \union {hand[p].id} /\ Then(p, "approve")
     \/ Then(p, "approve") /\ UNCHANGED <<project, asked, done>>
  /\ UNCHANGED <<direct, crashes>>

\* An approval carries out what was asked first; refused, it leaves the row pending.
Carry(p) ==
  /\ hand[p].pc = "carry"
  /\ \/ /\ \/ asked[hand[p].id].kind = "quota" /\ Limited(hand[p].want)
           \/ asked[hand[p].id].kind = "delete" /\ Deleted
        /\ done' = done \union {hand[p].id} /\ Then(p, "approve")
     \/ End(p) /\ UNCHANGED <<project, asked, done>>
  /\ UNCHANGED <<direct, crashes>>

\* The row is then written by its identifier: whatever its status is, if it is there.
Mark(p) ==
  /\ hand[p].pc \in {"approve", "reject"} /\ End(p)
  /\ asked' = IF asked[hand[p].id].status = "superseded" THEN asked
              ELSE [asked EXCEPT ![hand[p].id].status =
                      IF hand[p].pc = "approve" THEN "APPROVED" ELSE "REJECTED"]
  /\ UNCHANGED <<project, done, direct, crashes>>

-----------------------------------------------------------------------------
(* Acting on the project without a request.                                *)

Direct(p) ==
  /\ project.live /\ direct < MaxDirect /\ direct' = direct + 1
  /\ Apart => \A q \in Person : hand[q] = Free
  /\ Deleted \/ \E want \in Limit : Limited(want)
  /\ UNCHANGED <<done, hand, crashes>>

Crash(p) ==
  /\ hand[p] # Free /\ crashes < MaxCrashes /\ crashes' = crashes + 1
  /\ End(p)
  /\ UNCHANGED <<project, asked, done, direct>>

Next == \E p \in Person :
  \/ (\E want \in Limit : AskQuota(p, want)) \/ QuotaAsked(p)
  \/ AskDelete(p) \/ DeleteAsked(p) \/ AskLost(p)
  \/ (\E id \in Id, pc \in {"carry", "reject"} : Decide(p, id, pc))
  \/ Carry(p) \/ Mark(p) \/ Direct(p) \/ Crash(p)

Spec == Init /\ [][Next]_vars

-----------------------------------------------------------------------------
(* Properties.                                                             *)

Status(i) == IF asked[i] = None THEN None ELSE asked[i].status

\* What is shown as approved was carried out, whoever decides at the same time and
\* whatever dies.
ApprovedIsDone ==
  \A i \in Id : Status(i) = "APPROVED" =>
    i \in done /\ (asked[i].kind = "delete" => ~project.live)

\* What is shown as rejected was not carried out, when decisions are taken one at a
\* time and no approval dies half way.
RejectedIsNotDone ==
  Apart /\ crashes = 0 => \A i \in Id : Status(i) = "REJECTED" => i \notin done

\* The queue shows one request of a kind, when they are made one at a time.
OnePending == Apart => \A kind \in {"quota", "delete"} : Cardinality(Pending(kind)) <= 1

=============================================================================
