------------------------------- MODULE Mirrors -------------------------------
(***************************************************************************)
(* One scheduled mirror (lib/mirrors/service.ts).  What copies is outside  *)
(* the Gateway: a replication policy on one Harbor of the cluster, the     *)
(* first usable one when the mirror is applied (harbor-transport.ts), or a *)
(* CronJob (skopeo-transport.ts).  The row says where it is, so that it    *)
(* can be changed and removed; removal is a best effort and the row goes   *)
(* regardless.  Nothing comes back to a mirror that could not be applied:  *)
(* somebody applies it again.                                              *)
(*                                                                         *)
(* No lock is taken: requests about the mirror overlap as they come.       *)
(***************************************************************************)
EXTENDS Naturals

CONSTANTS
  Host,         \* the Harbors of the cluster, and the Kubernetes cluster
  Kube,         \* which of them is Kubernetes
  Handler,      \* the requests that can be at work at one time
  None,         \* no row, no host
  AnswersLost,  \* what was asked may be done and its answer lost
  MaxEdits,     \* bound: requests
  MaxCrashes    \* bound: handlers that die

VARIABLES
  transport,  \* "harbor" or "skopeo"
  row,        \* the ScheduledMirror row
  policy,     \* per host: no policy (CronJob), or whether it fires
  op,         \* per handler: what it is doing
  overlap,    \* history: whether two requests overlapped since nobody was at work
  lost,       \* history: hosts where what is installed may not be what the row says
  edits, crashes

vars == <<transport, row, policy, op, overlap, lost, edits, crashes>>

\* on, host: what the handler read of the row; at: where it installs.
Idle == [pc |-> "idle", on |-> FALSE, host |-> None, at |-> None]
Op == [pc : {"idle", "load", "pick", "install", "move", "record", "fail", "uninstall", "drop"},
       on : BOOLEAN, host : Host \union {None}, at : Host \union {None}]
Row == [on : BOOLEAN, applied : BOOLEAN, host : Host \union {None}]

TypeOK ==
  /\ transport \in {"harbor", "skopeo"} /\ row \in Row \union {None}
  /\ policy \in [Host -> {"none", "on", "off"}] /\ op \in [Handler -> Op]
  /\ overlap \in BOOLEAN /\ lost \subseteq Host
  /\ edits \in 0..MaxEdits /\ crashes \in 0..MaxCrashes

Init ==
  /\ transport \in {"harbor", "skopeo"} /\ row = None
  /\ policy = [h \in Host |-> "none"] /\ op = [a \in Handler |-> Idle]
  /\ overlap = FALSE /\ lost = {} /\ edits = 0 /\ crashes = 0

Fires(on) == IF on THEN "on" ELSE "off"
Then(a, pc) == op' = [op EXCEPT ![a].pc = pc]
Ends(a) == op' = [op EXCEPT ![a] = Idle]

\* The host that the row names.
Named == IF row = None THEN {} ELSE {row.host} \ {None}

\* The hosts that a handler, or the row it writes, knows of...
Known(a) == ({op[a].host, op[a].at} \ {None}) \union Named

\* ...where its step may not be the last word if requests overlap.
Astray(a) == IF overlap THEN Known(a) ELSE {}

-----------------------------------------------------------------------------
(* Requests.                                                               *)

Request(a, first) ==
  /\ op[a] = Idle /\ edits < MaxEdits /\ edits' = edits + 1
  /\ op' = [op EXCEPT ![a] = first]
  /\ overlap' = \E b \in Handler : op[b] # Idle
  /\ lost' = lost \union IF overlap' THEN Named ELSE {}
  /\ UNCHANGED <<transport, policy, crashes>>

\* The id is of this mirror alone: it is created once.
Create(a, on) ==
  /\ edits = 0 /\ Request(a, [Idle EXCEPT !.pc = "load"])
  /\ row' = [on |-> on, applied |-> FALSE, host |-> None]

Update(a, on) ==
  /\ row # None /\ Request(a, [Idle EXCEPT !.pc = "load"])
  /\ row' = [row EXCEPT !.on = on]

Apply(a) == row # None /\ Request(a, [Idle EXCEPT !.pc = "load"]) /\ UNCHANGED row

Delete(a) ==
  /\ row # None
  /\ Request(a, [Idle EXCEPT !.host = row.host,
                             !.pc = IF row.host = None THEN "drop" ELSE "uninstall"])
  /\ UNCHANGED row

-----------------------------------------------------------------------------
(* Applying.                                                               *)

\* The mirror may have been deleted meanwhile.
Load(a) ==
  /\ op[a].pc = "load"
  /\ op' = [op EXCEPT ![a] = IF row = None THEN Idle
                             ELSE [@ EXCEPT !.pc = "pick", !.on = row.on, !.host = row.host]]
  /\ UNCHANGED <<transport, row, policy, overlap, lost, edits, crashes>>

\* The first Harbor that holds the project and answers; there may be none.
Pick(a) ==
  /\ op[a].pc = "pick"
  /\ \/ \E h \in IF transport = "skopeo" THEN {Kube} ELSE Host \ {Kube} :
          op' = [op EXCEPT ![a].pc = "install", ![a].at = h]
     \/ Then(a, "fail")
  /\ UNCHANGED <<transport, row, policy, overlap, lost, edits, crashes>>

\* A policy the row names is updated.  Otherwise one is created: one found under its
\* name is taken as it is, a CronJob is overwritten.
Adopts(a) == transport = "harbor" /\ op[a].host # op[a].at /\ policy[op[a].at] # "none"
Installed(a) == IF Adopts(a) THEN policy ELSE [policy EXCEPT ![op[a].at] = Fires(op[a].on)]

\* The Harbor answers 404 to a change of a policy that it no longer has.
Gone(a) == transport = "harbor" /\ op[a].host = op[a].at /\ policy[op[a].at] = "none"

\* A seeded bug: the policy on the previous Harbor is left alone.
InstallDoneBug(a) ==
  /\ ~Gone(a) /\ policy' = Installed(a)
  /\ Then(a, "record")
  /\ lost' = (lost \ IF Adopts(a) THEN {} ELSE {op[a].at}) \union Astray(a)

InstallDone(a) ==
  /\ ~Gone(a) /\ policy' = Installed(a)
  /\ Then(a, IF op[a].host \in {None, op[a].at} THEN "record" ELSE "move")
  /\ lost' = (lost \ IF Adopts(a) THEN {} ELSE {op[a].at}) \union Astray(a)

\* It is refused, or its answer is lost.
InstallFails(a) ==
  /\ policy' \in {policy} \union (IF AnswersLost /\ ~Gone(a) THEN {Installed(a)} ELSE {})
  /\ Then(a, "fail")
  /\ lost' = lost \union Astray(a)
              \union IF policy'[op[a].at] # "none" /\ op[a].host # op[a].at THEN {op[a].at} ELSE {}

Install(a) ==
  /\ op[a].pc = "install"
  /\ InstallDone(a) \/ InstallFails(a)
  /\ UNCHANGED <<transport, row, overlap, edits, crashes>>

\* removeHarborMirror, removeSkopeoMirror: whether or not it works.
Uninstall(a, next) ==
  /\ \/ /\ policy' = [policy EXCEPT ![op[a].host] = "none"]
        /\ lost' = (lost \ {op[a].host}) \union Astray(a)
     \/ /\ policy[op[a].host] # "none" /\ UNCHANGED policy
        /\ lost' = lost \union {op[a].host} \union Astray(a)
  /\ Then(a, next)
  /\ UNCHANGED <<transport, row, overlap, edits, crashes>>

\* The policy host moved: the one on the previous Harbor goes.
Move(a) == op[a].pc = "move" /\ Uninstall(a, "record")

\* The row may have been deleted meanwhile: what was installed stays.
Record(a) ==
  /\ op[a].pc = "record"
  /\ row' = IF row = None THEN None ELSE [row EXCEPT !.host = op[a].at, !.applied = TRUE]
  /\ lost' = lost \union Astray(a)
  /\ Ends(a)
  /\ UNCHANGED <<transport, policy, overlap, edits, crashes>>

Fail(a) ==
  /\ op[a].pc = "fail"
  /\ row' = IF row = None THEN None ELSE [row EXCEPT !.applied = FALSE]
  /\ lost' = lost \union Astray(a)
  /\ Ends(a)
  /\ UNCHANGED <<transport, policy, overlap, edits, crashes>>

-----------------------------------------------------------------------------
(* Deleting.                                                               *)

Remove(a) == op[a].pc = "uninstall" /\ Uninstall(a, "drop")

Drop(a) ==
  /\ op[a].pc = "drop"
  /\ row' = None /\ lost' = lost \union Astray(a)
  /\ Ends(a)
  /\ UNCHANGED <<transport, policy, overlap, edits, crashes>>

\* The handler dies; what it did and did not record may not be what the row says.
Crash(a) ==
  /\ op[a] # Idle /\ crashes < MaxCrashes /\ crashes' = crashes + 1
  /\ lost' = lost \union Known(a)
  /\ Ends(a)
  /\ UNCHANGED <<transport, row, policy, overlap, edits>>

Step(a) ==
  \/ (\E on \in BOOLEAN : Create(a, on) \/ Update(a, on)) \/ Apply(a) \/ Delete(a)
  \/ Load(a) \/ Pick(a) \/ Install(a) \/ Move(a) \/ Record(a) \/ Fail(a) \/ Remove(a) \/ Drop(a)
  \/ Crash(a)

Next == \E a \in Handler : Step(a)

Spec == Init /\ [][Next]_vars

-----------------------------------------------------------------------------
(* Properties.                                                             *)

AtRest == \A a \in Handler : op[a] = Idle

\* The mirror fires from one place, the one its row names, but for what a refused
\* removal, a lost answer, a crash, or requests that overlapped left behind.
OneSchedule ==
  AtRest => \A h \in Host \ lost : policy[h] # "none" => row # None /\ row.host = h

\* What is shown as applied is what is installed.  A crash, or requests that overlap
\* (service.ts, "never drift apart", takes no lock), can leave it otherwise, but not
\* for longer than until it is applied again by a request that nothing overlaps.
AppliedIsInstalled ==
  AtRest /\ row # None /\ row.applied /\ row.host \notin lost => policy[row.host] = Fires(row.on)

=============================================================================
