------------------------------- MODULE CatchUp -------------------------------
(***************************************************************************)
(* The catch-up of one active replication link (replication-catchup.ts): a *)
(* Harbor that was away is told to pull in what it missed by an execution  *)
(* of the link's policy on the source Harbor, which the worker starts, or  *)
(* adopts, and follows to its end.  A visit of the worker holds the        *)
(* replication lock, as does the pass that asks for the catch-up, so no    *)
(* request falls within a visit.  A link that is not active is one the     *)
(* worker does not visit.                                                  *)
(***************************************************************************)
EXTENDS Naturals, FiniteSets

CONSTANTS
  None,        \* no execution
  MaxAsks,     \* bound: requests
  Slot,        \* executions under way or referred to at one time
  MaxCrashes   \* bound: deaths of the worker

VARIABLES
  asked,     \* catchUpRequested
  tracked,   \* executionId
  last,      \* lastExecutionId
  runs,      \* the executions of the policy that are under way or referred to
  visit,     \* what the worker is doing
  asks,      \* history: requests so far
  adopted,   \* history: whether the execution in "last" was found, not started
  healthy,   \* whether the faults have come to an end
  crashes

vars == <<asked, tracked, last, runs, visit, asks, adopted, healthy, crashes>>

Status == {"InProgress", "Succeed", "Failed"}   \* Stopped and Error are as Failed

\* ours: started by the worker; since: the requests made before it was started;
\* gone: Harbor has purged its record.
Execution == [manual : BOOLEAN, ours : BOOLEAN, status : Status, failed : 0..1,
              since : 0..MaxAsks, gone : BOOLEAN]
NoExecution == [manual |-> FALSE, ours |-> FALSE, status |-> "Failed", failed |-> 0,
                since |-> 0, gone |-> TRUE]

\* A Succeed with failed tasks is a failure.
Outcome(r) ==
  IF r.status = "Succeed" /\ r.failed = 0 THEN "succeeded"
  ELSE IF r.status = "InProgress" THEN "running" ELSE "failed"

Running == {i \in Slot : Outcome(runs[i]) = "running"}

\* An execution that is over, and that no row refers to, is of no more account.
Referred(rs, ids) ==
  [i \in Slot |-> IF Outcome(rs[i]) = "running" \/ i \in ids THEN rs[i] ELSE NoExecution]

Idle == [pc |-> "idle", id |-> None, found |-> FALSE]

TypeOK ==
  /\ asked \in BOOLEAN /\ adopted \in BOOLEAN /\ healthy \in BOOLEAN
  /\ {tracked, last} \subseteq Slot \union {None}
  /\ runs \in [Slot -> Execution]
  /\ visit \in [pc : {"idle", "post", "record"}, id : Slot \union {None},
                found : BOOLEAN]
  /\ asks \in 0..MaxAsks /\ crashes \in 0..MaxCrashes

\* A link is created with a catch-up requested (its activation is the first).
Init ==
  /\ asked = TRUE /\ tracked = None /\ last = None
  /\ runs = [i \in Slot |-> NoExecution] /\ visit = Idle
  /\ asks = 1 /\ adopted = FALSE /\ healthy = FALSE /\ crashes = 0

-----------------------------------------------------------------------------
\* The queue of the destination was replayed to its end, or the link came back.
Ask ==
  /\ visit = Idle /\ asks < MaxAsks
  /\ asked' = TRUE /\ asks' = asks + 1
  /\ UNCHANGED <<tracked, last, runs, visit, adopted, healthy, crashes>>

\* A seeded bug: a copy that failed is not asked for again.
PollOnceBug ==
  /\ visit = Idle /\ tracked # None
  /\ LET out == Outcome(runs[tracked]) IN
     /\ asked' = (asked \/ runs[tracked].gone)
     /\ tracked' = IF runs[tracked].gone \/ out # "running" THEN None ELSE tracked
  /\ UNCHANGED <<last, runs, visit, asks, adopted, healthy, crashes>>

\* A read that fails keeps the id, and is no step of the model.
Poll ==
  /\ visit = Idle /\ tracked # None
  /\ LET out == Outcome(runs[tracked]) IN
     /\ asked' = (asked \/ runs[tracked].gone \/ out = "failed")
     /\ tracked' = IF runs[tracked].gone \/ out # "running" THEN None ELSE tracked
  /\ UNCHANGED <<last, runs, visit, asks, adopted, healthy, crashes>>

\* A seeded bug: an execution under way is not looked for.
ConsiderBug(due) ==
  /\ visit = Idle /\ tracked = None /\ (asked \/ due)
  /\ visit' = [Idle EXCEPT !.pc = "post"]
  /\ UNCHANGED <<asked, tracked, last, runs, asks, adopted, healthy, crashes>>

\* due: the interval between catch-ups has elapsed.
Consider(due) ==
  /\ visit = Idle /\ tracked = None /\ (asked \/ due)
  /\ IF \E i \in Running : runs[i].manual
     THEN \E i \in Running :
            /\ runs[i].manual
            /\ visit' = [pc |-> "record", id |-> i, found |-> TRUE]
     ELSE visit' = [Idle EXCEPT !.pc = "post"]
  /\ UNCHANGED <<asked, tracked, last, runs, asks, adopted, healthy, crashes>>

Start(i, manual, ours) ==
  /\ i \notin Running \union {tracked, last, visit.id}
  /\ runs' = [runs EXCEPT ![i] = [manual |-> manual, ours |-> ours, status |-> "InProgress",
                                  failed |-> 0, since |-> asks, gone |-> FALSE]]

Post ==
  /\ visit.pc = "post"
  /\ \E i \in Slot : /\ Start(i, TRUE, TRUE)
                     /\ visit' = [pc |-> "record", id |-> i, found |-> FALSE]
  /\ UNCHANGED <<asked, tracked, last, asks, adopted, healthy, crashes>>

\* The call is refused, or its answer is lost: the id is not known.
PostFails ==
  /\ visit.pc = "post" /\ ~healthy
  /\ visit' = Idle
  /\ UNCHANGED runs \/ \E i \in Slot : Start(i, TRUE, TRUE)
  /\ UNCHANGED <<asked, tracked, last, asks, adopted, healthy, crashes>>

Record ==
  /\ visit.pc = "record"
  /\ tracked' = visit.id /\ last' = visit.id /\ adopted' = visit.found
  /\ asked' = FALSE
  /\ visit' = Idle
  /\ runs' = Referred(runs, {visit.id})
  /\ UNCHANGED <<asks, healthy, crashes>>

Crash ==
  /\ ~healthy /\ visit # Idle /\ crashes < MaxCrashes
  /\ visit' = Idle
  /\ runs' = Referred(runs, {tracked, last})
  /\ crashes' = crashes + 1
  /\ UNCHANGED <<asked, tracked, last, asks, adopted, healthy>>

-----------------------------------------------------------------------------
(* The source Harbor.                                                      *)

\* A push, or somebody at the Harbor's own console.
StartForeign(manual) ==
  /\ ~healthy
  /\ \E i \in Slot : Start(i, manual, FALSE)
  /\ UNCHANGED <<asked, tracked, last, visit, asks, adopted, healthy, crashes>>

Finish(i, status, failed) ==
  /\ Outcome(runs[i]) = "running" /\ <<status, failed>> \in {<<"Succeed", 0>>, <<"Succeed", 1>>, <<"Failed", 0>>}
  /\ healthy => status = "Succeed" /\ failed = 0
  /\ runs' = Referred([runs EXCEPT ![i].status = status, ![i].failed = failed],
                      {tracked, last, visit.id})
  /\ UNCHANGED <<asked, tracked, last, visit, asks, adopted, healthy, crashes>>

Purge(i) ==
  /\ ~healthy /\ i = tracked /\ Outcome(runs[i]) # "running" /\ ~runs[i].gone
  /\ runs' = [runs EXCEPT ![i].gone = TRUE]
  /\ UNCHANGED <<asked, tracked, last, visit, asks, adopted, healthy, crashes>>

Heal ==
  /\ ~healthy /\ healthy' = TRUE
  /\ UNCHANGED <<asked, tracked, last, runs, visit, asks, adopted, crashes>>

Ends == \E i \in Slot, status \in Status, failed \in 0..1 : Finish(i, status, failed)

Next ==
  \/ Ask \/ Poll \/ Post \/ PostFails \/ Record \/ Crash \/ Heal \/ Ends
  \/ \E due \in BOOLEAN : (due => ~healthy /\ ~asked) /\ Consider(due)
  \/ \E manual \in BOOLEAN : StartForeign(manual)
  \/ \E i \in Slot : Purge(i)

Spec == Init /\ [][Next]_vars

\* The worker comes round every few seconds, and Harbor ends what it starts.
FairSpec ==
  /\ Spec
  /\ WF_vars(Heal) /\ WF_vars(Ends)
  /\ WF_vars(Poll) /\ WF_vars(Consider(FALSE)) /\ WF_vars(Post) /\ WF_vars(Record)

-----------------------------------------------------------------------------
\* Only one copy the worker started is under way at a time, though it may have died,
\* or lost the answer, before it knew the id (replication-catchup.ts: "adopt an
\* in-flight manual execution after a crash between Harbor's POST and our DB update").
OneCopyAtATime == Cardinality({i \in Running : runs[i].ours}) <= 1

\* A request that is no longer recorded, and for which nothing is followed any more,
\* was met by an execution that succeeded and was started after it, unless the worker
\* adopted one it found under way, which may have passed what was missed before it
\* was missed.
CopyIsOwed ==
  ~asked /\ tracked = None =>
    /\ last # None
    /\ Outcome(runs[last]) = "succeeded"
    /\ adopted \/ runs[last].since = asks

\* Once Harbor answers and copies succeed, every request is met.
CaughtUp == ~asked /\ tracked = None
CatchesUp == <>[]CaughtUp

=============================================================================
