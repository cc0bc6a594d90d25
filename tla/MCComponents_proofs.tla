------------------------ MODULE MCComponents_proofs ------------------------
(***************************************************************************)
(* What holds of the components of MCComponents, each for any instance of  *)
(* it: the catch-up of a replication policy, a mirror, the requests people *)
(* make about a project, a build, and the next run of a schedule.  The     *)
(* theorems about MCComponents are at the end: they follow from those      *)
(* about the components, of which SettingSync has its proofs in a module   *)
(* of its own.                                                             *)
(***************************************************************************)
EXTENDS MCComponents, Integers, FiniteSetTheorems, TLAPS

\* The sizes the components speak of are sizes.
LEMMA Sizes ==
  ASSUME NEW S, NEW how
  PROVE  Copies!Cardinality(S) = Cardinality(S) /\ Review(how)!Cardinality(S) = Cardinality(S)
  BY DEF Copies!Cardinality, Review!Cardinality, Cardinality

-----------------------------------------------------------------------------
(* The catch-up of a policy: types.                                        *)

\* What the constants have to be: no execution is None, and one request is made.
CopySorts == None \notin CopySlot /\ MaxCopies \in Nat \ {0} /\ MaxCrashes \in Nat

\* The worker's visit has read what it is about to record.
CopyTypeInv ==
  /\ Copies!TypeOK
  /\ visit.pc = "idle" => visit = Copies!Idle
  /\ visit.pc = "record" => visit.id \in CopySlot

\* A record that is no more is that of an execution that is over.
LEMMA NoneOver ==
  ASSUME CopySorts
  PROVE  Copies!NoExecution \in Copies!Execution /\ Copies!Outcome(Copies!NoExecution) = "failed" /\ ~Copies!NoExecution.ours
  BY DEF CopySorts, Copies!NoExecution, Copies!Execution, Copies!Status, Copies!Outcome

\* What is kept of the executions: those that are under way or referred to.
LEMMA ReferredKeeps ==
  ASSUME CopySorts, NEW rs \in [CopySlot -> Copies!Execution], NEW ids
  PROVE  /\ Copies!Referred(rs, ids) \in [CopySlot -> Copies!Execution]
         /\ \A i \in CopySlot : Copies!Referred(rs, ids)[i] \in {rs[i], Copies!NoExecution}
         /\ \A i \in CopySlot : i \in ids \/ Copies!Outcome(rs[i]) = "running" => Copies!Referred(rs, ids)[i] = rs[i]
  BY NoneOver DEF Copies!Referred

\* An execution that begins.
LEMMA CopyStarted ==
  ASSUME CopySorts, CopyTypeInv, NEW i \in CopySlot, NEW manual \in BOOLEAN, NEW ours \in BOOLEAN,
         Copies!Start(i, manual, ours)
  PROVE  /\ runs' \in [CopySlot -> Copies!Execution]
         /\ \A j \in CopySlot \ {i} : runs'[j] = runs[j]
         /\ Copies!Outcome(runs'[i]) = "running" /\ runs'[i].ours = ours /\ runs'[i].manual = manual
         /\ runs'[i].since = asks
         /\ i \notin Copies!Running /\ i # tracked /\ i # last /\ i # visit.id
<1>1. PICK r : r = [manual |-> manual, ours |-> ours, status |-> "InProgress",
                    failed |-> 0, since |-> asks, gone |-> FALSE]
  OBVIOUS
<1>2. r \in Copies!Execution /\ Copies!Outcome(r) = "running" /\ r.ours = ours /\ r.manual = manual
      /\ r.since = asks
  BY <1>1 DEF Copies!Execution, Copies!Status, Copies!Outcome, CopyTypeInv, Copies!TypeOK
<1>3. runs' = [runs EXCEPT ![i] = r]
  BY <1>1 DEF Copies!Start
<1>4. runs \in [CopySlot -> Copies!Execution]
  BY DEF CopyTypeInv, Copies!TypeOK
<1>5. runs' \in [CopySlot -> Copies!Execution] /\ runs'[i] = r /\ \A j \in CopySlot \ {i} : runs'[j] = runs[j]
  BY <1>2, <1>3, <1>4
<1> QED
  BY <1>2, <1>5 DEF Copies!Start

\* An execution that ends, and those that are then of no more account.
LEMMA CopyFinished ==
  ASSUME CopySorts, CopyTypeInv, NEW i \in CopySlot, NEW status \in Copies!Status,
         NEW failed \in 0..1,
         Copies!Finish(i, status, failed)
  PROVE  /\ runs' \in [CopySlot -> Copies!Execution]
         /\ Copies!Outcome(runs[i]) = "running" /\ Copies!Outcome(runs'[i]) # "running"
         /\ \/ runs'[i] = Copies!NoExecution /\ i \notin {tracked, last, visit.id}
            \/ /\ runs'[i].ours = runs[i].ours /\ runs'[i].manual = runs[i].manual
               /\ runs'[i].since = runs[i].since
         /\ \A j \in CopySlot \ {i} : runs'[j] \in {runs[j], Copies!NoExecution}
         /\ \A j \in CopySlot \ {i} :
              j \in {tracked, last, visit.id} \/ j \in Copies!Running => runs'[j] = runs[j]
<1>1. PICK rs : rs = [runs EXCEPT ![i].status = status, ![i].failed = failed]
  OBVIOUS
<1>2. runs \in [CopySlot -> Copies!Execution] /\ runs[i] \in Copies!Execution
  BY DEF CopyTypeInv, Copies!TypeOK
<1>3. /\ rs \in [CopySlot -> Copies!Execution] /\ \A j \in CopySlot \ {i} : rs[j] = runs[j]
      /\ rs[i] = [runs[i] EXCEPT !.status = status, !.failed = failed]
  BY <1>1, <1>2 DEF Copies!Execution
<1>4. /\ rs[i].status = status /\ rs[i].failed = failed /\ rs[i].ours = runs[i].ours
      /\ rs[i].manual = runs[i].manual /\ rs[i].since = runs[i].since
  BY <1>2, <1>3 DEF Copies!Execution
<1>5. runs' = Copies!Referred(rs, {tracked, last, visit.id}) /\ Copies!Outcome(runs[i]) = "running"
      /\ status # "InProgress"
  BY <1>1 DEF Copies!Finish
<1>6. Copies!Outcome(rs[i]) # "running"
  BY <1>4, <1>5 DEF Copies!Outcome
<1>7. /\ runs' \in [CopySlot -> Copies!Execution]
      /\ \A j \in CopySlot : runs'[j] \in {rs[j], Copies!NoExecution}
      /\ \A j \in CopySlot : j \in {tracked, last, visit.id} \/ Copies!Outcome(rs[j]) = "running"
                           => runs'[j] = rs[j]
  BY <1>3, <1>5, ReferredKeeps
<1>8. Copies!Outcome(runs'[i]) # "running"
  BY <1>6, <1>7, NoneOver
<1> QED
  BY <1>3, <1>4, <1>5, <1>7, <1>8 DEF Copies!Running

\* The worker's record of what it found or started, or its death, makes executions of no
\* more account.
LEMMA CopyDropped ==
  ASSUME CopySorts, CopyTypeInv, NEW ids, runs' = Copies!Referred(runs, ids)
  PROVE  /\ runs' \in [CopySlot -> Copies!Execution]
         /\ \A i \in CopySlot : runs'[i] \in {runs[i], Copies!NoExecution}
         /\ \A i \in CopySlot : i \in ids => runs'[i] = runs[i]
  BY ReferredKeeps DEF CopyTypeInv, Copies!TypeOK

\* Any step keeps the types.
LEMMA CopyTypeNext == ASSUME CopySorts, CopyTypeInv, [Copies!Next]_Copies!vars PROVE CopyTypeInv'
<1>a. /\ asked \in BOOLEAN /\ adopted \in BOOLEAN /\ healthy \in BOOLEAN
      /\ tracked \in CopySlot \union {None} /\ last \in CopySlot \union {None}
      /\ runs \in [CopySlot -> Copies!Execution]
      /\ visit \in [pc : {"idle", "post", "record"}, id : CopySlot \union {None}, found : BOOLEAN]
      /\ asks \in 0..MaxCopies /\ crashes \in 0..MaxCrashes
      /\ visit.pc = "idle" => visit = Copies!Idle
      /\ visit.pc = "record" => visit.id \in CopySlot
  BY DEF CopyTypeInv, Copies!TypeOK
<1>b. SUFFICES
        /\ asked' \in BOOLEAN /\ adopted' \in BOOLEAN /\ healthy' \in BOOLEAN
        /\ tracked' \in CopySlot \union {None} /\ last' \in CopySlot \union {None}
        /\ runs' \in [CopySlot -> Copies!Execution]
        /\ visit' \in [pc : {"idle", "post", "record"}, id : CopySlot \union {None}, found : BOOLEAN]
        /\ asks' \in 0..MaxCopies /\ crashes' \in 0..MaxCrashes
        /\ visit'.pc = "idle" => visit' = Copies!Idle
        /\ visit'.pc = "record" => visit'.id \in CopySlot
  BY DEF CopyTypeInv, Copies!TypeOK
<1>c. Copies!Idle \in [pc : {"idle", "post", "record"}, id : CopySlot \union {None}, found : BOOLEAN]
      /\ Copies!Idle.pc = "idle"
  BY DEF Copies!Idle
<1>1. CASE UNCHANGED Copies!vars
  BY <1>1, <1>a DEF Copies!vars
<1>2. CASE Copies!Ask
  BY <1>2, <1>a, <1>c DEF Copies!Ask, CopySorts
<1>3. CASE Copies!Poll
  BY <1>3, <1>a, <1>c DEF Copies!Poll
<1>4. CASE Copies!Post
  <2>1. PICK i \in CopySlot : Copies!Start(i, TRUE, TRUE) /\ visit' = [pc |-> "record", id |-> i, found |-> FALSE]
    BY <1>4 DEF Copies!Post
  <2>2. runs' \in [CopySlot -> Copies!Execution]
    BY <2>1, CopyStarted
  <2> QED
    BY <1>4, <1>a, <2>1, <2>2 DEF Copies!Post
<1>5. CASE Copies!PostFails
  <2>1. runs' \in [CopySlot -> Copies!Execution]
    BY <1>5, <1>a, CopyStarted DEF Copies!PostFails
  <2> QED
    BY <1>5, <1>a, <1>c, <2>1 DEF Copies!PostFails
<1>6. CASE Copies!Record
  <2>1. runs' \in [CopySlot -> Copies!Execution]
    BY <1>6, CopyDropped DEF Copies!Record
  <2> QED
    BY <1>6, <1>a, <1>c, <2>1 DEF Copies!Record
<1>7. CASE Copies!Crash
  <2>1. runs' \in [CopySlot -> Copies!Execution]
    BY <1>7, CopyDropped DEF Copies!Crash
  <2> QED
    BY <1>7, <1>a, <1>c, <2>1 DEF Copies!Crash, CopySorts
<1>8. CASE Copies!Heal
  BY <1>8, <1>a DEF Copies!Heal
<1>9. ASSUME NEW i \in CopySlot, NEW status \in Copies!Status, NEW failed \in 0..1,
             Copies!Finish(i, status, failed)
      PROVE  <1>b!1
  <2>1. runs' \in [CopySlot -> Copies!Execution]
    BY <1>9, CopyFinished
  <2> QED
    BY <1>9, <1>a, <2>1 DEF Copies!Finish
<1>10. ASSUME NEW due \in BOOLEAN, Copies!Consider(due) PROVE <1>b!1
  <2>1. \/ visit' = [Copies!Idle EXCEPT !.pc = "post"]
        \/ \E i \in CopySlot : visit' = [pc |-> "record", id |-> i, found |-> TRUE]
    BY <1>10 DEF Copies!Consider, Copies!Running
  <2>2. UNCHANGED <<asked, tracked, last, runs, asks, adopted, healthy, crashes>>
    BY <1>10 DEF Copies!Consider
  <2>3. CASE visit' = [Copies!Idle EXCEPT !.pc = "post"]
    <3>1. visit' = [pc |-> "post", id |-> None, found |-> FALSE]
      BY <2>3 DEF Copies!Idle
    <3> QED
      BY <1>a, <2>2, <3>1
  <2>4. ASSUME NEW i \in CopySlot, visit' = [pc |-> "record", id |-> i, found |-> TRUE] PROVE <1>b!1
    BY <1>a, <2>2, <2>4
  <2> QED
    BY <2>1, <2>3, <2>4
<1>11. ASSUME NEW manual \in BOOLEAN, Copies!StartForeign(manual) PROVE <1>b!1
  <2>1. runs' \in [CopySlot -> Copies!Execution]
    BY <1>11, CopyStarted DEF Copies!StartForeign
  <2> QED
    BY <1>11, <1>a, <2>1 DEF Copies!StartForeign
<1>12. ASSUME NEW i \in CopySlot, Copies!Purge(i) PROVE <1>b!1
  <2>1. runs' \in [CopySlot -> Copies!Execution]
    BY <1>12, <1>a DEF Copies!Purge, Copies!Execution
  <2> QED
    BY <1>12, <1>a, <2>1 DEF Copies!Purge
<1> QED
  BY <1>1, <1>2, <1>3, <1>4, <1>5, <1>6, <1>7, <1>8, <1>9, <1>10, <1>11, <1>12
     DEF Copies!Next, Copies!Ends

\* The types hold at first.
LEMMA CopyTypeInit == ASSUME CopySorts, Copies!Init PROVE CopyTypeInv
<1>1. runs \in [CopySlot -> Copies!Execution]
  BY NoneOver DEF Copies!Init
<1>2. asks \in 0..MaxCopies /\ crashes \in 0..MaxCrashes
  BY DEF Copies!Init, CopySorts
<1> QED
  BY <1>1, <1>2 DEF Copies!Init, CopyTypeInv, Copies!TypeOK, Copies!Idle

\* The link's row, the executions and the worker stay in their ranges, whatever fails.
THEOREM CopyTypes == ASSUME CopySorts PROVE Copies!Spec => []Copies!TypeOK
<1>1. Copies!Init => CopyTypeInv
  BY CopyTypeInit
<1>2. CopyTypeInv /\ [Copies!Next]_Copies!vars => CopyTypeInv'
  BY CopyTypeNext
<1>3. CopyTypeInv => Copies!TypeOK
  BY DEF CopyTypeInv
<1> QED
  BY <1>1, <1>2, <1>3, PTL DEF Copies!Spec

-----------------------------------------------------------------------------
(* The catch-up of a policy: one copy at a time.                           *)

\* The executions the worker started that are under way.
Ours == {i \in Copies!Running : runs[i].ours}

\* What the worker starts is a manual execution; it starts none while one is under way.
CopyInv ==
  /\ CopyTypeInv
  /\ \A i \in CopySlot : runs[i].ours => runs[i].manual
  /\ visit.pc = "post" => Ours = {}
  /\ \A i, j \in Ours : i = j

\* Nothing that the worker started begins.
LEMMA FewerCopies ==
  ASSUME CopySorts, CopyInv, CopyTypeInv', visit'.pc = "post" => visit.pc = "post",
         \A i \in CopySlot : runs'[i] = Copies!NoExecution \/
           /\ runs'[i].ours = runs[i].ours /\ runs'[i].manual = runs[i].manual
           /\ Copies!Outcome(runs'[i]) = "running" => Copies!Outcome(runs[i]) = "running"
  PROVE  CopyInv'
<1>1. \A i \in CopySlot : runs'[i].ours => runs[i].ours /\ runs'[i].manual
  BY NoneOver DEF CopyInv
<1>2. Ours' \subseteq Ours
  BY <1>1, NoneOver DEF Ours, Copies!Running
<1> QED
  BY <1>1, <1>2 DEF CopyInv

\* Any step leaves one copy at a time.
LEMMA CopyNext == ASSUME CopySorts, CopyInv, [Copies!Next]_Copies!vars PROVE CopyInv'
<1>a. CopyTypeInv /\ CopyTypeInv'
  BY CopyTypeNext DEF CopyInv
<1>b. ASSUME runs' = runs, visit'.pc # "post" \/ visit'.pc = visit.pc PROVE CopyInv'
  BY <1>a, <1>b, FewerCopies
\* The worker starts one while it has none under way.
<1>c. ASSUME NEW i \in CopySlot, Copies!Start(i, TRUE, TRUE), visit.pc = "post", visit'.pc # "post"
      PROVE  CopyInv'
  <2>1. /\ \A j \in CopySlot \ {i} : runs'[j] = runs[j]
        /\ runs'[i].ours = TRUE /\ runs'[i].manual = TRUE
    BY <1>a, <1>c, CopyStarted
  <2>2. Ours = {}
    BY <1>c DEF CopyInv
  <2>3. Ours' \subseteq {i}
    BY <2>1, <2>2 DEF Ours, Copies!Running
  <2> QED
    BY <1>a, <1>c, <2>1, <2>3 DEF CopyInv
<1>1. CASE UNCHANGED Copies!vars
  BY <1>1, <1>b DEF Copies!vars
<1>2. CASE Copies!Ask \/ Copies!Poll \/ Copies!Heal
  <2>1. runs' = runs /\ visit' = visit
    BY <1>2 DEF Copies!Ask, Copies!Poll, Copies!Heal
  <2> QED
    BY <1>b, <2>1
<1>3. CASE Copies!Post
  <2>1. PICK i \in CopySlot : Copies!Start(i, TRUE, TRUE) /\ visit' = [pc |-> "record", id |-> i, found |-> FALSE]
    BY <1>3 DEF Copies!Post
  <2>2. visit.pc = "post" /\ visit'.pc = "record"
    BY <1>3, <2>1 DEF Copies!Post
  <2> QED
    BY <1>c, <2>1, <2>2
<1>4. CASE Copies!PostFails
  <2>1. visit.pc = "post" /\ visit'.pc # "post"
    BY <1>4 DEF Copies!PostFails, Copies!Idle
  <2> QED
    BY <1>4, <1>b, <1>c, <2>1 DEF Copies!PostFails
<1>5. CASE Copies!Record \/ Copies!Crash
  <2>1. visit'.pc # "post"
    BY <1>5 DEF Copies!Record, Copies!Crash, Copies!Idle
  <2>2. \A i \in CopySlot : runs'[i] \in {runs[i], Copies!NoExecution}
    BY <1>5, <1>a, CopyDropped DEF Copies!Record, Copies!Crash
  <2> QED
    BY <1>a, <2>1, <2>2, FewerCopies
<1>6. ASSUME NEW i \in CopySlot, NEW status \in Copies!Status, NEW failed \in 0..1,
             Copies!Finish(i, status, failed)
      PROVE  CopyInv'
  <2>1. visit' = visit
    BY <1>6 DEF Copies!Finish
  <2>2. \A j \in CopySlot : runs'[j] = Copies!NoExecution \/
           /\ runs'[j].ours = runs[j].ours /\ runs'[j].manual = runs[j].manual
           /\ Copies!Outcome(runs'[j]) = "running" => Copies!Outcome(runs[j]) = "running"
    BY <1>6, <1>a, CopyFinished
  <2> QED
    BY <1>a, <2>1, <2>2, FewerCopies
\* It starts one only when it finds none, whoever started it.
<1>7. ASSUME NEW due \in BOOLEAN, Copies!Consider(due) PROVE CopyInv'
  <2>1. CASE \E i \in Copies!Running : runs[i].manual
    BY <1>7, <1>b, <2>1 DEF Copies!Consider
  <2>2. CASE ~\E i \in Copies!Running : runs[i].manual
    <3>1. Ours = {}
      BY <2>2 DEF Ours, CopyInv, Copies!Running
    <3>2. runs' = runs
      BY <1>7 DEF Copies!Consider
    <3> QED
      BY <1>a, <3>1, <3>2 DEF CopyInv, Ours, Copies!Running
  <2> QED
    BY <2>1, <2>2
<1>8. ASSUME NEW manual \in BOOLEAN, Copies!StartForeign(manual) PROVE CopyInv'
  <2>1. PICK i \in CopySlot : Copies!Start(i, manual, FALSE)
    BY <1>8 DEF Copies!StartForeign
  <2>2. (\A j \in CopySlot \ {i} : runs'[j] = runs[j]) /\ ~runs'[i].ours
    BY <1>a, <2>1, CopyStarted
  <2>3. visit' = visit
    BY <1>8 DEF Copies!StartForeign
  <2>4. Ours' \subseteq Ours
    BY <2>2 DEF Ours, Copies!Running
  <2> QED
    BY <1>a, <2>2, <2>3, <2>4 DEF CopyInv
<1>9. ASSUME NEW i \in CopySlot, Copies!Purge(i) PROVE CopyInv'
  <2>1. runs' = [runs EXCEPT ![i].gone = TRUE] /\ visit' = visit /\ runs \in [CopySlot -> Copies!Execution]
    BY <1>9, <1>a DEF Copies!Purge, CopyTypeInv, Copies!TypeOK
  <2>2. \A j \in CopySlot : /\ runs'[j].ours = runs[j].ours /\ runs'[j].manual = runs[j].manual
                            /\ runs'[j].status = runs[j].status /\ runs'[j].failed = runs[j].failed
    BY <2>1 DEF Copies!Execution
  <2> QED
    BY <1>a, <2>1, <2>2, FewerCopies DEF Copies!Outcome
<1> QED
  BY <1>1, <1>2, <1>3, <1>4, <1>5, <1>6, <1>7, <1>8, <1>9 DEF Copies!Next, Copies!Ends

\* Only one copy that the worker started is under way at a time, for any number of requests,
\* of executions others start, of lost answers and of deaths between the call and its record.
THEOREM OneCopyHolds == ASSUME CopySorts PROVE Copies!Spec => []Copies!OneCopyAtATime
<1>1. Copies!Init => CopyInv
  <2> SUFFICES ASSUME Copies!Init PROVE CopyInv
    OBVIOUS
  <2>1. \A i \in CopySlot : runs[i] = Copies!NoExecution
    BY DEF Copies!Init
  <2>2. Ours = {}
    BY <2>1, NoneOver DEF Ours, Copies!Running
  <2> QED
    BY <2>1, <2>2, CopyTypeInit, NoneOver DEF CopyInv
<1>2. CopyInv /\ [Copies!Next]_Copies!vars => CopyInv'
  BY CopyNext
<1>3. CopyInv => Copies!OneCopyAtATime
  <2> SUFFICES ASSUME CopyInv PROVE Cardinality(Ours) <= 1
    BY Sizes DEF Copies!OneCopyAtATime, Ours
  <2>1. \A i, j \in Ours : i = j
    BY DEF CopyInv
  <2>2. CASE Ours = {}
    BY <2>2, FS_EmptySet
  <2>3. CASE Ours # {}
    <3>1. PICK i \in Ours : Ours = {i}
      BY <2>1, <2>3
    <3>2. Cardinality({i}) = 1
      BY FS_Singleton
    <3> QED
      BY <3>1, <3>2
  <2> QED
    BY <2>2, <2>3
<1> QED
  BY <1>1, <1>2, <1>3, PTL DEF Copies!Spec

-----------------------------------------------------------------------------
(* The catch-up of a policy: what is owed.                                 *)

\* The execution followed is the last one recorded, one the worker has just started is
\* younger than every request, and what is no longer asked was met by the last one.
OwedInv ==
  /\ CopyTypeInv
  /\ tracked # None => tracked = last
  /\ visit.pc = "record" /\ ~visit.found => runs[visit.id].since = asks
  /\ ~asked => /\ last # None
               /\ tracked = None => Copies!Outcome(runs[last]) = "succeeded"
               /\ adopted \/ runs[last].since = asks

\* The last execution recorded keeps what it was, and so does the one in hand.
LEMMA OwedStays ==
  ASSUME CopySorts, OwedInv, CopyTypeInv', UNCHANGED <<tracked, last, adopted, asks>>,
         ~asked' => ~asked,
         last # None => /\ runs'[last].since = runs[last].since
                        /\ Copies!Outcome(runs[last]) = "succeeded" => Copies!Outcome(runs'[last]) = "succeeded",
         visit'.pc = "record" /\ ~visit'.found =>
           /\ visit.pc = "record" /\ ~visit.found /\ visit'.id = visit.id
           /\ runs'[visit.id].since = runs[visit.id].since
  PROVE  OwedInv'
  BY DEF OwedInv

\* Any step keeps what is owed.
LEMMA OwedNext == ASSUME CopySorts, OwedInv, [Copies!Next]_Copies!vars PROVE OwedInv'
<1>a. CopyTypeInv /\ CopyTypeInv' /\ last \in CopySlot \union {None}
  BY CopyTypeNext DEF OwedInv, CopyTypeInv, Copies!TypeOK
<1>v. visit.pc \in {"idle", "post", "record"} /\ (visit.pc = "record" => visit.id \in CopySlot)
  BY <1>a DEF CopyTypeInv, Copies!TypeOK
<1>1. CASE UNCHANGED Copies!vars
  BY <1>1, <1>a, OwedStays DEF Copies!vars
<1>2. CASE Copies!Ask
  BY <1>2, <1>a DEF Copies!Ask, OwedInv, Copies!Idle
<1>3. CASE Copies!Poll
  <2>1. /\ visit = Copies!Idle /\ tracked # None
        /\ asked' = (asked \/ runs[tracked].gone \/ Copies!Outcome(runs[tracked]) = "failed")
        /\ tracked' = IF runs[tracked].gone \/ Copies!Outcome(runs[tracked]) # "running" THEN None
                      ELSE tracked
        /\ UNCHANGED <<last, runs, visit, asks, adopted, healthy, crashes>>
    BY <1>3 DEF Copies!Poll
  <2>2. Copies!Outcome(runs[tracked]) \in {"succeeded", "running", "failed"}
    BY DEF Copies!Outcome
  <2> QED
    BY <1>a, <2>1, <2>2 DEF OwedInv, Copies!Idle
<1>4. CASE Copies!Post
  <2>1. PICK i \in CopySlot : Copies!Start(i, TRUE, TRUE) /\ visit' = [pc |-> "record", id |-> i, found |-> FALSE]
    BY <1>4 DEF Copies!Post
  <2>2. /\ \A j \in CopySlot \ {i} : runs'[j] = runs[j]
        /\ runs'[i].since = asks /\ i # last
    BY <1>a, <2>1, CopyStarted
  <2>3. UNCHANGED <<asked, tracked, last, asks, adopted>>
    BY <1>4 DEF Copies!Post
  <2> QED
    BY <1>a, <2>1, <2>2, <2>3 DEF OwedInv
<1>5. CASE Copies!PostFails
  <2>1. visit' = Copies!Idle /\ UNCHANGED <<asked, tracked, last, asks, adopted>>
    BY <1>5 DEF Copies!PostFails
  <2>2. last # None => runs'[last] = runs[last]
    <3>1. CASE UNCHANGED runs
      BY <3>1
    <3>2. ASSUME NEW i \in CopySlot, Copies!Start(i, TRUE, TRUE) PROVE <2>2
      <4>1. i # last /\ \A j \in CopySlot \ {i} : runs'[j] = runs[j]
        BY <1>a, <3>2, CopyStarted
      <4> QED
        BY <1>a, <4>1
    <3> QED
      BY <1>5, <3>1, <3>2 DEF Copies!PostFails
  <2> QED
    BY <1>a, <2>1, <2>2, OwedStays DEF Copies!Idle
<1>6. CASE Copies!Record
  <2>1. /\ visit.pc = "record" /\ tracked' = visit.id /\ last' = visit.id
        /\ adopted' = visit.found /\ visit' = Copies!Idle /\ asks' = asks
        /\ runs' = Copies!Referred(runs, {visit.id})
    BY <1>6 DEF Copies!Record
  <2>2. visit.id \in CopySlot /\ runs'[visit.id] = runs[visit.id]
    BY <1>a, <1>v, <2>1, CopyDropped
  <2>3. visit.id # None
    BY <2>2 DEF CopySorts
  <2> QED
    BY <1>a, <2>1, <2>2, <2>3 DEF OwedInv, Copies!Idle
<1>7. CASE Copies!Crash
  <2>1. visit' = Copies!Idle /\ UNCHANGED <<asked, tracked, last, asks, adopted>>
        /\ runs' = Copies!Referred(runs, {tracked, last})
    BY <1>7 DEF Copies!Crash
  <2>2. last # None => runs'[last] = runs[last]
    BY <1>a, <2>1, CopyDropped
  <2> QED
    BY <1>a, <2>1, <2>2, OwedStays DEF Copies!Idle
<1>8. CASE Copies!Heal
  BY <1>8, <1>a, OwedStays DEF Copies!Heal
<1>9. ASSUME NEW i \in CopySlot, NEW status \in Copies!Status, NEW failed \in 0..1,
             Copies!Finish(i, status, failed)
      PROVE  OwedInv'
  <2>1. UNCHANGED <<asked, tracked, last, visit, asks, adopted>>
    BY <1>9 DEF Copies!Finish
  <2>2. \A j \in CopySlot : j \in {last, visit.id} => runs'[j].since = runs[j].since
    BY <1>9, <1>a, CopyFinished
  <2>3. last # None /\ Copies!Outcome(runs[last]) = "succeeded" => Copies!Outcome(runs'[last]) = "succeeded"
    BY <1>9, <1>a, CopyFinished
  <2> QED
    BY <1>a, <1>v, <2>1, <2>2, <2>3, OwedStays
<1>10. ASSUME NEW due \in BOOLEAN, Copies!Consider(due) PROVE OwedInv'
  <2>1. visit'.pc # "record" \/ visit'.found
    BY <1>10 DEF Copies!Consider, Copies!Idle
  <2>2. UNCHANGED <<asked, tracked, last, runs, asks, adopted>>
    BY <1>10 DEF Copies!Consider
  <2> QED
    BY <1>a, <2>1, <2>2, OwedStays
<1>11. ASSUME NEW manual \in BOOLEAN, Copies!StartForeign(manual) PROVE OwedInv'
  <2>1. PICK i \in CopySlot : Copies!Start(i, manual, FALSE)
    BY <1>11 DEF Copies!StartForeign
  <2>2. /\ \A j \in CopySlot \ {i} : runs'[j] = runs[j]
        /\ i # last /\ i # visit.id
    BY <1>a, <2>1, CopyStarted
  <2>3. UNCHANGED <<asked, tracked, last, visit, asks, adopted>>
    BY <1>11 DEF Copies!StartForeign
  <2> QED
    BY <1>a, <1>v, <2>2, <2>3, OwedStays
<1>12. ASSUME NEW i \in CopySlot, Copies!Purge(i) PROVE OwedInv'
  <2>1. runs' = [runs EXCEPT ![i].gone = TRUE] /\ runs \in [CopySlot -> Copies!Execution]
        /\ UNCHANGED <<asked, tracked, last, visit, asks, adopted>>
    BY <1>12, <1>a DEF Copies!Purge, CopyTypeInv, Copies!TypeOK
  <2>2. \A j \in CopySlot : /\ runs'[j].since = runs[j].since
                            /\ runs'[j].status = runs[j].status /\ runs'[j].failed = runs[j].failed
    BY <2>1 DEF Copies!Execution
  <2> QED
    BY <1>a, <1>v, <2>1, <2>2, OwedStays DEF Copies!Outcome
<1> QED
  BY <1>1, <1>2, <1>3, <1>4, <1>5, <1>6, <1>7, <1>8, <1>9, <1>10, <1>11, <1>12
     DEF Copies!Next, Copies!Ends

\* A request that is no longer recorded, and for which nothing is followed any more, was met
\* by an execution that succeeded and was started after it, or adopted, for any number of
\* requests and executions, whatever fails, is purged, or dies.
THEOREM CopyHolds == ASSUME CopySorts PROVE Copies!Spec => []Copies!CopyIsOwed
<1>1. Copies!Init => OwedInv
  <2> SUFFICES ASSUME Copies!Init PROVE OwedInv
    OBVIOUS
  <2>1. asked /\ tracked = None /\ visit.pc = "idle"
    BY DEF Copies!Init, Copies!Idle
  <2> QED
    BY <2>1, CopyTypeInit DEF OwedInv
<1>2. OwedInv /\ [Copies!Next]_Copies!vars => OwedInv'
  BY OwedNext
<1>3. OwedInv => Copies!CopyIsOwed
  BY DEF OwedInv, Copies!CopyIsOwed
<1> QED
  BY <1>1, <1>2, <1>3, PTL DEF Copies!Spec

-----------------------------------------------------------------------------
(* A mirror: requests that overlap, and what they leave.                   *)

\* What the constants have to be: None is neither a host nor a row, Kubernetes is a host.
MirrorSorts ==
  /\ kube \in Host /\ None \notin Host /\ None \notin Mirror!Row
  /\ MaxEdits \in Nat /\ MaxCrashes \in Nat

\* A handler knows where it installs once it has picked a host, and what it removes.
OpsAreRead ==
  \A a \in Editor :
    /\ op[a].pc = "idle" => op[a] = Mirror!Idle
    /\ op[a].pc \in {"install", "move", "record"} => op[a].at \in Host
    /\ op[a].pc \in {"move", "uninstall"} => op[a].host \in Host
    /\ op[a].pc = "move" => op[a].host # op[a].at

\* A handler that nothing overlaps works on the row as it read it; what it installed is
\* there, and what it removed is not, or is recorded as left behind.
AloneKnows(a) ==
  /\ row # None /\ \A b \in Editor : op[b] # Mirror!Idle => b = a
  /\ op[a].pc # "load" => op[a].host = row.host
  /\ op[a].pc \in {"pick", "install", "move", "record"} => op[a].on = row.on
  /\ op[a].pc \in {"move", "record"} =>
       op[a].at \in lost \/ policy[op[a].at] = Mirror!Fires(op[a].on)
  /\ op[a].pc = "record" =>
       op[a].host \in lost \union {None, op[a].at} \/ policy[op[a].host] = "none"
  /\ op[a].pc = "drop" => op[a].host \in lost \union {None} \/ policy[op[a].host] = "none"
Alone == ~overlap => \A a \in Editor : op[a] # Mirror!Idle => AloneKnows(a)

\* A policy is the one the row names, or the one about to be recorded, unless its host is
\* recorded as one where something may have been left behind.
EachIsNamed ==
  \A h \in Host \ lost : policy[h] # "none" =>
    \/ row # None /\ row.host = h
    \/ \E a \in Editor : op[a].pc \in {"move", "record"} /\ op[a].at = h

\* The mirror is created by the first request; while requests overlap, the host its row
\* names is one where something may have been left behind; and what is shown as applied is
\* installed, unless a handler that nothing overlaps is at work on it.
RowIsTrue ==
  /\ edits = 0 => row = None
  /\ overlap /\ row # None => row.host \in lost \union {None}
  /\ row # None /\ row.applied =>
       /\ row.host \in Host
       /\ \/ row.host \in lost \/ policy[row.host] = Mirror!Fires(row.on)
          \/ ~overlap /\ \E a \in Editor : op[a] # Mirror!Idle

MirrorInv == Mirror!TypeOK /\ OpsAreRead /\ Alone /\ EachIsNamed /\ RowIsTrue

\* A handler that moves leaves the others where they are.
LEMMA OneMoves ==
  ASSUME Mirror!TypeOK, NEW a \in Editor, NEW r \in Mirror!Op, op' = [op EXCEPT ![a] = r]
  PROVE  op' \in [Editor -> Mirror!Op] /\ op'[a] = r /\ \A b \in Editor \ {a} : op'[b] = op[b]
  BY DEF Mirror!TypeOK

\* A handler at rest knows nothing.
LEMMA RestIs ==
  /\ Mirror!Idle.pc = "idle" /\ Mirror!Idle.on = FALSE
  /\ Mirror!Idle.host = None /\ Mirror!Idle.at = None
  /\ Mirror!Idle \in Mirror!Op
  BY DEF Mirror!Idle, Mirror!Op

\* The types, one by one.
LEMMA MirrorTyped ==
  ASSUME MirrorSorts, Mirror!TypeOK, NEW a \in Editor
  PROVE  /\ op[a] \in Mirror!Op /\ op[a].host \in Host \union {None} /\ op[a].at \in Host \union {None}
         /\ op[a].on \in BOOLEAN
         /\ row # None => row \in Mirror!Row /\ row.host \in Host \union {None} /\ row.on \in BOOLEAN
         /\ policy \in [Host -> {"none", "on", "off"}] /\ lost \subseteq Host /\ overlap \in BOOLEAN
         /\ Mirror!Named \subseteq Host /\ Mirror!Known(a) \subseteq Host
         /\ Mirror!Astray(a) \subseteq Host
         /\ edits \in 0..MaxEdits /\ crashes \in 0..MaxCrashes
         /\ transport \in {"harbor", "skopeo"} /\ None \notin Host
  BY DEF MirrorSorts, Mirror!TypeOK, Mirror!Op, Mirror!Row, Mirror!Named, Mirror!Known, Mirror!Astray

\* A request begins with a handler at rest; with another at work, it overlaps.
LEMMA RequestKeeps ==
  ASSUME MirrorSorts, MirrorInv, NEW a \in Editor, NEW first \in Mirror!Op,
         Mirror!Request(a, first), row' \in Mirror!Row,
         first.pc \in {"load", "drop", "uninstall"},
         first.pc # "load" => first.host = row'.host,
         first.pc = "drop" => first.host = None,
         first.pc = "uninstall" => first.host \in Host,
         IF row = None THEN edits = 0 /\ row'.host = None /\ ~row'.applied
         ELSE row'.host = row.host /\ row'.applied = row.applied
  PROVE  MirrorInv'
<1>a. /\ op[a] = Mirror!Idle /\ edits' = edits + 1 /\ op' = [op EXCEPT ![a] = first]
      /\ overlap' = \E b \in Editor : op[b] # Mirror!Idle
      /\ lost' = lost \union IF overlap' THEN Mirror!Named ELSE {}
      /\ UNCHANGED <<transport, policy, crashes>>
      /\ edits < MaxEdits
  BY DEF Mirror!Request
<1>b. /\ op' \in [Editor -> Mirror!Op] /\ op'[a] = first
      /\ \A b \in Editor \ {a} : op'[b] = op[b]
  BY <1>a, OneMoves DEF MirrorInv
<1>c. /\ row # None => row.host \in Host \union {None}
      /\ lost \subseteq Host /\ None \notin Host /\ edits \in Nat /\ Mirror!Named \subseteq Host
      /\ row' # None
  BY MirrorTyped DEF MirrorInv, MirrorSorts
<1>d. first # Mirror!Idle
  BY RestIs
<1>1. Mirror!TypeOK'
  BY <1>a, <1>b, <1>c DEF MirrorInv, Mirror!TypeOK, MirrorSorts
<1>2. OpsAreRead'
  BY <1>b, RestIs DEF MirrorInv, OpsAreRead
<1>3. Alone'
  <2> SUFFICES ASSUME ~overlap', NEW b \in Editor, op'[b] # Mirror!Idle
               PROVE  AloneKnows(b)'
    BY DEF Alone
  <2>1. b = a /\ \A c \in Editor : op'[c] # Mirror!Idle => c = a
    BY <1>a, <1>b
  <2> QED
    BY <1>b, <1>c, <2>1 DEF AloneKnows
<1>4. EachIsNamed'
  <2> SUFFICES ASSUME NEW h \in Host, h \notin lost', policy'[h] # "none"
               PROVE  \/ row' # None /\ row'.host = h
                      \/ \E b \in Editor : op'[b].pc \in {"move", "record"} /\ op'[b].at = h
    BY DEF EachIsNamed
  <2>1. \/ row # None /\ row.host = h
        \/ \E b \in Editor : op[b].pc \in {"move", "record"} /\ op[b].at = h
    BY <1>a DEF MirrorInv, EachIsNamed
  <2>2. CASE row # None /\ row.host = h
    BY <2>2, <1>c
  <2>3. ASSUME NEW b \in Editor, op[b].pc \in {"move", "record"}, op[b].at = h
        PROVE  \E c \in Editor : op'[c].pc \in {"move", "record"} /\ op'[c].at = h
    <3>1. b # a
      BY <2>3, <1>a, RestIs
    <3> QED
      BY <2>3, <3>1, <1>b
  <2> QED
    BY <2>1, <2>2, <2>3
<1>5. RowIsTrue'
  <2>1. edits' # 0
    BY <1>a, <1>c
  <2>2. overlap' => row'.host \in lost' \union {None}
    BY <1>a, <1>c DEF Mirror!Named
  <2>3. row'.applied => row'.host \in Host
    BY <1>c DEF MirrorInv, RowIsTrue
  <2>4. \E b \in Editor : op'[b] # Mirror!Idle
    BY <1>b, <1>d
  <2> QED
    BY <2>1, <2>2, <2>3, <2>4, <1>c DEF RowIsTrue
<1> QED
  BY <1>1, <1>2, <1>3, <1>4, <1>5 DEF MirrorInv

\* A step of a handler at work that leaves the row alone, and the policies too.
LEMMA ReadKeeps ==
  ASSUME MirrorSorts, MirrorInv, NEW a \in Editor, NEW r \in Mirror!Op, op' = [op EXCEPT ![a] = r],
         op[a].pc \in {"load", "pick"},
         UNCHANGED <<transport, row, policy, overlap, lost, edits, crashes>>,
         \/ r = Mirror!Idle /\ row = None
         \/ /\ row # None /\ r.pc \in {"pick", "install", "fail"}
            /\ r.pc = "install" => r.at \in Host
            /\ op[a].pc = "load" => r.host = row.host /\ r.on = row.on
            /\ op[a].pc = "pick" => r.host = op[a].host /\ r.on = op[a].on
         \/ row = None /\ op[a].pc = "pick" /\ r.pc \in {"install", "fail"} /\ (r.pc = "install" => r.at \in Host)
  PROVE  MirrorInv'
<1>b. /\ op' \in [Editor -> Mirror!Op] /\ op'[a] = r
      /\ \A b \in Editor \ {a} : op'[b] = op[b]
      /\ op[a] # Mirror!Idle
  BY OneMoves, RestIs DEF MirrorInv
<1>1. Mirror!TypeOK'
  BY <1>b DEF MirrorInv, Mirror!TypeOK
<1>2. OpsAreRead'
  BY <1>b, RestIs DEF MirrorInv, OpsAreRead
<1>3. Alone'
  <2> SUFFICES ASSUME ~overlap, NEW b \in Editor, op'[b] # Mirror!Idle
               PROVE  AloneKnows(b)'
    BY DEF Alone
  <2>1. AloneKnows(a)
    BY <1>b DEF MirrorInv, Alone
  <2>2. b = a /\ \A c \in Editor : op'[c] # Mirror!Idle => c = a
    BY <2>1, <1>b DEF AloneKnows
  <2>3. r.pc \in {"pick", "install", "fail"} /\ r.host = row.host /\ (r.pc # "fail" => r.on = row.on)
    BY <2>1, <2>2, <1>b DEF AloneKnows
  <2> QED
    BY <2>1, <2>2, <2>3, <1>b DEF AloneKnows
<1>4. EachIsNamed'
  <2> SUFFICES ASSUME NEW h \in Host, h \notin lost, policy[h] # "none", ~(row # None /\ row.host = h)
               PROVE  \E b \in Editor : op'[b].pc \in {"move", "record"} /\ op'[b].at = h
    BY DEF EachIsNamed
  <2>1. PICK b \in Editor : op[b].pc \in {"move", "record"} /\ op[b].at = h
    BY DEF MirrorInv, EachIsNamed
  <2>2. b # a
    BY <2>1
  <2> QED
    BY <2>1, <2>2, <1>b
<1>5. RowIsTrue'
  <2>1. row # None => r.pc # "idle" /\ op'[a] # Mirror!Idle
    BY <1>b, RestIs
  <2> QED
    BY <2>1 DEF MirrorInv, RowIsTrue
<1> QED
  BY <1>1, <1>2, <1>3, <1>4, <1>5 DEF MirrorInv

\* Whatever a handler that something overlaps does to the row, or to the policies of the
\* hosts it knows of, is recorded as what may be left behind.
LEMMA OverlappedKeeps ==
  ASSUME MirrorSorts, MirrorInv, NEW a \in Editor, NEW r \in Mirror!Op, op' = [op EXCEPT ![a] = r],
         overlap, op[a] # Mirror!Idle,
         lost' \in SUBSET Host, lost \union Mirror!Known(a) \subseteq lost',
         policy' \in [Host -> {"none", "on", "off"}],
         \A h \in Host \ lost' : policy'[h] = policy[h],
         row' \in Mirror!Row \union {None}, row = None => row' = None,
         row' # None => /\ row'.host \in lost' \union {None}
                        /\ row'.applied => row'.host \in Host,
         crashes' \in 0..MaxCrashes, UNCHANGED <<transport, overlap, edits>>,
         \/ r = Mirror!Idle
         \/ /\ r.pc \in {"record", "move", "fail", "drop"}
            /\ r.pc \in {"record", "move"} => r.at \in Host
            /\ r.pc = "move" => r.host \in Host /\ r.host # r.at
  PROVE  MirrorInv'
<1>b. /\ op' \in [Editor -> Mirror!Op] /\ op'[a] = r
      /\ \A b \in Editor \ {a} : op'[b] = op[b]
  BY OneMoves DEF MirrorInv
<1>c. None \notin Host /\ lost \subseteq Host
      /\ (row # None => row.host \in Host \union {None})
      /\ op[a].at \in Host \union {None}
  BY MirrorTyped DEF MirrorInv
<1>1. Mirror!TypeOK'
  BY <1>b DEF MirrorInv, Mirror!TypeOK
<1>2. OpsAreRead'
  BY <1>b, RestIs DEF MirrorInv, OpsAreRead
<1>3. Alone'
  BY DEF Alone
<1>4. EachIsNamed'
  <2> SUFFICES ASSUME NEW h \in Host, h \notin lost', policy'[h] # "none"
               PROVE  \E b \in Editor : op'[b].pc \in {"move", "record"} /\ op'[b].at = h
    BY DEF EachIsNamed
  <2>1. ~(row # None /\ row.host = h) /\ h # op[a].at /\ h \notin lost
    BY <1>c DEF Mirror!Known, Mirror!Named
  <2>2. PICK b \in Editor : op[b].pc \in {"move", "record"} /\ op[b].at = h
    BY <2>1 DEF MirrorInv, EachIsNamed
  <2>3. b # a
    BY <2>1, <2>2
  <2> QED
    BY <2>2, <2>3, <1>b
<1>5. RowIsTrue'
  BY <1>c DEF MirrorInv, RowIsTrue
<1> QED
  BY <1>1, <1>2, <1>3, <1>4, <1>5 DEF MirrorInv

\* An installation touches one host; what it leaves there when it is not answered is
\* recorded, unless the row names that host.
LEMMA Installs ==
  ASSUME MirrorSorts, MirrorInv, NEW a \in Editor, Mirror!Install(a)
  PROVE  \E after \in {"record", "move", "fail"} :
           /\ op[a].pc = "install" /\ op[a].at \in Host
           /\ op' = [op EXCEPT ![a] = [op[a] EXCEPT !.pc = after]]
           /\ policy' \in [Host -> {"none", "on", "off"}] /\ lost' \in SUBSET Host
           /\ lost \ {op[a].at} \subseteq lost'
           /\ overlap => lost \union Mirror!Known(a) \subseteq lost'
           /\ \A h \in Host \ {op[a].at} : policy'[h] = policy[h]
           /\ after = "record" => op[a].host \in {None, op[a].at}
           /\ after = "move" => op[a].host \notin {None, op[a].at}
           /\ after = "fail" => lost \subseteq lost'
           /\ after = "fail" /\ op[a].host # op[a].at => policy'[op[a].at] = "none" \/ op[a].at \in lost'
           /\ after \in {"record", "move"} =>
                \/ policy'[op[a].at] = Mirror!Fires(op[a].on)
                \/ op[a].host # op[a].at /\ policy[op[a].at] # "none" /\ lost \subseteq lost'
           /\ UNCHANGED <<transport, row, overlap, edits, crashes>>
<1>a. /\ op[a].pc = "install" /\ op[a].at \in Host /\ op[a].on \in BOOLEAN
      /\ policy \in [Host -> {"none", "on", "off"}] /\ lost \subseteq Host
      /\ Mirror!Astray(a) \subseteq Host /\ op \in [Editor -> Mirror!Op]
  BY MirrorTyped DEF Mirror!Install, MirrorInv, OpsAreRead, Mirror!TypeOK
<1>b. /\ Mirror!Installed(a) \in [Host -> {"none", "on", "off"}]
      /\ \A h \in Host \ {op[a].at} : Mirror!Installed(a)[h] = policy[h]
      /\ IF Mirror!Adopts(a) THEN Mirror!Installed(a) = policy
         ELSE Mirror!Installed(a)[op[a].at] = Mirror!Fires(op[a].on)
  BY <1>a DEF Mirror!Installed, Mirror!Fires
<1>c. Mirror!Adopts(a) => op[a].host # op[a].at /\ policy[op[a].at] # "none"
  BY DEF Mirror!Adopts
<1>d. overlap => Mirror!Astray(a) = Mirror!Known(a) /\ op[a].at \in Mirror!Known(a)
  BY <1>a DEF Mirror!Astray, Mirror!Known, MirrorSorts
<1>1. CASE Mirror!InstallDone(a)
  <2> DEFINE after == IF op[a].host \in {None, op[a].at} THEN "record" ELSE "move"
  <2>1. /\ op' = [op EXCEPT ![a] = [op[a] EXCEPT !.pc = after]] /\ policy' = Mirror!Installed(a)
        /\ lost' = (lost \ IF Mirror!Adopts(a) THEN {} ELSE {op[a].at}) \union Mirror!Astray(a)
    BY <1>1, <1>a DEF Mirror!InstallDone, Mirror!Then
  <2>2. UNCHANGED <<transport, row, overlap, edits, crashes>>
    BY DEF Mirror!Install
  <2>3. IF op[a].host \in {None, op[a].at} THEN after = "record" ELSE after = "move"
    OBVIOUS
  <2> HIDE DEF after
  <2>4. after \in {"record", "move", "fail"}
    BY <2>3
  <2> QED
    BY <1>a, <1>b, <1>c, <1>d, <2>1, <2>2, <2>3, <2>4
<1>2. CASE Mirror!InstallFails(a)
  <2>1. /\ op' = [op EXCEPT ![a] = [op[a] EXCEPT !.pc = "fail"]]
        /\ policy' \in {policy, Mirror!Installed(a)}
        /\ lost' = lost \union Mirror!Astray(a)
              \union IF policy'[op[a].at] # "none" /\ op[a].host # op[a].at THEN {op[a].at} ELSE {}
    BY <1>2, <1>a DEF Mirror!InstallFails, Mirror!Then
  <2>2. UNCHANGED <<transport, row, overlap, edits, crashes>>
    BY DEF Mirror!Install
  <2>3. WITNESS "fail" \in {"record", "move", "fail"}
  <2> QED
    BY <1>a, <1>b, <1>c, <1>d, <2>1, <2>2
<1> QED
  BY <1>1, <1>2 DEF Mirror!Install

\* A removal, whether or not it works, leaves nothing at a host that is not recorded.
LEMMA Uninstalls ==
  ASSUME MirrorSorts, MirrorInv, NEW a \in Editor, op[a].host \in Host,
         NEW after \in {"record", "drop"}, Mirror!Uninstall(a, after)
  PROVE  /\ op' = [op EXCEPT ![a] = [op[a] EXCEPT !.pc = after]]
         /\ policy' \in [Host -> {"none", "on", "off"}] /\ lost' \in SUBSET Host
         /\ lost \ {op[a].host} \subseteq lost'
         /\ overlap => lost \union Mirror!Known(a) \subseteq lost'
         /\ op[a].host \in lost' \/ policy'[op[a].host] = "none"
         /\ \A h \in Host \ {op[a].host} : policy'[h] = policy[h]
         /\ UNCHANGED <<transport, row, overlap, edits, crashes>>
<1>a. /\ policy \in [Host -> {"none", "on", "off"}] /\ lost \subseteq Host
      /\ Mirror!Astray(a) \subseteq Host /\ op \in [Editor -> Mirror!Op]
  BY MirrorTyped DEF MirrorInv, Mirror!TypeOK
<1>d. overlap => Mirror!Astray(a) = Mirror!Known(a) /\ op[a].host \in Mirror!Known(a)
  BY <1>a DEF Mirror!Astray, Mirror!Known, MirrorSorts
<1> QED
  BY <1>a, <1>d DEF Mirror!Uninstall, Mirror!Then

\* A handler that nothing overlaps, and that goes on, leaves a policy it installed or none
\* it removed, and nothing else that the row does not name.
LEMMA AloneKeeps ==
  ASSUME MirrorSorts, MirrorInv, NEW a \in Editor, NEW r \in Mirror!Op, op' = [op EXCEPT ![a] = r],
         ~overlap, op[a] # Mirror!Idle, op[a].pc # "load",
         lost' \in SUBSET Host, policy' \in [Host -> {"none", "on", "off"}],
         UNCHANGED <<transport, row, overlap, edits, crashes>>,
         r.host = op[a].host, r.on = op[a].on, r.at = op[a].at,
         r.pc \in {"record", "move", "fail", "drop"},
         r.pc \in {"record", "move"} => r.at \in Host /\ op[a].pc \in {"install", "move"},
         r.pc = "move" => r.host \in Host /\ r.host # r.at,
         r.pc \in {"record", "move"} => r.at \in lost' \/ policy'[r.at] = Mirror!Fires(r.on),
         r.pc = "record" => r.host \in lost' \union {None, r.at} \/ policy'[r.host] = "none",
         r.pc = "drop" => r.host \in lost' \union {None} \/ policy'[r.host] = "none",
         \A h \in Host \ lost' : policy'[h] # "none" =>
           \/ row.host = h
           \/ r.pc \in {"record", "move"} /\ r.at = h
  PROVE  MirrorInv'
<1>b. /\ op' \in [Editor -> Mirror!Op] /\ op'[a] = r
      /\ \A b \in Editor \ {a} : op'[b] = op[b]
      /\ r # Mirror!Idle
  BY OneMoves, RestIs DEF MirrorInv
<1>c. AloneKnows(a) /\ \A b \in Editor : op'[b] # Mirror!Idle => b = a
  BY <1>b DEF MirrorInv, Alone, AloneKnows
<1>1. Mirror!TypeOK'
  BY <1>b DEF MirrorInv, Mirror!TypeOK
<1>2. OpsAreRead'
  BY <1>b, RestIs DEF MirrorInv, OpsAreRead
<1>3. Alone'
  <2> SUFFICES ASSUME NEW b \in Editor, op'[b] # Mirror!Idle PROVE AloneKnows(b)'
    BY DEF Alone
  <2>1. b = a
    BY <1>c
  <2> QED
    BY <2>1, <1>b, <1>c DEF AloneKnows
<1>4. EachIsNamed'
  BY <1>b, <1>c DEF EachIsNamed, AloneKnows
<1>5. RowIsTrue'
  BY <1>b DEF MirrorInv, RowIsTrue
<1> QED
  BY <1>1, <1>2, <1>3, <1>4, <1>5 DEF MirrorInv

\* A handler that nothing overlaps, and that ends: all are at rest.
LEMMA AloneEnds ==
  ASSUME MirrorSorts, MirrorInv, NEW a \in Editor, op' = [op EXCEPT ![a] = Mirror!Idle],
         ~overlap, op[a] # Mirror!Idle,
         lost' \in SUBSET Host, crashes' \in 0..MaxCrashes,
         row' \in Mirror!Row \union {None}, row = None => row' = None,
         UNCHANGED <<transport, policy, overlap, edits>>,
         \A h \in Host \ lost' : policy[h] # "none" => row' # None /\ row'.host = h,
         row' # None /\ row'.applied =>
           row'.host \in Host /\ (row'.host \in lost' \/ policy[row'.host] = Mirror!Fires(row'.on))
  PROVE  MirrorInv'
<1>b. /\ op' \in [Editor -> Mirror!Op]
      /\ \A b \in Editor : op'[b] = Mirror!Idle
  BY OneMoves, RestIs DEF MirrorInv, Alone, AloneKnows
<1>1. Mirror!TypeOK'
  BY <1>b DEF MirrorInv, Mirror!TypeOK
<1>2. OpsAreRead' /\ Alone'
  BY <1>b, RestIs DEF OpsAreRead, Alone
<1>4. EachIsNamed'
  BY DEF EachIsNamed
<1>5. RowIsTrue'
  BY DEF MirrorInv, RowIsTrue
<1> QED
  BY <1>1, <1>2, <1>4, <1>5 DEF MirrorInv

\* Any step keeps the invariant.
LEMMA MirrorStays == ASSUME MirrorSorts, MirrorInv, NEW a \in Editor, Mirror!Step(a) PROVE MirrorInv'
<1>t. /\ op[a] \in Mirror!Op /\ op[a].host \in Host \union {None} /\ op[a].at \in Host \union {None}
      /\ op[a].on \in BOOLEAN
      /\ row # None => row \in Mirror!Row /\ row.host \in Host \union {None} /\ row.on \in BOOLEAN
      /\ policy \in [Host -> {"none", "on", "off"}] /\ lost \subseteq Host /\ overlap \in BOOLEAN
      /\ Mirror!Known(a) \subseteq Host /\ Mirror!Astray(a) \subseteq Host
      /\ crashes \in 0..MaxCrashes /\ None \notin Host /\ None \notin Mirror!Row
      /\ row \in Mirror!Row \union {None} /\ op \in [Editor -> Mirror!Op]
  BY MirrorTyped DEF MirrorInv, MirrorSorts, Mirror!TypeOK
<1>k. ~overlap /\ op[a] # Mirror!Idle => AloneKnows(a)
  BY DEF MirrorInv, Alone
<1>l. overlap => Mirror!Astray(a) = Mirror!Known(a)
  BY DEF Mirror!Astray
<1>1. ASSUME NEW on \in BOOLEAN, Mirror!Create(a, on) \/ Mirror!Update(a, on) \/ Mirror!Apply(a)
      PROVE  MirrorInv'
  <2> DEFINE first == [Mirror!Idle EXCEPT !.pc = "load"]
  <2>1. Mirror!Request(a, first) /\ first \in Mirror!Op /\ first.pc = "load"
    BY <1>1, RestIs DEF Mirror!Create, Mirror!Update, Mirror!Apply, Mirror!Idle, Mirror!Op
  <2>2. /\ row' \in Mirror!Row
        /\ IF row = None THEN edits = 0 /\ row'.host = None /\ ~row'.applied
           ELSE row'.host = row.host /\ row'.applied = row.applied
    <3>1. CASE Mirror!Create(a, on)
      <4>1. row = None
        BY <3>1 DEF MirrorInv, RowIsTrue, Mirror!Create
      <4> QED
        BY <3>1, <4>1 DEF Mirror!Create, Mirror!Row
    <3>2. CASE Mirror!Update(a, on) \/ Mirror!Apply(a)
      BY <3>2, <1>t DEF Mirror!Update, Mirror!Apply, Mirror!Row
    <3> QED
      BY <1>1, <3>1, <3>2
  <2> HIDE DEF first
  <2> QED
    BY <2>1, <2>2, RequestKeeps
<1>2. CASE Mirror!Delete(a)
  <2> DEFINE first == [Mirror!Idle EXCEPT !.host = row.host,
                                          !.pc = IF row.host = None THEN "drop" ELSE "uninstall"]
  <2>1. row # None /\ row' = row /\ Mirror!Request(a, first)
    BY <1>2 DEF Mirror!Delete
  <2>2. first \in Mirror!Op /\ first.host = row.host
        /\ first.pc = (IF row.host = None THEN "drop" ELSE "uninstall")
    BY <2>1, <1>t DEF Mirror!Idle, Mirror!Op
  <2> HIDE DEF first
  <2> QED
    BY <1>t, <2>1, <2>2, RequestKeeps
<1>3. CASE Mirror!Load(a)
  <2> DEFINE r == IF row = None THEN Mirror!Idle
                  ELSE [op[a] EXCEPT !.pc = "pick", !.on = row.on, !.host = row.host]
  <2>1. op[a].pc = "load" /\ op' = [op EXCEPT ![a] = r]
        /\ UNCHANGED <<transport, row, policy, overlap, lost, edits, crashes>>
    BY <1>3 DEF Mirror!Load
  <2>2. r \in Mirror!Op /\ (row = None => r = Mirror!Idle)
        /\ (row # None => r.pc = "pick" /\ r.host = row.host /\ r.on = row.on)
    BY <1>t, RestIs DEF Mirror!Op
  <2> HIDE DEF r
  <2> QED
    BY <2>1, <2>2, ReadKeeps
<1>4. CASE Mirror!Pick(a)
  <2>1. op[a].pc = "pick" /\ UNCHANGED <<transport, row, policy, overlap, lost, edits, crashes>>
    BY <1>4 DEF Mirror!Pick
  <2>2. PICK r \in Mirror!Op :
          /\ op' = [op EXCEPT ![a] = r] /\ r.pc \in {"install", "fail"}
          /\ r.pc = "install" => r.at \in Host
          /\ r.host = op[a].host /\ r.on = op[a].on
    <3>1. CASE Mirror!Then(a, "fail")
      <4>1. /\ op' = [op EXCEPT ![a] = [op[a] EXCEPT !.pc = "fail"]]
            /\ [op[a] EXCEPT !.pc = "fail"] \in Mirror!Op
        BY <3>1, <1>t DEF Mirror!Then, Mirror!Op
      <4> QED
        BY <4>1, <1>t DEF Mirror!Op
    <3>2. ASSUME NEW h \in Host, op' = [op EXCEPT ![a].pc = "install", ![a].at = h]
          PROVE  \E r \in Mirror!Op :
                   /\ op' = [op EXCEPT ![a] = r] /\ r.pc \in {"install", "fail"}
                   /\ r.pc = "install" => r.at \in Host
                   /\ r.host = op[a].host /\ r.on = op[a].on
      <4> DEFINE r == [op[a] EXCEPT !.pc = "install", !.at = h]
      <4>1. op' = [op EXCEPT ![a] = r] /\ r \in Mirror!Op /\ r.pc = "install" /\ r.at = h
            /\ r.host = op[a].host /\ r.on = op[a].on
        BY <3>2, <1>t DEF Mirror!Op
      <4> HIDE DEF r
      <4> QED
        BY <4>1
    <3> QED
      BY <1>4, <3>1, <3>2 DEF Mirror!Pick, MirrorSorts
  <2> QED
    BY <2>1, <2>2, ReadKeeps
<1>5. CASE Mirror!Install(a)
  <2>1. PICK after \in {"record", "move", "fail"} :
           /\ op[a].pc = "install" /\ op[a].at \in Host
           /\ op' = [op EXCEPT ![a] = [op[a] EXCEPT !.pc = after]]
           /\ policy' \in [Host -> {"none", "on", "off"}] /\ lost' \in SUBSET Host
           /\ lost \ {op[a].at} \subseteq lost'
           /\ overlap => lost \union Mirror!Known(a) \subseteq lost'
           /\ \A h \in Host \ {op[a].at} : policy'[h] = policy[h]
           /\ after = "record" => op[a].host \in {None, op[a].at}
           /\ after = "move" => op[a].host \notin {None, op[a].at}
           /\ after = "fail" => lost \subseteq lost'
           /\ after = "fail" /\ op[a].host # op[a].at => policy'[op[a].at] = "none" \/ op[a].at \in lost'
           /\ after \in {"record", "move"} =>
                \/ policy'[op[a].at] = Mirror!Fires(op[a].on)
                \/ op[a].host # op[a].at /\ policy[op[a].at] # "none" /\ lost \subseteq lost'
           /\ UNCHANGED <<transport, row, overlap, edits, crashes>>
    BY <1>5, Installs
  <2> DEFINE r == [op[a] EXCEPT !.pc = after]
  <2>2. r \in Mirror!Op /\ op' = [op EXCEPT ![a] = r] /\ r.pc = after /\ r.host = op[a].host
        /\ r.on = op[a].on /\ r.at = op[a].at /\ op[a] # Mirror!Idle
    BY <2>1, <1>t, RestIs DEF Mirror!Op
  <2> HIDE DEF r
  <2>3. CASE overlap
    <3>1. op[a].at \in Mirror!Known(a) /\ (row # None => row.host \in Mirror!Known(a) \union {None})
      BY <2>1, <1>t DEF Mirror!Known, Mirror!Named
    <3>2. \A h \in Host \ lost' : policy'[h] = policy[h]
      BY <2>1, <2>3, <3>1
    <3>3. row # None /\ row.applied => row.host \in Host
      BY DEF MirrorInv, RowIsTrue
    <3> QED
      BY <1>t, <2>1, <2>2, <2>3, <3>1, <3>2, <3>3, OverlappedKeeps
  <2>4. CASE ~overlap
    <3>1. AloneKnows(a) /\ op[a].host = row.host
      BY <1>k, <2>1, <2>2, <2>4 DEF AloneKnows
    <3>2. \A h \in Host \ lost : policy[h] # "none" => row.host = h
      <4> SUFFICES ASSUME NEW h \in Host \ lost, policy[h] # "none", row.host # h PROVE FALSE
        OBVIOUS
      <4>1. PICK b \in Editor : op[b].pc \in {"move", "record"} /\ op[b].at = h
        BY DEF MirrorInv, EachIsNamed
      <4> QED
        BY <4>1, <3>1, <2>1, RestIs DEF AloneKnows
    <3>3. after \in {"record", "move"} => op[a].at \in lost' \/ policy'[op[a].at] = Mirror!Fires(op[a].on)
      BY <2>1, <3>1, <3>2
    <3>4. \A h \in Host \ lost' : policy'[h] # "none" =>
            row.host = h \/ (after \in {"record", "move"} /\ op[a].at = h)
      BY <2>1, <3>1, <3>2
    <3> QED
      <4>1. /\ op[a].pc # "load" /\ r.pc \in {"record", "move", "fail", "drop"}
            /\ r.pc \in {"record", "move"} => r.at \in Host /\ op[a].pc \in {"install", "move"}
            /\ r.pc = "move" => r.host \in Host /\ r.host # r.at
        BY <1>t, <2>1, <2>2
      <4>2. /\ r.pc \in {"record", "move"} => r.at \in lost' \/ policy'[r.at] = Mirror!Fires(r.on)
            /\ r.pc = "record" => r.host \in lost' \union {None, r.at} \/ policy'[r.host] = "none"
            /\ r.pc = "drop" => r.host \in lost' \union {None} \/ policy'[r.host] = "none"
        BY <2>1, <2>2, <3>3
      <4>3. \A h \in Host \ lost' : policy'[h] # "none" =>
              \/ row.host = h
              \/ r.pc \in {"record", "move"} /\ r.at = h
        BY <2>2, <3>4
      <4> QED
        BY <2>1, <2>2, <2>4, <4>1, <4>2, <4>3, AloneKeeps
  <2> QED
    BY <1>t, <2>3, <2>4
<1>6. ASSUME NEW after \in {"record", "drop"}, Mirror!Uninstall(a, after), op[a].host \in Host,
             op[a].pc = (IF after = "record" THEN "move" ELSE "uninstall")
      PROVE  MirrorInv'
  <2>1. /\ op' = [op EXCEPT ![a] = [op[a] EXCEPT !.pc = after]]
        /\ policy' \in [Host -> {"none", "on", "off"}] /\ lost' \in SUBSET Host
        /\ lost \ {op[a].host} \subseteq lost'
        /\ overlap => lost \union Mirror!Known(a) \subseteq lost'
        /\ op[a].host \in lost' \/ policy'[op[a].host] = "none"
        /\ \A h \in Host \ {op[a].host} : policy'[h] = policy[h]
        /\ UNCHANGED <<transport, row, overlap, edits, crashes>>
    BY <1>6, Uninstalls
  <2> DEFINE r == [op[a] EXCEPT !.pc = after]
  <2>2. r \in Mirror!Op /\ op' = [op EXCEPT ![a] = r] /\ r.pc = after /\ r.host = op[a].host
        /\ r.on = op[a].on /\ r.at = op[a].at /\ op[a] # Mirror!Idle
    BY <2>1, <1>t, <1>6, RestIs DEF Mirror!Op
  <2>5. after = "record" => op[a].at \in Host /\ op[a].host # op[a].at
    BY <1>6 DEF MirrorInv, OpsAreRead
  <2> HIDE DEF r
  <2>3. CASE overlap
    <3>1. op[a].host \in Mirror!Known(a) /\ (row # None => row.host \in Mirror!Known(a) \union {None})
      BY <1>6, <1>t DEF Mirror!Known, Mirror!Named
    <3>2. \A h \in Host \ lost' : policy'[h] = policy[h]
      BY <2>1, <2>3, <3>1
    <3>3. row # None /\ row.applied => row.host \in Host
      BY DEF MirrorInv, RowIsTrue
    <3> QED
      BY <1>t, <2>1, <2>2, <2>3, <2>5, <3>1, <3>2, <3>3, OverlappedKeeps
  <2>4. CASE ~overlap
    <3>1. AloneKnows(a) /\ op[a].host = row.host
      BY <1>k, <1>6, <2>2, <2>4 DEF AloneKnows
    <3>2. \A h \in Host \ lost : policy[h] # "none" => row.host = h \/ (after = "record" /\ op[a].at = h)
      <4> SUFFICES ASSUME NEW h \in Host \ lost, policy[h] # "none", row.host # h
                   PROVE  after = "record" /\ op[a].at = h
        OBVIOUS
      <4>1. PICK b \in Editor : op[b].pc \in {"move", "record"} /\ op[b].at = h
        BY DEF MirrorInv, EachIsNamed
      <4> QED
        BY <4>1, <3>1, <1>6, RestIs DEF AloneKnows
    <3>3. after = "record" => op[a].at \in lost' \/ policy'[op[a].at] = Mirror!Fires(op[a].on)
      BY <1>6, <2>1, <2>5, <3>1 DEF AloneKnows
    <3>4. \A h \in Host \ lost' : policy'[h] # "none" => row.host = h \/ (after = "record" /\ op[a].at = h)
      BY <2>1, <3>1, <3>2
    <3> QED
      <4>1. /\ op[a].pc # "load" /\ r.pc \in {"record", "move", "fail", "drop"}
            /\ r.pc \in {"record", "move"} => r.at \in Host /\ op[a].pc \in {"install", "move"}
            /\ r.pc = "move" => r.host \in Host /\ r.host # r.at
        BY <1>6, <2>2, <2>5
      <4>2. /\ r.pc \in {"record", "move"} => r.at \in lost' \/ policy'[r.at] = Mirror!Fires(r.on)
            /\ r.pc = "record" => r.host \in lost' \union {None, r.at} \/ policy'[r.host] = "none"
            /\ r.pc = "drop" => r.host \in lost' \union {None} \/ policy'[r.host] = "none"
        BY <2>1, <2>2, <3>3
      <4>3. \A h \in Host \ lost' : policy'[h] # "none" =>
              \/ row.host = h
              \/ r.pc \in {"record", "move"} /\ r.at = h
        BY <2>2, <3>4
      <4> QED
        BY <2>1, <2>2, <2>4, <4>1, <4>2, <4>3, AloneKeeps
  <2> QED
    BY <1>t, <2>3, <2>4
<1>7. CASE Mirror!Move(a)
  BY <1>7, <1>6 DEF Mirror!Move, MirrorInv, OpsAreRead
<1>8. CASE Mirror!Remove(a)
  BY <1>8, <1>6 DEF Mirror!Remove, MirrorInv, OpsAreRead
<1>9. CASE Mirror!Record(a)
  <2>1. /\ op[a].pc = "record" /\ op' = [op EXCEPT ![a] = Mirror!Idle]
        /\ row' = IF row = None THEN None ELSE [row EXCEPT !.host = op[a].at, !.applied = TRUE]
        /\ lost' = lost \union Mirror!Astray(a)
        /\ UNCHANGED <<transport, policy, overlap, edits, crashes>>
    BY <1>9 DEF Mirror!Record, Mirror!Ends
  <2>2. op[a].at \in Host /\ op[a] # Mirror!Idle
    BY <2>1, RestIs DEF MirrorInv, OpsAreRead
  <2>3. /\ row' \in Mirror!Row \union {None} /\ (row = None <=> row' = None)
        /\ row' # None => row'.host = op[a].at /\ row'.on = row.on
    BY <1>t, <2>1, <2>2 DEF Mirror!Row
  <2>4. CASE overlap
    <3>1. op[a].at \in Mirror!Known(a)
      BY <2>2, <1>t DEF Mirror!Known
    <3> QED
      <4>1. /\ lost' \in SUBSET Host /\ lost \union Mirror!Known(a) \subseteq lost'
            /\ row' # None => /\ row'.host \in lost' \union {None}
                              /\ row'.applied => row'.host \in Host
        BY <1>t, <1>l, <2>1, <2>2, <2>3, <2>4, <3>1
      <4> QED
        BY <1>t, <2>1, <2>2, <2>3, <2>4, <4>1, RestIs, OverlappedKeeps
  <2>5. CASE ~overlap
    <3>1. AloneKnows(a) /\ op[a].host = row.host /\ op[a].on = row.on /\ row # None /\ lost' = lost
      BY <1>k, <2>1, <2>2, <2>5 DEF AloneKnows, Mirror!Astray
    <3>2. \A h \in Host \ lost : policy[h] # "none" => op[a].at = h
      <4> SUFFICES ASSUME NEW h \in Host \ lost, policy[h] # "none", op[a].at # h PROVE FALSE
        OBVIOUS
      <4>1. row.host # h
        BY <1>t, <2>1, <2>2, <3>1 DEF AloneKnows
      <4>2. PICK b \in Editor : op[b].pc \in {"move", "record"} /\ op[b].at = h
        BY <4>1 DEF MirrorInv, EachIsNamed
      <4> QED
        BY <4>2, <3>1, RestIs DEF AloneKnows
    <3>3. op[a].at \in lost \/ policy[op[a].at] = Mirror!Fires(row.on)
      BY <2>1, <3>1 DEF AloneKnows
    <3> QED
      BY <1>t, <2>1, <2>2, <2>3, <2>5, <3>1, <3>2, <3>3, AloneEnds
  <2> QED
    BY <1>t, <2>4, <2>5
<1>10. CASE Mirror!Fail(a)
  <2>1. /\ op[a].pc = "fail" /\ op' = [op EXCEPT ![a] = Mirror!Idle]
        /\ row' = IF row = None THEN None ELSE [row EXCEPT !.applied = FALSE]
        /\ lost' = lost \union Mirror!Astray(a)
        /\ UNCHANGED <<transport, policy, overlap, edits, crashes>>
    BY <1>10 DEF Mirror!Fail, Mirror!Ends
  <2>2. op[a] # Mirror!Idle
    BY <2>1, RestIs
  <2>3. /\ row' \in Mirror!Row \union {None} /\ (row = None <=> row' = None)
        /\ row' # None => row'.host = row.host /\ ~row'.applied
    BY <1>t, <2>1 DEF Mirror!Row
  <2>4. CASE overlap
    <3>1. row # None => row.host \in Mirror!Known(a) \union {None}
      BY DEF Mirror!Known, Mirror!Named
    <3> QED
      <4>1. /\ lost' \in SUBSET Host /\ lost \union Mirror!Known(a) \subseteq lost'
            /\ row' # None => /\ row'.host \in lost' \union {None}
                              /\ row'.applied => row'.host \in Host
        BY <1>t, <1>l, <2>1, <2>2, <2>3, <2>4, <3>1
      <4> QED
        BY <1>t, <2>1, <2>2, <2>3, <2>4, <4>1, RestIs, OverlappedKeeps
  <2>5. CASE ~overlap
    <3>1. AloneKnows(a) /\ row # None /\ lost' = lost
      BY <1>k, <2>1, <2>2, <2>5 DEF AloneKnows, Mirror!Astray
    <3>2. \A h \in Host \ lost : policy[h] # "none" => row.host = h
      <4> SUFFICES ASSUME NEW h \in Host \ lost, policy[h] # "none", row.host # h PROVE FALSE
        OBVIOUS
      <4>1. PICK b \in Editor : op[b].pc \in {"move", "record"} /\ op[b].at = h
        BY DEF MirrorInv, EachIsNamed
      <4> QED
        BY <4>1, <3>1, <2>1, RestIs DEF AloneKnows
    <3> QED
      BY <1>t, <2>1, <2>2, <2>3, <2>5, <3>1, <3>2, AloneEnds
  <2> QED
    BY <1>t, <2>4, <2>5
<1>11. CASE Mirror!Drop(a)
  <2>1. /\ op[a].pc = "drop" /\ op' = [op EXCEPT ![a] = Mirror!Idle] /\ row' = None
        /\ lost' = lost \union Mirror!Astray(a)
        /\ UNCHANGED <<transport, policy, overlap, edits, crashes>>
    BY <1>11 DEF Mirror!Drop, Mirror!Ends
  <2>2. op[a] # Mirror!Idle
    BY <2>1, RestIs
  <2>4. CASE overlap
    BY <1>t, <1>l, <2>1, <2>2, <2>4, RestIs, OverlappedKeeps
  <2>5. CASE ~overlap
    <3>1. AloneKnows(a) /\ op[a].host = row.host /\ lost' = lost
      BY <1>k, <2>1, <2>2, <2>5 DEF AloneKnows, Mirror!Astray
    <3>2. \A h \in Host \ lost : policy[h] = "none"
      <4> SUFFICES ASSUME NEW h \in Host \ lost, policy[h] # "none" PROVE FALSE
        OBVIOUS
      <4>1. row.host # h
        BY <2>1, <3>1, <1>t DEF AloneKnows
      <4>2. PICK b \in Editor : op[b].pc \in {"move", "record"} /\ op[b].at = h
        BY <4>1 DEF MirrorInv, EachIsNamed
      <4> QED
        BY <4>2, <3>1, <2>1, RestIs DEF AloneKnows
    <3> QED
      BY <1>t, <2>1, <2>2, <2>5, <3>1, <3>2, AloneEnds
  <2> QED
    BY <1>t, <2>4, <2>5
<1>12. CASE Mirror!Crash(a)
  <2>1. /\ op[a] # Mirror!Idle /\ op' = [op EXCEPT ![a] = Mirror!Idle]
        /\ lost' = lost \union Mirror!Known(a) /\ crashes' \in 0..MaxCrashes
        /\ UNCHANGED <<transport, row, policy, overlap, edits>>
    BY <1>12, <1>t DEF Mirror!Crash, Mirror!Ends, MirrorSorts
  <2>2. /\ row # None => row.host \in lost' \union {None}
        /\ op[a].at \in lost' \union {None}
    BY <2>1 DEF Mirror!Known, Mirror!Named
  <2>3. row # None /\ row.applied => row.host \in Host
    BY DEF MirrorInv, RowIsTrue
  <2>4. CASE overlap
    BY <1>t, <2>1, <2>2, <2>3, <2>4, RestIs, OverlappedKeeps
  <2>5. CASE ~overlap
    <3>1. AloneKnows(a)
      BY <1>k, <2>1, <2>5
    <3>2. \A h \in Host \ lost' : policy[h] # "none" => row.host = h
      <4> SUFFICES ASSUME NEW h \in Host \ lost', policy[h] # "none", row.host # h PROVE FALSE
        OBVIOUS
      <4>1. PICK b \in Editor : op[b].pc \in {"move", "record"} /\ op[b].at = h
        BY <2>1 DEF MirrorInv, EachIsNamed
      <4> QED
        BY <4>1, <3>1, <2>2, <1>t, RestIs DEF AloneKnows
    <3> QED
      BY <1>t, <2>1, <2>2, <2>3, <2>5, <3>1, <3>2, AloneEnds DEF AloneKnows
  <2> QED
    BY <1>t, <2>4, <2>5
<1> QED
  BY <1>1, <1>2, <1>3, <1>4, <1>5, <1>7, <1>8, <1>9, <1>10, <1>11, <1>12 DEF Mirror!Step

\* The invariant holds at first, and in every state.
LEMMA MirrorNext == ASSUME MirrorSorts, MirrorInv, [Mirror!Next]_Mirror!vars PROVE MirrorInv'
<1>1. CASE UNCHANGED Mirror!vars
  BY <1>1 DEF Mirror!vars, MirrorInv, Mirror!TypeOK, OpsAreRead, Alone, AloneKnows, EachIsNamed, RowIsTrue
<1> QED
  BY <1>1, MirrorStays DEF Mirror!Next

LEMMA MirrorStarts == ASSUME MirrorSorts, Mirror!Init PROVE MirrorInv
<1>1. /\ op = [a \in Editor |-> Mirror!Idle] /\ policy = [h \in Host |-> "none"]
      /\ row = None /\ lost = {} /\ overlap = FALSE /\ edits = 0 /\ crashes = 0
      /\ transport \in {"harbor", "skopeo"}
  BY DEF Mirror!Init
<1>2. Mirror!TypeOK
  <2>1. 0 \in 0..MaxEdits /\ 0 \in 0..MaxCrashes
    BY DEF MirrorSorts
  <2>2. op \in [Editor -> Mirror!Op] /\ policy \in [Host -> {"none", "on", "off"}]
    BY <1>1, RestIs
  <2> QED
    BY <1>1, <2>1, <2>2 DEF Mirror!TypeOK
<1>3. OpsAreRead /\ Alone
  BY <1>1, RestIs DEF OpsAreRead, Alone
<1>4. EachIsNamed /\ RowIsTrue
  BY <1>1 DEF EachIsNamed, RowIsTrue
<1> QED
  BY <1>2, <1>3, <1>4 DEF MirrorInv

\* What the invariant says when nobody is at work.
LEMMA MirrorShows ==
  ASSUME MirrorSorts, MirrorInv
  PROVE  Mirror!TypeOK /\ Mirror!OneSchedule /\ Mirror!AppliedIsInstalled
  BY RestIs DEF MirrorInv, EachIsNamed, RowIsTrue, Mirror!OneSchedule, Mirror!AppliedIsInstalled,
     Mirror!AtRest

\* Every reachable state has its variables in their types.
THEOREM MirrorTypes == ASSUME MirrorSorts PROVE Mirror!Spec => []Mirror!TypeOK
  BY MirrorStarts, MirrorNext, MirrorShows, PTL DEF Mirror!Spec

\* The mirror fires from one place, the one its row names, but for what a refused removal, a
\* lost answer, a crash or requests that overlapped left behind: for any number of Harbors,
\* of requests at work and of deaths.
THEOREM OneScheduleHolds == ASSUME MirrorSorts PROVE Mirror!Spec => []Mirror!OneSchedule
  BY MirrorStarts, MirrorNext, MirrorShows, PTL DEF Mirror!Spec

\* What is shown as applied is what is installed, from the time a request that nothing
\* overlaps has applied it, and until one dies or another overlaps: for any number of
\* Harbors, of requests at work and of deaths.
THEOREM AppliedHolds == ASSUME MirrorSorts PROVE Mirror!Spec => []Mirror!AppliedIsInstalled
  BY MirrorStarts, MirrorNext, MirrorShows, PTL DEF Mirror!Spec

-----------------------------------------------------------------------------
(* Requests about a project: types.                                        *)

\* What a row shows of a request, and what it may be asked.
Statuses == {"PENDING", "APPROVED", "REJECTED", "superseded"}

Request ==
  [kind : {"quota", "delete"}, want : Limit \union {None}, linked : BOOLEAN, status : Statuses]

\* What the constants have to be: no row and no status is None.
RequestSorts(how) ==
  /\ None \notin Request /\ None \notin Statuses
  /\ how.asks \in Nat /\ MaxDirect \in Nat /\ MaxCrashes \in Nat

\* What a handler of a person has in hand.
RequestHand(how) ==
  [pc : {"idle", "quota", "delete", "carry", "approve", "reject"},
   id : Review(how)!Id \union {None}, want : Limit \union {None}, old : SUBSET Review(how)!Id]

\* What a handler knows at each of its steps.
HandOK(how, hd) ==
  /\ hd \in RequestHand(how)
  /\ hd.pc = "idle" => hd = Review(how)!Free
  /\ hd.pc = "quota" => hd.want \in Limit
  /\ hd.pc \in {"carry", "approve", "reject"} => hd.id \in Review(how)!Id /\ asked[hd.id] # None
  /\ hd.pc = "carry" /\ asked[hd.id].kind = "quota" => hd.want \in Limit

\* The types: a request for a quota says which, and each handler knows what it needs.
RequestTypeInv(how) ==
  /\ project \in [live : BOOLEAN, limit : Limit]
  /\ asked \in [Review(how)!Id -> Request \union {None}]
  /\ \A i \in Review(how)!Id : asked[i] # None /\ asked[i].kind = "quota" => asked[i].want \in Limit
  /\ done \subseteq Review(how)!Id /\ direct \in 0..MaxDirect /\ crashes \in 0..MaxCrashes
  /\ hand \in [Person -> RequestHand(how)]
  /\ \A p \in Person : HandOK(how, hand[p])

\* What person p, or the Gateway for them, may do.
RequestMove(how, p) ==
  \/ (\E want \in Limit : Review(how)!AskQuota(p, want)) \/ Review(how)!QuotaAsked(p)
  \/ Review(how)!AskDelete(p) \/ Review(how)!DeleteAsked(p) \/ Review(how)!AskLost(p)
  \/ (\E id \in Review(how)!Id, pc \in {"carry", "reject"} : Review(how)!Decide(p, id, pc))
  \/ Review(how)!Carry(p) \/ Review(how)!Mark(p) \/ Review(how)!Direct(p) \/ Review(how)!Crash(p)

\* What a step of p does to the rows and to what was carried out: a row keeps its kind and
\* its limit, begins as pending, and is approved or rejected only by whoever decided so.
RowsMove(how, p) ==
  /\ asked' \in [Review(how)!Id -> Request \union {None}]
  /\ \A i \in Review(how)!Id : asked[i] # None =>
       asked'[i] # None /\ asked'[i].kind = asked[i].kind /\ asked'[i].want = asked[i].want
  /\ \A i \in Review(how)!Id : asked[i] = None /\ asked'[i] # None =>
       /\ asked'[i].status = "PENDING"
       /\ asked'[i].kind = "quota" => asked'[i].want \in Limit
       /\ hand[p].pc = asked'[i].kind
  /\ \A i \in Review(how)!Id : asked[i] # None =>
       \/ asked'[i].status \in {asked[i].status, "superseded"}
       \/ /\ hand[p].pc = "approve" /\ hand[p].id = i /\ asked'[i].status = "APPROVED"
       \/ /\ hand[p].pc = "reject" /\ hand[p].id = i /\ asked'[i].status = "REJECTED"
  /\ project' \in [live : BOOLEAN, limit : Limit] /\ (project'.live => project.live)
  /\ done \subseteq done'

\* The project is deleted.
LEMMA DeletedMoves ==
  ASSUME NEW how, RequestSorts(how), RequestTypeInv(how), NEW p \in Person, Review(how)!Deleted,
         done \subseteq done'
  PROVE  RowsMove(how, p)
<1>1. asked' = [i \in Review(how)!Id |->
        IF asked[i] = None THEN None
        ELSE [asked[i] EXCEPT !.linked = FALSE,
                              !.status = IF asked[i].kind = "quota" THEN "superseded" ELSE @]]
  BY DEF Review!Deleted
<1>2. ASSUME NEW i \in Review(how)!Id
      PROVE  /\ asked'[i] \in Request \union {None}
             /\ asked[i] = None => asked'[i] = None
             /\ asked[i] # None =>
                  /\ asked[i] \in Request
                  /\ asked'[i] # None /\ asked'[i].kind = asked[i].kind
                  /\ asked'[i].want = asked[i].want
                  /\ asked'[i].status \in {asked[i].status, "superseded"}
  <2>1. CASE asked[i] = None
    BY <1>1, <2>1
  <2>2. CASE asked[i] # None
    <3>1. asked[i] \in Request
      BY <2>2 DEF RequestTypeInv
    <3>2. asked'[i] = [asked[i] EXCEPT !.linked = FALSE,
                         !.status = IF asked[i].kind = "quota" THEN "superseded" ELSE @]
      BY <1>1, <2>2
    <3>3. asked'[i] \in Request
      BY <3>1, <3>2 DEF Request, Statuses
    <3> QED
      BY <2>2, <3>1, <3>2, <3>3 DEF Request, RequestSorts
  <2> QED
    BY <2>1, <2>2
<1>3. asked' \in [Review(how)!Id -> Request \union {None}]
  BY <1>1, <1>2
<1>4. project' \in [live : BOOLEAN, limit : Limit] /\ project.live
  BY DEF Review!Deleted, RequestTypeInv
<1> QED
  BY <1>2, <1>3, <1>4 DEF RowsMove

\* Any step treats the rows so.
LEMMA RequestRows ==
  ASSUME NEW how, RequestSorts(how), RequestTypeInv(how), NEW p \in Person, RequestMove(how, p)
  PROVE  RowsMove(how, p)
<1>a. /\ asked \in [Review(how)!Id -> Request \union {None}] /\ done \subseteq Review(how)!Id
      /\ project \in [live : BOOLEAN, limit : Limit] /\ HandOK(how, hand[p])
  BY DEF RequestTypeInv
<1>b. ASSUME asked' = asked, project' = project, done \subseteq done' PROVE RowsMove(how, p)
  BY <1>a, <1>b DEF RowsMove
<1>c. ASSUME Review(how)!Deleted \/ \E want \in Limit : Review(how)!Limited(want),
             done \subseteq done'
      PROVE  RowsMove(how, p)
  <2>1. CASE Review(how)!Deleted
    BY <1>c, <2>1, DeletedMoves
  <2>2. ASSUME NEW want \in Limit, Review(how)!Limited(want) PROVE RowsMove(how, p)
    BY <1>a, <1>c, <2>2 DEF Review!Limited, RowsMove
  <2> QED
    BY <1>c, <2>1, <2>2
<1>d. ASSUME NEW i \in Review(how)!Id, Review(how)!New(i), NEW r \in Request, r.status = "PENDING",
             r.kind = hand[p].pc, r.kind = "quota" => r.want \in Limit,
             asked'[i] = r, asked' \in [Review(how)!Id -> Request \union {None}],
             \A j \in Review(how)!Id \ {i} : \/ asked'[j] = asked[j]
                                             \/ asked[j] # None /\ asked'[j] = [asked[j] EXCEPT !.status = "superseded"],
             project' = project, done' = done
      PROVE  RowsMove(how, p)
  <2>1. asked[i] = None
    BY <1>d DEF Review!New
  <2>2. ASSUME NEW j \in Review(how)!Id, asked[j] # None
        PROVE  /\ asked'[j] # None /\ asked'[j].kind = asked[j].kind
               /\ asked'[j].want = asked[j].want
               /\ asked'[j].status \in {asked[j].status, "superseded"}
    <3>1. j # i /\ asked[j] \in Request
      BY <1>a, <2>1, <2>2
    <3>2. CASE asked'[j] = asked[j]
      BY <2>2, <3>2
    <3>3. CASE asked'[j] = [asked[j] EXCEPT !.status = "superseded"]
      <4>1. [asked[j] EXCEPT !.status = "superseded"] \in Request
        BY <3>1 DEF Request, Statuses
      <4> QED
        BY <3>1, <3>3, <4>1 DEF Request, RequestSorts
    <3> QED
      BY <1>d, <3>1, <3>2, <3>3
  <2>3. \A j \in Review(how)!Id : asked[j] = None /\ asked'[j] # None => j = i
    BY <1>d
  <2> QED
    BY <1>a, <1>d, <2>2, <2>3 DEF RowsMove
<1>1. ASSUME NEW want \in Limit, Review(how)!AskQuota(p, want) PROVE RowsMove(how, p)
  BY <1>1, <1>b DEF Review!AskQuota
<1>2. CASE Review(how)!QuotaAsked(p)
  <2>1. CASE ~project.live
    BY <1>2, <1>b, <2>1 DEF Review!QuotaAsked
  <2>2. CASE project.live
    <3> DEFINE r == [kind |-> "quota", want |-> hand[p].want, linked |-> TRUE, status |-> "PENDING"]
               old == hand[p].old \intersect Review(how)!Pending("quota")
    <3>1. PICK i \in Review(how)!Id : Review(how)!New(i) /\ asked' =
            [j \in Review(how)!Id |-> IF j = i THEN r
                          ELSE IF j \in old THEN [asked[j] EXCEPT !.status = "superseded"]
                          ELSE asked[j]]
      BY <1>2, <2>2 DEF Review!QuotaAsked
    <3>2. hand[p].pc = "quota" /\ hand[p].want \in Limit /\ project' = project /\ done' = done
      BY <1>2, <1>a DEF Review!QuotaAsked, HandOK
    <3>3. r \in Request
      BY <3>2 DEF Request, Statuses
    <3>4. r.status = "PENDING" /\ r.kind = "quota" /\ r.want \in Limit
      BY <3>2
    <3>5. \A j \in old : j \in Review(how)!Id /\ asked[j] # None
      BY DEF Review!Pending
    <3> HIDE DEF r, old
    <3>6. asked'[i] = r /\ \A j \in Review(how)!Id \ {i} :
             \/ asked'[j] = asked[j]
             \/ asked[j] # None /\ asked'[j] = [asked[j] EXCEPT !.status = "superseded"]
      BY <3>1, <3>5
    <3>7. \A j \in Review(how)!Id : asked'[j] \in Request \union {None}
      <4>1. \A j \in Review(how)!Id : asked[j] # None =>
              [asked[j] EXCEPT !.status = "superseded"] \in Request
        BY <1>a DEF Request, Statuses
      <4> QED
        BY <1>a, <3>3, <3>6, <4>1
    <3>8. asked' \in [Review(how)!Id -> Request \union {None}]
      BY <3>1, <3>7
    <3> QED
      BY <1>d, <3>1, <3>2, <3>3, <3>4, <3>6, <3>8
  <2> QED
    BY <2>1, <2>2
<1>3. CASE Review(how)!AskDelete(p)
  BY <1>3, <1>b DEF Review!AskDelete
<1>4. CASE Review(how)!DeleteAsked(p)
  <2>1. CASE ~project.live
    BY <1>4, <1>b, <2>1 DEF Review!DeleteAsked
  <2>2. CASE project.live
    <3> DEFINE r == [kind |-> "delete", want |-> None, linked |-> TRUE, status |-> "PENDING"]
    <3>1. PICK i \in Review(how)!Id : Review(how)!New(i) /\ asked' = [asked EXCEPT ![i] = r]
      BY <1>4, <2>2 DEF Review!DeleteAsked
    <3>2. hand[p].pc = "delete" /\ project' = project /\ done' = done
      BY <1>4 DEF Review!DeleteAsked
    <3>3. r \in Request
      BY DEF Request, Statuses
    <3>4. r.status = "PENDING" /\ r.kind = "delete"
      OBVIOUS
    <3> HIDE DEF r
    <3>5. asked' \in [Review(how)!Id -> Request \union {None}] /\ asked'[i] = r
          /\ \A j \in Review(how)!Id \ {i} : asked'[j] = asked[j]
      BY <1>a, <3>1, <3>3
    <3> QED
      BY <1>d, <3>1, <3>2, <3>3, <3>4, <3>5
  <2> QED
    BY <2>1, <2>2
<1>5. CASE Review(how)!AskLost(p)
  BY <1>5, <1>b DEF Review!AskLost
<1>6. ASSUME NEW id \in Review(how)!Id, NEW pc \in {"carry", "reject"},
             Review(how)!Decide(p, id, pc)
      PROVE  RowsMove(how, p)
  BY <1>6, <1>b DEF Review!Decide
<1>7. CASE Review(how)!Carry(p)
  <2>1. \/ asked' = asked /\ project' = project /\ done' = done
        \/ /\ done \subseteq done'
           /\ \/ asked[hand[p].id].kind = "quota" /\ Review(how)!Limited(hand[p].want)
              \/ Review(how)!Deleted
    BY <1>7 DEF Review!Carry
  <2>2. asked[hand[p].id].kind = "quota" => hand[p].want \in Limit
    BY <1>7, <1>a DEF Review!Carry, HandOK
  <2> QED
    BY <1>b, <1>c, <2>1, <2>2
<1>8. CASE Review(how)!Mark(p)
  <2>1. hand[p].id \in Review(how)!Id /\ asked[hand[p].id] # None /\ asked[hand[p].id] \in Request
        /\ project' = project /\ done' = done /\ hand[p].pc \in {"approve", "reject"}
    BY <1>8, <1>a DEF Review!Mark, HandOK
  <2>2. CASE asked' = asked
    BY <1>b, <2>1, <2>2
  <2>3. CASE asked' # asked
    <3>1. PICK r : r = [asked[hand[p].id] EXCEPT !.status =
                          IF hand[p].pc = "approve" THEN "APPROVED" ELSE "REJECTED"]
      OBVIOUS
    <3>2. asked' = [asked EXCEPT ![hand[p].id] = r]
      BY <1>8, <2>3, <3>1 DEF Review!Mark
    <3>3. r \in Request /\ r.kind = asked[hand[p].id].kind /\ r.want = asked[hand[p].id].want
          /\ r.status = IF hand[p].pc = "approve" THEN "APPROVED" ELSE "REJECTED"
      BY <2>1, <3>1 DEF Request, Statuses
    <3>4. r # None
      BY <3>3 DEF RequestSorts
    <3>5. asked'[hand[p].id] = r /\ \A j \in Review(how)!Id \ {hand[p].id} : asked'[j] = asked[j]
      BY <1>a, <2>1, <3>2
    <3>6. asked' \in [Review(how)!Id -> Request \union {None}]
      BY <1>a, <3>2, <3>3
    <3>7. \A j \in Review(how)!Id : asked[j] # None =>
            /\ asked'[j] # None /\ asked'[j].kind = asked[j].kind /\ asked'[j].want = asked[j].want
            /\ \/ asked'[j].status \in {asked[j].status, "superseded"}
               \/ /\ hand[p].pc = "approve" /\ hand[p].id = j /\ asked'[j].status = "APPROVED"
               \/ /\ hand[p].pc = "reject" /\ hand[p].id = j /\ asked'[j].status = "REJECTED"
      BY <2>1, <3>3, <3>4, <3>5
    <3>8. \A j \in Review(how)!Id : asked[j] = None => asked'[j] = None
      BY <2>1, <3>5
    <3> QED
      BY <1>a, <2>1, <3>6, <3>7, <3>8 DEF RowsMove
  <2> QED
    BY <2>2, <2>3
<1>9. CASE Review(how)!Direct(p)
  BY <1>9, <1>c DEF Review!Direct
<1>10. CASE Review(how)!Crash(p)
  BY <1>10, <1>b DEF Review!Crash
<1> QED
  BY <1>1, <1>2, <1>3, <1>4, <1>5, <1>6, <1>7, <1>8, <1>9, <1>10 DEF RequestMove

\* What a handler knows stays true of the rows.
LEMMA HandStays ==
  ASSUME NEW how, RequestSorts(how), NEW p \in Person, RowsMove(how, p), NEW hd, HandOK(how, hd)
  PROVE  HandOK(how, hd)'
  BY DEF HandOK, RowsMove

\* A handler at rest knows nothing.
LEMMA FreeOK == ASSUME NEW how PROVE HandOK(how, Review(how)!Free)'
  BY DEF HandOK, RequestHand, Review!Free

\* One handler moves.
LEMMA HandMoves ==
  ASSUME NEW how, RequestSorts(how), RequestTypeInv(how), NEW p \in Person, RowsMove(how, p),
         NEW hd, HandOK(how, hd)',
         hand' = [hand EXCEPT ![p] = hd]
  PROVE  hand' \in [Person -> RequestHand(how)] /\ \A q \in Person : HandOK(how, hand[q])'
<1>1. hand' \in [Person -> RequestHand(how)]
  BY DEF RequestTypeInv, HandOK
<1>2. ASSUME NEW q \in Person PROVE HandOK(how, hand[q])'
  <2>1. PICK x : x = hand'[q]
    OBVIOUS
  <2>2. HandOK(how, x)'
    BY <2>1, HandStays DEF RequestTypeInv
  <2> QED
    BY <2>1, <2>2 DEF HandOK
<1> QED
  BY <1>1, <1>2

\* A step of anybody keeps the types.
LEMMA TypeStep ==
  ASSUME NEW how, RequestSorts(how), RequestTypeInv(how), NEW p \in Person, RequestMove(how, p)
  PROVE  RequestTypeInv(how)'
<1>a. RowsMove(how, p)
  BY RequestRows
<1>b. /\ asked \in [Review(how)!Id -> Request \union {None}] /\ done \subseteq Review(how)!Id
      /\ direct \in 0..MaxDirect /\ crashes \in 0..MaxCrashes
      /\ hand \in [Person -> RequestHand(how)] /\ HandOK(how, hand[p])
      /\ project \in [live : BOOLEAN, limit : Limit]
  BY DEF RequestTypeInv
<1>c. \A i \in Review(how)!Id : asked'[i] # None /\ asked'[i].kind = "quota" => asked'[i].want \in Limit
  BY <1>a DEF RowsMove, RequestTypeInv
<1>d. SUFFICES /\ \/ UNCHANGED hand
                  \/ \E hd : HandOK(how, hd)' /\ hand' = [hand EXCEPT ![p] = hd]
               /\ done' \subseteq Review(how)!Id /\ direct' \in 0..MaxDirect
               /\ crashes' \in 0..MaxCrashes
  <2>1. asked' \in [Review(how)!Id -> Request \union {None}] /\ project' \in [live : BOOLEAN, limit : Limit]
    BY <1>a DEF RowsMove
  <2>2. hand' \in [Person -> RequestHand(how)] /\ \A q \in Person : HandOK(how, hand[q])'
    <3>1. CASE UNCHANGED hand
      <4>1. hand' = [hand EXCEPT ![p] = hand[p]]
        BY <1>b, <3>1
      <4>2. PICK hd : hd = hand[p]
        OBVIOUS
      <4> QED
        BY <1>a, <1>b, <4>1, <4>2, HandStays, HandMoves
    <3>2. CASE \E hd : HandOK(how, hd)' /\ hand' = [hand EXCEPT ![p] = hd]
      BY <1>a, <3>2, HandMoves
    <3> QED
      BY <1>d, <3>1, <3>2
  <2> QED
    BY <1>c, <1>d, <2>1, <2>2 DEF RequestTypeInv
<1> DEFINE Goal == /\ \/ UNCHANGED hand
                      \/ \E hd : HandOK(how, hd)' /\ hand' = [hand EXCEPT ![p] = hd]
                   /\ done' \subseteq Review(how)!Id /\ direct' \in 0..MaxDirect
                   /\ crashes' \in 0..MaxCrashes
<1>e. ASSUME Review(how)!End(p), done' \subseteq Review(how)!Id, direct' = direct,
             crashes' \in 0..MaxCrashes
      PROVE  Goal
  BY <1>b, <1>e, FreeOK DEF Review!End
<1>f. ASSUME NEW hd \in RequestHand(how), hand' = [hand EXCEPT ![p] = hd], hd.pc # "idle",
             hd.pc = "quota" => hd.want \in Limit,
             hd.pc \in {"carry", "approve", "reject"} => hd.id \in Review(how)!Id /\ asked[hd.id] # None,
             hd.pc = "carry" /\ asked[hd.id].kind = "quota" => hd.want \in Limit,
             done' \subseteq Review(how)!Id, direct' = direct, crashes' = crashes
      PROVE  Goal
  <2>1. HandOK(how, hd)
    BY <1>f DEF HandOK
  <2> QED
    BY <1>a, <1>b, <1>f, <2>1, HandStays
<1>1. ASSUME NEW want \in Limit, Review(how)!AskQuota(p, want) PROVE Goal
  <2>1. PICK hd : hd = [pc |-> "quota", id |-> None, want |-> want, old |-> Review(how)!Pending("quota")]
    OBVIOUS
  <2>2. hd \in RequestHand(how) /\ hd.pc = "quota" /\ hd.want \in Limit
    BY <2>1 DEF RequestHand, Review!Pending
  <2>3. hand' = [hand EXCEPT ![p] = hd]
    BY <1>1, <2>1 DEF Review!AskQuota, Review!Begin
  <2> QED
    BY <1>1, <1>b, <1>f, <2>2, <2>3 DEF Review!AskQuota
<1>2. CASE Review(how)!QuotaAsked(p)
  BY <1>2, <1>b, <1>e DEF Review!QuotaAsked
<1>3. CASE Review(how)!AskDelete(p)
  <2>1. PICK hd : hd = [pc |-> "delete", id |-> None, want |-> None, old |-> {}]
    OBVIOUS
  <2>2. hd \in RequestHand(how) /\ hd.pc = "delete"
    BY <2>1 DEF RequestHand
  <2>3. hand' = [hand EXCEPT ![p] = hd]
    BY <1>3, <2>1 DEF Review!AskDelete, Review!Begin
  <2> QED
    BY <1>3, <1>b, <1>f, <2>2, <2>3 DEF Review!AskDelete
<1>4. CASE Review(how)!DeleteAsked(p)
  BY <1>4, <1>b, <1>e DEF Review!DeleteAsked
<1>5. CASE Review(how)!AskLost(p)
  BY <1>5, <1>b, <1>e DEF Review!AskLost
<1>6. ASSUME NEW id \in Review(how)!Id, NEW pc \in {"carry", "reject"},
             Review(how)!Decide(p, id, pc)
      PROVE  Goal
  <2>1. PICK hd : hd = [pc |-> pc, id |-> id, want |-> asked[id].want, old |-> {}]
    OBVIOUS
  <2>2. asked[id] # None /\ asked[id] \in Request
    BY <1>6, <1>b DEF Review!Decide
  <2>3. hd \in RequestHand(how) /\ hd.pc = pc /\ hd.id = id /\ hd.want = asked[id].want
    BY <2>1, <2>2 DEF RequestHand, Request
  <2>4. asked[id].kind = "quota" => hd.want \in Limit
    BY <2>2, <2>3 DEF RequestTypeInv
  <2>5. hand' = [hand EXCEPT ![p] = hd]
    BY <1>6, <2>1 DEF Review!Decide, Review!Begin
  <2> QED
    BY <1>6, <1>b, <1>f, <2>2, <2>3, <2>4, <2>5 DEF Review!Decide
<1>7. CASE Review(how)!Carry(p)
  <2>1. hand[p].pc = "carry" /\ hand[p].id \in Review(how)!Id /\ asked[hand[p].id] # None /\ hand[p] \in RequestHand(how)
    BY <1>7, <1>b DEF Review!Carry, HandOK
  <2>2. CASE Review(how)!End(p)
    BY <1>7, <1>b, <1>e, <2>1, <2>2 DEF Review!Carry
  <2>3. CASE Review(how)!Then(p, "approve")
    <3>1. PICK hd : hd = [hand[p] EXCEPT !.pc = "approve"]
      OBVIOUS
    <3>2. hd \in RequestHand(how) /\ hd.pc = "approve" /\ hd.id = hand[p].id
      BY <2>1, <3>1 DEF RequestHand
    <3>3. hand' = [hand EXCEPT ![p] = hd]
      BY <1>b, <2>3, <3>1 DEF Review!Then
    <3>4. done' \subseteq Review(how)!Id /\ direct' = direct /\ crashes' = crashes
      BY <1>7, <1>b, <2>1 DEF Review!Carry
    <3> QED
      BY <1>f, <2>1, <3>2, <3>3, <3>4
  <2> QED
    BY <1>7, <2>2, <2>3 DEF Review!Carry
<1>8. CASE Review(how)!Mark(p)
  BY <1>8, <1>b, <1>e DEF Review!Mark
<1>9. CASE Review(how)!Direct(p)
  BY <1>9, <1>b DEF Review!Direct, RequestSorts
<1>10. CASE Review(how)!Crash(p)
  <2>1. crashes' \in 0..MaxCrashes
    BY <1>10, <1>b DEF Review!Crash, RequestSorts
  <2> QED
    BY <1>10, <1>b, <1>e, <2>1 DEF Review!Crash
<1> QED
  BY <1>1, <1>2, <1>3, <1>4, <1>5, <1>6, <1>7, <1>8, <1>9, <1>10 DEF RequestMove

\* The types hold at first.
LEMMA RequestTypeInit ==
  ASSUME NEW how, RequestSorts(how), Review(how)!Init
  PROVE  RequestTypeInv(how)
<1>1. HandOK(how, Review(how)!Free)
  BY DEF HandOK, RequestHand, Review!Free
<1>2. project \in [live : BOOLEAN, limit : Limit]
  <2>1. PICK l \in Limit : project = [live |-> TRUE, limit |-> l]
    BY DEF Review!Init
  <2> QED
    BY <2>1
<1>3. /\ asked = [i \in Review(how)!Id |-> None] /\ done = {} /\ hand = [p \in Person |-> Review(how)!Free]
      /\ direct \in 0..MaxDirect /\ crashes \in 0..MaxCrashes
  BY DEF Review!Init, RequestSorts
<1>4. hand \in [Person -> RequestHand(how)] /\ \A p \in Person : HandOK(how, hand[p])
  BY <1>1, <1>3 DEF HandOK
<1> QED
  BY <1>2, <1>3, <1>4 DEF RequestTypeInv

\* Any step keeps the types.
LEMMA RequestTypeNext ==
  ASSUME NEW how, RequestSorts(how), RequestTypeInv(how), [Review(how)!Next]_(Review(how)!vars)
  PROVE  RequestTypeInv(how)'
<1>1. CASE UNCHANGED Review(how)!vars
  BY <1>1 DEF Review!vars, RequestTypeInv, HandOK
<1>2. CASE Review(how)!Next
  BY <1>2, TypeStep DEF Review!Next, RequestMove
<1> QED
  BY <1>1, <1>2

\* The project, the requests, what was carried out and the handlers stay in their ranges,
\* whatever overlaps and whatever dies.
THEOREM RequestTypes ==
  ASSUME NEW how, RequestSorts(how)
  PROVE  Review(how)!Spec => []Review(how)!TypeOK
<1>1. Review(how)!Init => RequestTypeInv(how)
  BY RequestTypeInit
<1>2. RequestTypeInv(how) /\ [Review(how)!Next]_(Review(how)!vars) => RequestTypeInv(how)'
  BY RequestTypeNext
<1>3. RequestTypeInv(how) => Review(how)!TypeOK
  BY DEF RequestTypeInv, Review!TypeOK, RequestHand, Request, Statuses
<1> QED
  BY <1>1, <1>2, <1>3, PTL DEF Review!Spec

-----------------------------------------------------------------------------
(* Requests about a project: approvals.                                    *)

\* Request i was carried out, and the project is gone if that was what it asked.
Carried(how, i) == i \in done /\ (asked[i].kind = "delete" => ~project.live)

\* What is approved, or about to be, was carried out.
ApprovedInv(how) ==
  /\ RequestTypeInv(how)
  /\ \A i \in Review(how)!Id : asked[i] # None /\ asked[i].status = "APPROVED" => Carried(how, i)
  /\ \A p \in Person : hand[p].pc = "approve" => Carried(how, hand[p].id)

\* Only carrying out a request makes an approval of it.
LEMMA ApprovalStep ==
  ASSUME NEW how, RequestSorts(how), RequestTypeInv(how), NEW p \in Person, RequestMove(how, p),
         NEW q \in Person, hand'[q].pc = "approve"
  PROVE  \/ hand'[q] = hand[q]
         \/ /\ q = p /\ hand'[q].id = hand[q].id /\ hand[q].id \in Review(how)!Id /\ asked[hand[q].id] # None
            /\ done' = done \union {hand[q].id}
            /\ asked[hand[q].id].kind = "delete" => ~project'.live
<1>a. hand \in [Person -> RequestHand(how)] /\ HandOK(how, hand[p]) /\ asked \in [Review(how)!Id -> Request \union {None}]
      /\ project \in [live : BOOLEAN, limit : Limit]
  BY DEF RequestTypeInv
<1>b. \/ UNCHANGED hand
      \/ Review(how)!End(p)
      \/ Review(how)!Then(p, "approve") /\ Review(how)!Carry(p)
      \/ \E pc \in {"quota", "delete", "carry", "reject"} : \E id, want, old : Review(how)!Begin(p, pc, id, want, old)
  BY DEF RequestMove, Review!AskQuota, Review!QuotaAsked, Review!AskDelete, Review!DeleteAsked,
     Review!AskLost, Review!Decide, Review!Carry, Review!Mark,
         Review!Direct, Review!Crash
<1>1. CASE q # p
  BY <1>1, <1>a, <1>b DEF Review!Begin, Review!End, Review!Then
<1>2. CASE q = p
  <2>1. CASE Review(how)!Carry(p)
    <3>1. Review(how)!Then(p, "approve")
      BY <1>2, <1>a, <2>1 DEF Review!Carry, Review!End, Review!Then, Review!Free
    <3>2. hand'[p].id = hand[p].id
      BY <1>a, <3>1 DEF Review!Then, RequestHand
    <3>3. hand[p].id \in Review(how)!Id /\ asked[hand[p].id] # None /\ asked[hand[p].id] \in Request
      BY <1>a, <2>1 DEF Review!Carry, HandOK
    <3>4. ~Review(how)!End(p)
      BY <1>2, <1>a DEF Review!End, Review!Free
    <3>5. done' = done \union {hand[p].id}
      BY <2>1, <3>4 DEF Review!Carry
    <3>6. asked[hand[p].id].kind = "delete" => Review(how)!Deleted
      BY <2>1, <3>4 DEF Review!Carry
    <3>7. Review(how)!Deleted => ~project'.live
      BY <1>a DEF Review!Deleted
    <3> QED
      BY <1>2, <3>2, <3>3, <3>5, <3>6, <3>7
  <2>2. CASE UNCHANGED hand
    BY <2>2
  <2>3. CASE Review(how)!End(p)
    BY <1>2, <1>a, <2>3 DEF Review!End, Review!Free
  <2>4. ASSUME NEW pc \in {"quota", "delete", "carry", "reject"}, NEW id, NEW want, NEW old,
               Review(how)!Begin(p, pc, id, want, old)
        PROVE  FALSE
    BY <1>2, <1>a, <2>4 DEF Review!Begin
  <2> QED
    BY <1>b, <2>1, <2>2, <2>3, <2>4
<1> QED
  BY <1>1, <1>2

\* Any step leaves approvals of what was carried out.
LEMMA ApprovedNext ==
  ASSUME NEW how, RequestSorts(how), ApprovedInv(how), [Review(how)!Next]_(Review(how)!vars)
  PROVE  ApprovedInv(how)'
<1>1. CASE UNCHANGED Review(how)!vars
  <2>1. RequestTypeInv(how)'
    BY RequestTypeNext DEF ApprovedInv
  <2> QED
    BY <1>1, <2>1 DEF Review!vars, ApprovedInv, Carried
<1>2. ASSUME NEW p \in Person, RequestMove(how, p) PROVE ApprovedInv(how)'
  <2>1. RequestTypeInv(how) /\ RequestTypeInv(how)' /\ RowsMove(how, p)
    BY <1>2, TypeStep, RequestRows DEF ApprovedInv
  <2>2. ASSUME NEW i \in Review(how)!Id, asked[i] # None, Carried(how, i) PROVE Carried(how, i)'
    <3>1. asked'[i].kind = asked[i].kind /\ done \subseteq done' /\ (project'.live => project.live)
      BY <2>1, <2>2 DEF RowsMove
    <3> QED
      BY <2>2, <3>1 DEF Carried
  <2>3. ASSUME NEW i \in Review(how)!Id, asked'[i] # None, asked'[i].status = "APPROVED"
        PROVE  Carried(how, i)'
    <3>1. asked[i] # None
      BY <2>1, <2>3 DEF RowsMove
    <3>2. asked[i].status = "APPROVED" \/ (hand[p].pc = "approve" /\ hand[p].id = i)
      <4>1. \/ asked'[i].status \in {asked[i].status, "superseded"}
            \/ /\ hand[p].pc = "approve" /\ hand[p].id = i /\ asked'[i].status = "APPROVED"
            \/ /\ hand[p].pc = "reject" /\ hand[p].id = i /\ asked'[i].status = "REJECTED"
        BY <2>1, <3>1 DEF RowsMove
      <4> QED
        BY <2>3, <4>1
    <3>3. Carried(how, i)
      BY <3>1, <3>2 DEF ApprovedInv
    <3> QED
      BY <2>2, <3>1, <3>3
  <2>4. ASSUME NEW q \in Person, hand'[q].pc = "approve", NEW i, i = hand'[q].id
        PROVE  Carried(how, i)'
    <3>1. CASE hand'[q] = hand[q]
      <4>1. Carried(how, i) /\ i \in Review(how)!Id /\ asked[i] # None
        BY <2>1, <2>4, <3>1 DEF ApprovedInv, RequestTypeInv, HandOK
      <4> QED
        BY <2>2, <4>1
    <3>2. CASE /\ q = p /\ hand'[q].id = hand[q].id /\ hand[q].id \in Review(how)!Id /\ asked[hand[q].id] # None
               /\ done' = done \union {hand[q].id}
               /\ asked[hand[q].id].kind = "delete" => ~project'.live
      <4>1. i \in done' /\ asked'[i].kind = asked[i].kind /\ (asked[i].kind = "delete" => ~project'.live)
        BY <2>1, <2>4, <3>2 DEF RowsMove
      <4> QED
        BY <4>1 DEF Carried
    <3> QED
      BY <1>2, <2>1, <2>4, <3>1, <3>2, ApprovalStep
  <2> QED
    BY <2>1, <2>3, <2>4 DEF ApprovedInv, Carried
<1> QED
  BY <1>1, <1>2 DEF Review!Next, RequestMove

\* The invariant says that what is shown as approved was carried out.
LEMMA ApprovedShown ==
  ASSUME NEW how, RequestSorts(how), ApprovedInv(how)
  PROVE  Review(how)!ApprovedIsDone
  BY DEF ApprovedInv, Review!ApprovedIsDone, Review!Status, Carried, RequestSorts, Statuses

\* It holds at first.
LEMMA ApprovedInit ==
  ASSUME NEW how, RequestSorts(how), Review(how)!Init
  PROVE  ApprovedInv(how)
  BY RequestTypeInit DEF Review!Init, ApprovedInv, Review!Free

\* What is shown as approved was carried out, and a project whose deletion is shown as
\* approved is gone, for any number of people who decide at the same time, and of crashes.
THEOREM ApprovedHolds ==
  ASSUME NEW how, RequestSorts(how)
  PROVE  Review(how)!Spec => []Review(how)!ApprovedIsDone
<1>1. Review(how)!Init => ApprovedInv(how)
  BY ApprovedInit
<1>2. ApprovedInv(how) /\ [Review(how)!Next]_(Review(how)!vars) => ApprovedInv(how)'
  BY ApprovedNext
<1>3. ApprovedInv(how) => Review(how)!ApprovedIsDone
  BY ApprovedShown
<1> QED
  BY <1>1, <1>2, <1>3, PTL DEF Review!Spec

-----------------------------------------------------------------------------
(* Requests about a project: one at a time.                                *)

\* What handler hd has read of the queue is still so.
StillSo(how, hd) ==
  /\ hd.pc \in {"carry", "reject"} => asked[hd.id].status = "PENDING"
  /\ hd.pc = "approve" => asked[hd.id].status # "REJECTED"
  /\ hd.pc = "quota" => Review(how)!Pending("quota") \subseteq hd.old
  /\ hd.pc = "delete" => Review(how)!Pending("delete") = {}

\* Whoever is at it is alone.
OneAtATime(how) ==
  /\ \A p, q \in Person : hand[p].pc # "idle" /\ hand[q].pc # "idle" => p = q
  /\ \A p \in Person : StillSo(how, hand[p])

\* No two requests of a kind are pending.
OneOfAKind(how) == \A sort \in {"quota", "delete"} : \A i, j \in Review(how)!Pending(sort) : i = j

\* What was carried out is shown as approved, or superseded, or is about to be.
DoneIsShown(how) ==
  crashes = 0 => \A i \in done :
    /\ asked[i] # None
    /\ \/ asked[i].status \in {"APPROVED", "superseded"}
       \/ \E p \in Person : hand[p].pc = "approve" /\ hand[p].id = i

\* The invariant of requests that are made and decided one at a time.
ApartInv(how) == RequestTypeInv(how) /\ OneAtATime(how) /\ OneOfAKind(how) /\ DoneIsShown(how)

\* Whoever moves is the one at it, or there is none: the others rest.
LEMMA OneIsAlone ==
  ASSUME NEW how, RequestSorts(how), how.apart, ApartInv(how), NEW p \in Person, RequestMove(how, p)
  PROVE  \A q \in Person \ {p} : hand[q].pc = "idle" /\ hand'[q] = hand[q]
<1>a. hand \in [Person -> RequestHand(how)] /\ \A q \in Person : HandOK(how, hand[q])
  BY DEF ApartInv, RequestTypeInv
<1>1. CASE hand[p].pc # "idle"
  <2>1. \A q \in Person \ {p} : hand[q].pc = "idle"
    BY <1>1 DEF ApartInv, OneAtATime
  <2>2. \/ UNCHANGED hand \/ Review(how)!End(p) \/ Review(how)!Then(p, "approve")
        \/ \E pc, id, want, old : Review(how)!Begin(p, pc, id, want, old)
    BY DEF RequestMove, Review!AskQuota, Review!QuotaAsked, Review!AskDelete, Review!DeleteAsked,
       Review!AskLost, Review!Decide, Review!Carry, Review!Mark,
           Review!Direct, Review!Crash
  <2> QED
    BY <1>a, <2>1, <2>2 DEF Review!Begin, Review!End, Review!Then
<1>2. CASE hand[p].pc = "idle"
  <2>1. UNCHANGED hand \/ \E pc, id, want, old : Review(how)!Begin(p, pc, id, want, old)
    BY <1>2, <1>a
       DEF RequestMove, Review!AskQuota, Review!QuotaAsked, Review!AskDelete, Review!DeleteAsked,
           Review!AskLost, Review!Decide, Review!Carry,
                      Review!Mark, Review!Direct, Review!Crash, HandOK
  <2>2. \A q \in Person : hand[q] = Review(how)!Free
    BY <1>2, <1>a
       DEF RequestMove, Review!AskQuota, Review!QuotaAsked, Review!AskDelete, Review!DeleteAsked,
           Review!AskLost, Review!Decide, Review!Carry,
                      Review!Mark, Review!Direct, Review!Crash, HandOK, Review!Begin
  <2> QED
    BY <1>a, <2>1, <2>2 DEF Review!Begin, Review!Free
<1> QED
  BY <1>1, <1>2

\* What whoever moves has read is still so afterwards.
LEMMA StillSoStep ==
  ASSUME NEW how, RequestSorts(how), how.apart, ApartInv(how), NEW p \in Person,
         RequestMove(how, p), NEW hd, hd = hand'[p]
  PROVE  StillSo(how, hd)'
<1>a. hand \in [Person -> RequestHand(how)] /\ HandOK(how, hand[p]) /\ StillSo(how, hand[p])
  BY DEF ApartInv, RequestTypeInv, OneAtATime
<1>1. ASSUME NEW want \in Limit, Review(how)!AskQuota(p, want) PROVE StillSo(how, hd)'
  <2>1. hd.pc = "quota" /\ hd.old = Review(how)!Pending("quota") /\ asked' = asked
    BY <1>1, <1>a DEF Review!AskQuota, Review!Begin
  <2> QED
    BY <2>1 DEF StillSo, Review!Pending
<1>2. CASE Review(how)!AskDelete(p)
  <2>1. hd.pc = "delete" /\ Review(how)!Pending("delete") = {} /\ asked' = asked
    BY <1>2, <1>a DEF Review!AskDelete, Review!Begin
  <2> QED
    BY <2>1 DEF StillSo, Review!Pending
<1>3. ASSUME NEW id \in Review(how)!Id, NEW pc \in {"carry", "reject"},
             Review(how)!Decide(p, id, pc)
      PROVE  StillSo(how, hd)'
  <2>1. hd.pc = pc /\ hd.id = id /\ asked[id].status = "PENDING" /\ asked' = asked
    BY <1>3, <1>a DEF Review!Decide, Review!Begin
  <2> QED
    BY <2>1 DEF StillSo
<1>4. CASE Review(how)!QuotaAsked(p) \/ Review(how)!DeleteAsked(p)
           \/ Review(how)!AskLost(p) \/ Review(how)!Mark(p) \/ Review(how)!Crash(p)
  <2>1. hd = Review(how)!Free
    BY <1>4, <1>a
       DEF Review!QuotaAsked, Review!DeleteAsked, Review!AskLost, Review!Mark, Review!Crash,
           Review!End
  <2> QED
    BY <2>1 DEF StillSo, Review!Free
<1>5. CASE Review(how)!Carry(p)
  <2>1. \/ hd = Review(how)!Free
        \/ hd.pc = "approve" /\ hd.id = hand[p].id
    BY <1>5, <1>a DEF Review!Carry, Review!End, Review!Then, RequestHand
  <2>2. /\ hand[p].pc = "carry" /\ hand[p].id \in Review(how)!Id /\ asked[hand[p].id] # None
        /\ asked[hand[p].id].status = "PENDING"
    BY <1>5, <1>a DEF Review!Carry, HandOK, StillSo
  <2>3. RowsMove(how, p)
    BY RequestRows DEF ApartInv
  <2>4. asked'[hand[p].id].status \in {"PENDING", "superseded"}
    BY <2>2, <2>3 DEF RowsMove
  <2> QED
    BY <2>1, <2>4 DEF StillSo, Review!Free
<1>6. CASE Review(how)!Direct(p)
  <2>1. hd = Review(how)!Free
    BY <1>6, <1>a DEF Review!Direct
  <2> QED
    BY <2>1 DEF StillSo, Review!Free
<1> QED
  BY <1>1, <1>2, <1>3, <1>4, <1>5, <1>6 DEF RequestMove

\* One request of a kind is pending after any step.
LEMMA OneOfAKindStep ==
  ASSUME NEW how, RequestSorts(how), how.apart, ApartInv(how), NEW p \in Person, RequestMove(how, p)
  PROVE  OneOfAKind(how)'
<1>a. RequestTypeInv(how) /\ RowsMove(how, p) /\ HandOK(how, hand[p]) /\ StillSo(how, hand[p])
  BY RequestRows DEF ApartInv, RequestTypeInv, OneAtATime
<1> SUFFICES ASSUME NEW sort \in {"quota", "delete"},
                    NEW i \in Review(how)!Pending(sort)', NEW j \in Review(how)!Pending(sort)'
             PROVE  i = j
  BY DEF OneOfAKind
<1>1. ASSUME NEW k \in Review(how)!Pending(sort)', k \notin Review(how)!Pending(sort)
      PROVE  asked[k] = None /\ hand[p].pc = sort
  <2>1. k \in Review(how)!Id /\ asked'[k] # None /\ asked'[k].kind = sort /\ asked'[k].status = "PENDING"
    BY DEF Review!Pending
  <2>2. CASE asked[k] = None
    BY <1>a, <2>1, <2>2 DEF RowsMove
  <2>3. CASE asked[k] # None
    <3>1. asked[k].kind = sort /\ asked[k].status = "PENDING"
      <4>1. /\ asked'[k].kind = asked[k].kind
            /\ \/ asked'[k].status \in {asked[k].status, "superseded"}
               \/ /\ hand[p].pc = "approve" /\ hand[p].id = k /\ asked'[k].status = "APPROVED"
               \/ /\ hand[p].pc = "reject" /\ hand[p].id = k /\ asked'[k].status = "REJECTED"
        BY <1>a, <2>1, <2>3 DEF RowsMove
      <4> QED
        BY <2>1, <4>1
    <3> QED
      BY <1>1, <2>1, <2>3, <3>1 DEF Review!Pending
  <2> QED
    BY <2>2, <2>3
<1>2. CASE i \in Review(how)!Pending(sort) /\ j \in Review(how)!Pending(sort)
  BY <1>2 DEF ApartInv, OneOfAKind
\* A row was added: by whoever found no other, or supersedes those there were.
<1>3. ASSUME NEW k \in Review(how)!Pending(sort)', k \notin Review(how)!Pending(sort),
             NEW l \in Review(how)!Pending(sort)'
      PROVE  l = k
  <2>1. asked[k] = None /\ hand[p].pc = sort /\ k \in Review(how)!Id
        /\ asked'[k] # None /\ asked'[l].status = "PENDING" /\ l \in Review(how)!Id
    BY <1>1, <1>3 DEF Review!Pending
  <2>2. CASE sort = "quota"
    <3>1. Review(how)!QuotaAsked(p) /\ project.live
      BY <1>a, <2>1, <2>2
         DEF RequestMove, Review!AskQuota, Review!QuotaAsked, Review!AskDelete, Review!DeleteAsked,
             Review!AskLost, Review!Decide,
                              Review!Carry, Review!Mark, Review!Direct, Review!Crash, Review!Begin,
                              Review!Free, Review!Limited, Review!Deleted
    <3>2. PICK n \in Review(how)!Id : Review(how)!New(n) /\ asked' =
            [m \in Review(how)!Id |->
              IF m = n THEN [kind |-> "quota", want |-> hand[p].want, linked |-> TRUE,
                             status |-> "PENDING"]
              ELSE IF m \in hand[p].old \intersect Review(how)!Pending("quota")
                   THEN [asked[m] EXCEPT !.status = "superseded"] ELSE asked[m]]
      BY <3>1 DEF Review!QuotaAsked
    <3>3. k = n
      BY <2>1, <3>2 DEF Review!Pending
    <3>4. CASE l \in Review(how)!Pending("quota") /\ l # n
      <4>1. l \in hand[p].old \intersect Review(how)!Pending("quota") /\ asked[l] \in Request
        BY <1>a, <2>1, <2>2, <3>4 DEF StillSo, RequestTypeInv, Review!Pending
      <4>2. asked'[l] = [asked[l] EXCEPT !.status = "superseded"]
        BY <2>1, <3>2, <3>4, <4>1
      <4>3. asked'[l].status = "superseded"
        BY <4>1, <4>2 DEF Request
      <4> QED
        BY <2>1, <4>3
    <3>5. CASE l \notin Review(how)!Pending("quota") /\ l # n
      <4>1. asked'[l] = asked[l]
        BY <2>1, <3>2, <3>5
      <4>2. asked[l] = None
        BY <1>1, <2>2, <3>5
      <4> QED
        BY <4>1, <4>2 DEF Review!Pending
    <3> QED
      BY <3>3, <3>4, <3>5
  <2>3. CASE sort = "delete"
    <3>1. Review(how)!DeleteAsked(p) /\ project.live
      BY <1>a, <2>1, <2>3
         DEF RequestMove, Review!AskQuota, Review!QuotaAsked, Review!AskDelete, Review!DeleteAsked,
             Review!AskLost, Review!Decide,
                              Review!Carry, Review!Mark, Review!Direct, Review!Crash, Review!Begin,
                              Review!Free, Review!Limited, Review!Deleted
    <3>2. PICK n \in Review(how)!Id : Review(how)!New(n) /\ asked' =
            [asked EXCEPT ![n] = [kind |-> "delete", want |-> None, linked |-> TRUE,
                                  status |-> "PENDING"]]
      BY <3>1 DEF Review!DeleteAsked
    <3>3. k = n
      BY <1>a, <2>1, <3>2 DEF RequestTypeInv
    <3>4. l \notin Review(how)!Pending("delete")
      BY <1>a, <2>1, <2>3 DEF StillSo
    <3>5. CASE l # n
      <4>1. asked'[l] = asked[l]
        BY <1>a, <2>1, <3>2, <3>5 DEF RequestTypeInv
      <4>2. asked[l] = None
        BY <1>1, <2>3, <3>4
      <4> QED
        BY <4>1, <4>2 DEF Review!Pending
    <3> QED
      BY <3>3, <3>5
  <2> QED
    BY <2>2, <2>3
<1> QED
  BY <1>2, <1>3

\* What was carried out is shown so after any step, or is about to be.
LEMMA DoneIsShownStep ==
  ASSUME NEW how, RequestSorts(how), how.apart, ApartInv(how), NEW p \in Person, RequestMove(how, p)
  PROVE  DoneIsShown(how)'
<1>a. /\ RequestTypeInv(how) /\ RowsMove(how, p) /\ HandOK(how, hand[p]) /\ StillSo(how, hand[p])
      /\ hand \in [Person -> RequestHand(how)] /\ crashes \in Nat
  BY RequestRows DEF ApartInv, RequestTypeInv, OneAtATime, RequestSorts
<1> SUFFICES ASSUME crashes' = 0, NEW i \in done'
             PROVE  /\ asked'[i] # None
                    /\ \/ asked'[i].status \in {"APPROVED", "superseded"}
                       \/ \E q \in Person : hand'[q].pc = "approve" /\ hand'[q].id = i
  BY DEF DoneIsShown
<1>b. crashes = 0 /\ ~Review(how)!Crash(p)
  BY <1>a
     DEF RequestMove, Review!AskQuota, Review!QuotaAsked, Review!AskDelete, Review!DeleteAsked,
         Review!AskLost, Review!Decide, Review!Carry, Review!Mark,
              Review!Direct, Review!Crash
<1>1. CASE i \in done
  <2>1. i \in Review(how)!Id /\ asked[i] # None /\ asked'[i] # None
    BY <1>1, <1>a, <1>b DEF ApartInv, DoneIsShown, RequestTypeInv, RowsMove
  <2>2. CASE asked[i].status \in {"APPROVED", "superseded"}
    <3>1. ~(hand[p].pc = "reject" /\ hand[p].id = i)
      BY <1>a, <2>2 DEF StillSo
    <3>2. \/ asked'[i].status \in {asked[i].status, "superseded"}
          \/ /\ hand[p].pc = "approve" /\ hand[p].id = i /\ asked'[i].status = "APPROVED"
          \/ /\ hand[p].pc = "reject" /\ hand[p].id = i /\ asked'[i].status = "REJECTED"
      BY <1>a, <2>1 DEF RowsMove
    <3> QED
      BY <2>1, <2>2, <3>1, <3>2
  <2>3. ASSUME NEW q \in Person, hand[q].pc = "approve", hand[q].id = i
        PROVE  asked'[i].status \in {"APPROVED", "superseded"}
    <3>1. q = p
      BY <2>3, OneIsAlone
    <3>2. Review(how)!Mark(p)
      BY <1>a, <1>b, <2>3, <3>1, OneIsAlone
         DEF RequestMove, Review!AskQuota, Review!QuotaAsked, Review!AskDelete, Review!DeleteAsked,
                Review!AskLost, Review!Decide, Review!Carry, Review!Mark,
             Review!Direct, Review!Crash, Review!Begin, Review!Free
    <3>3. CASE asked[i].status = "superseded"
      BY <2>3, <3>1, <3>2, <3>3 DEF Review!Mark
    <3>4. CASE asked[i].status # "superseded"
      <4>1. asked' = [asked EXCEPT ![i].status = "APPROVED"]
        BY <2>3, <3>1, <3>2, <3>4 DEF Review!Mark
      <4>2. asked \in [Review(how)!Id -> Request \union {None}] /\ asked[i] \in Request
        BY <2>1 DEF ApartInv, RequestTypeInv
      <4> QED
        BY <2>1, <4>1, <4>2 DEF Request
    <3> QED
      BY <3>3, <3>4
  <2> QED
    BY <1>1, <1>b, <2>1, <2>2, <2>3 DEF ApartInv, DoneIsShown
<1>2. CASE i \notin done
  <2>1. Review(how)!Carry(p)
    BY <1>2
       DEF RequestMove, Review!AskQuota, Review!QuotaAsked, Review!AskDelete, Review!DeleteAsked,
           Review!AskLost, Review!Decide, Review!Mark,
                Review!Direct, Review!Crash
  <2>2. i = hand[p].id /\ Review(how)!Then(p, "approve")
    BY <1>2, <2>1 DEF Review!Carry
  <2>3. hand'[p].pc = "approve" /\ hand'[p].id = i
    BY <1>a, <2>2 DEF Review!Then, RequestHand
  <2>4. i \in Review(how)!Id /\ asked[i] # None
    BY <1>a, <2>1, <2>2 DEF Review!Carry, HandOK
  <2> QED
    BY <1>a, <2>3, <2>4 DEF RowsMove
<1> QED
  BY <1>1, <1>2

\* Any step leaves one at a time.
LEMMA ApartNext ==
  ASSUME NEW how, RequestSorts(how), how.apart, ApartInv(how), [Review(how)!Next]_(Review(how)!vars)
  PROVE  ApartInv(how)'
<1>1. CASE UNCHANGED Review(how)!vars
  <2>1. RequestTypeInv(how)'
    BY RequestTypeNext DEF ApartInv
  <2> QED
    BY <1>1, <2>1
       DEF Review!vars, ApartInv, OneAtATime, StillSo, OneOfAKind, DoneIsShown, Review!Pending
<1>2. ASSUME NEW p \in Person, RequestMove(how, p) PROVE ApartInv(how)'
  <2>1. RequestTypeInv(how)' /\ OneOfAKind(how)' /\ DoneIsShown(how)'
    BY <1>2, TypeStep, OneOfAKindStep, DoneIsShownStep DEF ApartInv
  <2>2. \A q \in Person \ {p} : hand'[q].pc = "idle"
    BY <1>2, OneIsAlone
  <2>3. PICK hd : hd = hand'[p]
    OBVIOUS
  <2>4. StillSo(how, hd)'
    BY <1>2, <2>3, StillSoStep
  <2>5. OneAtATime(how)'
    BY <2>2, <2>3, <2>4 DEF OneAtATime, StillSo
  <2> QED
    BY <2>1, <2>5 DEF ApartInv
<1> QED
  BY <1>1, <1>2 DEF Review!Next, RequestMove

\* At first nothing was asked.
LEMMA ApartInit == ASSUME NEW how, RequestSorts(how), Review(how)!Init PROVE ApartInv(how)
<1>1. /\ asked = [i \in Review(how)!Id |-> None] /\ done = {} /\ hand = [p \in Person |-> Review(how)!Free]
  BY DEF Review!Init
<1>2. \A p \in Person : hand[p].pc = "idle"
  BY <1>1 DEF Review!Free
<1>3. \A sort : Review(how)!Pending(sort) = {}
  BY <1>1 DEF Review!Pending
<1> QED
  BY <1>1, <1>2, <1>3, RequestTypeInit DEF ApartInv, OneAtATime, StillSo, OneOfAKind, DoneIsShown

\* Where decisions are kept apart, what is rejected was not carried out.
LEMMA RejectedShown ==
  ASSUME NEW how, RequestSorts(how), ApartInv(how)
  PROVE  Review(how)!RejectedIsNotDone
<1> SUFFICES ASSUME crashes = 0, NEW i \in Review(how)!Id,
                    Review(how)!Status(i) = "REJECTED"
             PROVE  i \notin done
  BY DEF Review!RejectedIsNotDone
<1>1. asked[i] # None /\ asked[i].status = "REJECTED"
  BY DEF Review!Status, RequestSorts, Statuses
<1>2. ASSUME NEW p \in Person, hand[p].pc = "approve", hand[p].id = i PROVE FALSE
  BY <1>1, <1>2 DEF ApartInv, OneAtATime, StillSo
<1> QED
  BY <1>1, <1>2 DEF ApartInv, DoneIsShown

\* Where decisions are kept apart, one request of a kind is pending.
LEMMA OneShown ==
  ASSUME NEW how, RequestSorts(how), ApartInv(how)
  PROVE  Review(how)!OnePending
<1> SUFFICES ASSUME NEW sort \in {"quota", "delete"}
             PROVE  Cardinality(Review(how)!Pending(sort)) <= 1
  BY Sizes DEF Review!OnePending
<1>1. CASE Review(how)!Pending(sort) = {}
  BY <1>1, FS_EmptySet
<1>2. CASE Review(how)!Pending(sort) # {}
  <2>1. \A i, j \in Review(how)!Pending(sort) : i = j
    BY DEF ApartInv, OneOfAKind
  <2>2. PICK i \in Review(how)!Pending(sort) : Review(how)!Pending(sort) = {i}
    BY <1>2, <2>1
  <2>3. Cardinality({i}) = 1
    BY FS_Singleton
  <2> QED
    BY <2>2, <2>3
<1> QED
  BY <1>1, <1>2

\* What is shown as rejected was not carried out, for any number of people, when decisions
\* are taken one at a time and no approval dies half way.
THEOREM RejectedHolds ==
  ASSUME NEW how, RequestSorts(how)
  PROVE  Review(how)!Spec => []Review(how)!RejectedIsNotDone
<1>1. CASE how.apart
  <2>1. Review(how)!Init => ApartInv(how)
    BY <1>1, ApartInit
  <2>2. ApartInv(how) /\ [Review(how)!Next]_(Review(how)!vars) => ApartInv(how)'
    BY <1>1, ApartNext
  <2>3. ApartInv(how) => Review(how)!RejectedIsNotDone
    BY RejectedShown
  <2> QED
    BY <2>1, <2>2, <2>3, PTL DEF Review!Spec
<1>2. CASE ~how.apart
  <2>1. Review(how)!RejectedIsNotDone
    BY <1>2 DEF Review!RejectedIsNotDone
  <2> QED
    BY <2>1, PTL
<1> QED
  BY <1>1, <1>2

\* The queue shows one request of a kind, for any number of people, when they are made and
\* decided one at a time.
THEOREM OnePendingHolds ==
  ASSUME NEW how, RequestSorts(how)
  PROVE  Review(how)!Spec => []Review(how)!OnePending
<1>1. CASE how.apart
  <2>1. Review(how)!Init => ApartInv(how)
    BY <1>1, ApartInit
  <2>2. ApartInv(how) /\ [Review(how)!Next]_(Review(how)!vars) => ApartInv(how)'
    BY <1>1, ApartNext
  <2>3. ApartInv(how) => Review(how)!OnePending
    BY OneShown
  <2> QED
    BY <2>1, <2>2, <2>3, PTL DEF Review!Spec
<1>2. CASE ~how.apart
  <2>1. Review(how)!OnePending
    BY <1>2 DEF Review!OnePending
  <2> QED
    BY <2>1, PTL
<1> QED
  BY <1>1, <1>2

-----------------------------------------------------------------------------
(* A build: one publisher, nothing left behind, Secrets that are there.    *)

BuildRow(how) == [deleting : BOOLEAN, enabled : BOOLEAN, applied : BOOLEAN, quiet : BOOLEAN,
             rev : Build(how)!Rev \union {None}]
CronJob(how) == [rev : Build(how)!Rev, suspend : BOOLEAN]
BuildJob(how) == [st : {"none", "active", "succeeded", "failed", "deleting"}, rev : Build(how)!Rev \union {None}]
PodState(how) == {"none", "pending", "publishing"} \union Build(how)!Final
BuildPc == {"idle", "suspend", "write", "revise", "secret", "install", "applied", "pause", "invalid",
        "post", "uncron", "unjob", "check", "unsecret", "unlease", "forget",
        "jobs", "lease", "pods", "release", "cron", "sweep"}
BuildOp(how) ==
  [kind : {"idle", "save", "apply", "pause", "invalidate", "run", "delete", "collect"}, pc : BuildPc,
   on : BOOLEAN, rev : Build(how)!Rev \union {None}, live : Build(how)!Rev \union {None}, lease : how.slots \union {None},
   jobs : [how.slots -> BuildJob(how)], used : SUBSET Build(how)!Rev]

BuildSorts(how) ==
  /\ None \notin how.slots /\ None \notin Nat /\ None \notin BuildRow(how)
  /\ None \notin CronJob(how)
  /\ how.revs \in Nat /\ how.drifts \in Nat

\* What an operation goes through, in its kind.
InCourse(how, o) ==
  /\ (o.kind = "idle") <=> (o.pc = "idle")
  /\ o.kind = "idle" => o = Build(how)!Idle
  /\ o.kind = "save" => o.pc \in {"suspend", "write"}
  /\ o.kind = "apply" => o.pc \in {"suspend", "revise", "secret", "install", "applied"}
  /\ o.kind = "pause" => o.pc \in {"suspend", "pause"}
  /\ o.kind = "invalidate" => o.pc \in {"suspend", "invalid"}
  /\ o.kind = "run" => o.pc = "post"
  /\ o.kind = "delete" =>
       o.pc \in {"suspend", "uncron", "unjob", "check", "unsecret", "unlease", "forget"}
  /\ o.kind = "collect" =>
       o.pc \in {"suspend", "invalid", "jobs", "lease", "pods", "release", "cron", "sweep"}
  /\ o.pc \in {"secret", "install", "applied"} => o.rev \in Build(how)!Rev

BuildTyped(how) ==
  /\ row \in BuildRow(how) \union {None}
  /\ made \in [Build(how)!Rev -> 0..how.drifts \union {None}] /\ secrets \subseteq Build(how)!Rev
  /\ overtaken \subseteq Build(how)!Rev
  /\ runs \in [how.slots -> Build(how)!Final \union {"none", "pending", "unknown"}]
  /\ cron \in CronJob(how) \union {None} /\ seen \in CronJob(how) \union {None}
  /\ job \in [how.slots -> BuildJob(how)] /\ pod \in [how.slots -> PodState(how)]
  /\ lease \in how.slots \union {None} /\ cred \in 0..how.drifts
  /\ op \in BuildOp(how) /\ InCourse(how, op)
  /\ row = None => op.kind \in {"idle", "save"} /\ op.pc \in {"idle", "write"}

BuildGone(how) == /\ cron = None /\ seen = None /\ secrets = {} /\ lease = None
                  /\ \A s \in how.slots : job[s] = Build(how)!NoJob /\ pod[s] = "none"

\* A deletion takes down one thing after the other.
TakenDown(how) ==
  /\ row = None => BuildGone(how)
  /\ cron = None => seen = None
  /\ op.pc \in {"unjob", "check", "unsecret", "unlease", "forget"} => cron = None /\ seen = None
  /\ op.pc \in {"unsecret", "unlease", "forget"} => \A s \in how.slots : job[s] = Build(how)!NoJob /\ pod[s] = "none"
  /\ op.pc \in {"unlease", "forget"} => secrets = {}
  /\ op.pc = "forget" => lease = None
  /\ \A r \in secrets : made[r] # None
  /\ op.pc = "secret" => made[op.rev] # None

\* Who publishes holds the Lease; the one about to be released is nobody's.
LeaseHeld(how) ==
  /\ \A s \in how.slots : pod[s] = "publishing" => lease = s
  /\ op.pc = "release" => op.lease \in how.slots /\ pod[op.lease] \in Build(how)!Final \union {"none"}

BuildSuspended(how) == cron = None \/ cron.suspend
StaysPaused(how) ==
  /\ Build(how)!PausedStaysPaused
  /\ op.pc \in {"write", "pause"} => BuildSuspended(how)

\* Revisions are made in order.
RevisionsInOrder(how) ==
  /\ \A q, r \in Build(how)!Rev : q < r /\ made[r] # None => made[q] # None
  /\ cron # None => made[cron.rev] # None
  /\ row # None /\ row.rev # None => made[row.rev] # None
  /\ op.pc \in {"secret", "install", "applied"} => made[op.rev] # None
  /\ cron # None /\ op.pc \in {"secret", "install"} => cron.rev < op.rev
  /\ row # None /\ row.rev # None /\ op.pc \in {"secret", "install", "applied"} => row.rev < op.rev
  /\ op.pc = "applied" => cron # None /\ cron.rev = op.rev
  /\ cron # None /\ seen # None => seen.rev <= cron.rev
  /\ cron # None /\ row # None /\ row.rev # None => row.rev <= cron.rev
  /\ row # None /\ row.quiet => row.rev # None /\ (seen # None => row.rev <= seen.rev)

\* A deletion is marked before anything goes; what is applied has a revision.
BuildMarked(how) ==
  /\ op.kind = "delete" => row # None /\ row.deleting
  /\ op.kind \in {"save", "collect"} /\ row # None => ~row.deleting
  /\ op.pc = "post" => row # None /\ ~row.deleting /\ row.rev # None
  /\ row # None /\ row.applied => row.rev # None
  /\ \A s \in how.slots : job[s].st = "deleting" => row # None /\ row.deleting

\* What may still be fired, or waits, keeps its Secret, but a revision that was overtaken;
\* and once the last recorded apply is old, the controller knows no other revision than
\* the row's, the CronJob's or one that was overtaken.
JobWaits(how, s) == job[s].st = "active" /\ pod[s] = "pending"
SeenStands(how) ==
  row # None /\ row.quiet /\ seen # None =>
    seen.rev = row.rev \/ seen.rev \in overtaken \/ (cron # None /\ seen.rev = cron.rev)
SecretsKept(how) ==
  /\ cron # None => cron.rev \in secrets
  /\ seen # None => seen.rev \in secrets \union overtaken
  /\ row # None /\ ~row.deleting /\ row.rev # None => row.rev \in secrets
  /\ op.pc \in {"install", "applied"} => op.rev \in secrets
  /\ SeenStands(how)
  /\ op.pc \in {"release", "cron", "sweep"} /\ row.quiet =>
       \A s \in how.slots : JobWaits(how, s) =>
         job[s].rev \in op.used \union {row.rev} \union overtaken \/ (cron # None /\ job[s].rev = cron.rev)
  /\ op.pc = "sweep" => op.live = IF cron = None THEN None ELSE cron.rev
  /\ Build(how)!SecretIsThere

\* A Job that was recorded as having succeeded is the one that did; the one the
\* collector has read is the one in the slot.
SuccessKnown(how) ==
  /\ \A s \in how.slots : runs[s] = "succeeded" /\ job[s] # Build(how)!NoJob =>
       job[s].st \in {"succeeded", "deleting"} /\ pod[s] \in {"succeeded", "none"}
  /\ \A s \in how.slots : op.jobs[s] # Build(how)!NoJob =>
       /\ op.kind = "collect"
       /\ job[s] = Build(how)!NoJob \/ (op.jobs[s].st # "active" => job[s].st = op.jobs[s].st)
       /\ runs[s] = "succeeded" /\ job[s] # Build(how)!NoJob => op.jobs[s].st # "active"

BuildInv(how) ==
  BuildTyped(how) /\ TakenDown(how) /\ BuildMarked(how) /\ LeaseHeld(how) /\ StaysPaused(how) /\ RevisionsInOrder(how) /\ SecretsKept(how) /\ SuccessKnown(how)

\* The row stays what it is, but may be marked as not applied.
RowKept(how) ==
  /\ row' \in BuildRow(how) \union {None} /\ (row = None <=> row' = None)
  /\ row # None => /\ row'.deleting = row.deleting /\ row'.enabled = row.enabled
                   /\ row'.quiet = row.quiet /\ row'.rev = row.rev /\ (row'.applied => row.applied)

\* The operation goes on at pc.
Led(how, pc) ==
  /\ op' \in BuildOp(how) /\ op'.pc = pc /\ op'.kind = op.kind /\ op'.on = op.on /\ op'.rev = op.rev
  /\ op'.live = op.live /\ op'.lease = op.lease /\ op'.used = op.used /\ op'.jobs = op.jobs

\* The operation ends, or goes on at one of pcs.
Onward(how, pcs) ==
  /\ op' \in BuildOp(how) /\ op'.pc \in pcs \union {"idle"}
  /\ op'.pc = "idle" => op' = Build(how)!Idle /\ op'.kind = "idle"
  /\ op'.pc # "idle" => /\ row' = row /\ op'.kind = op.kind /\ op'.on = op.on /\ op'.rev = op.rev
                        /\ op'.live = op.live /\ op'.lease = op.lease /\ op'.used = op.used
                        /\ op'.jobs = op.jobs

LEMMA BuildIdle ==
  ASSUME NEW how
  PROVE   /\ Build(how)!Idle \in BuildOp(how) /\ Build(how)!Idle.kind = "idle" /\ Build(how)!Idle.pc = "idle" /\ InCourse(how, Build(how)!Idle)
  /\ Build(how)!NoJob \in BuildJob(how) /\ Build(how)!NoJob.st = "none"
  /\ Build(how)!NoJob.rev = None
  /\ \A s \in how.slots : Build(how)!Idle.jobs[s] = Build(how)!NoJob
  BY DEF Build!Idle, BuildOp, InCourse, Build!NoJob, BuildJob, BuildPc

LEMMA BuildCourse ==
  ASSUME NEW how, BuildTyped(how)
  PROVE  /\ op.pc = "write" => op.kind = "save"
         /\ op.pc \in {"revise", "secret", "install", "applied"} => op.kind = "apply"
         /\ op.pc = "pause" => op.kind = "pause"
         /\ op.pc = "invalid" => op.kind \in {"invalidate", "collect"}
         /\ op.pc = "post" => op.kind = "run"
         /\ op.pc \in {"uncron", "unjob", "check", "unsecret", "unlease", "forget"} => op.kind = "delete"
         /\ op.pc \in {"jobs", "lease", "pods", "release", "cron", "sweep"} => op.kind = "collect"
         /\ op.pc = "suspend" => op.kind \notin {"idle", "run"}
         /\ op.pc \notin {"idle", "write"} => row # None
<1>1. /\ op.kind \in {"idle", "save", "apply", "pause", "invalidate", "run", "delete", "collect"}
      /\ InCourse(how, op)
  BY DEF BuildTyped, BuildOp
<1> QED
  BY <1>1 DEF InCourse, BuildTyped

LEMMA BuildLeads ==
  ASSUME NEW how, BuildTyped(how), NEW pc \in BuildPc, op' = [op EXCEPT !.pc = pc]
  PROVE  Led(how, pc)
  BY DEF Led, BuildTyped, BuildOp

LEMMA BuildFails ==
  ASSUME NEW how, BuildTyped(how), BuildSorts(how), Build(how)!Fails
  PROVE  op' = Build(how)!Idle /\ RowKept(how)
<1>1. CASE op.kind = "apply"
  <2>1. row \in BuildRow(how) /\ row' = [row EXCEPT !.applied = FALSE]
    BY <1>1 DEF BuildTyped, Build!Fails
  <2>2. /\ row' \in BuildRow(how) /\ row'.deleting = row.deleting /\ row'.enabled = row.enabled
        /\ row'.quiet = row.quiet /\ row'.rev = row.rev /\ ~row'.applied
    BY <2>1 DEF BuildRow
  <2> QED
    BY <2>1, <2>2 DEF RowKept, BuildSorts, Build!Fails
<1>2. CASE op.kind # "apply"
  BY <1>2 DEF Build!Fails, RowKept, BuildTyped
<1> QED
  BY <1>1, <1>2

LEMMA BuildLeadsTo ==
  ASSUME NEW how, BuildTyped(how), BuildSorts(how), NEW pc \in BuildPc \ {"idle"},
         Build(how)!LeadsTo(pc)
  PROVE  RowKept(how) /\ Onward(how, {pc})
<1>1. CASE Build(how)!Fails
  BY <1>1, BuildFails, BuildIdle DEF Onward
<1>2. CASE op' = [op EXCEPT !.pc = pc] /\ row' = row
  BY <1>2, BuildLeads DEF RowKept, BuildTyped, Onward, Led
<1> QED
  BY <1>1, <1>2 DEF Build!LeadsTo

LEMMA BuildTakesUp ==
  ASSUME NEW how, BuildTyped(how), NEW act, NEW pc, NEW on \in BOOLEAN,
         Build(how)!Begin(act, pc, on),
         act \in {"idle", "save", "apply", "pause", "invalidate", "run", "delete", "collect"}, pc \in BuildPc
  PROVE  /\ op = Build(how)!Idle /\ op' \in BuildOp(how) /\ op'.kind = act /\ op'.pc = pc
         /\ op'.jobs = Build(how)!Idle.jobs
  BY BuildIdle DEF Build!Begin, BuildOp

\* An operation begins.
LEMMA BuildBegins ==
  ASSUME NEW how, BuildSorts(how), BuildInv(how), NEW act, NEW pc, op = Build(how)!Idle,
         op' \in BuildOp(how), op'.kind = act, op'.pc = pc,
         op'.jobs = Build(how)!Idle.jobs,
         UNCHANGED <<made, overtaken, runs, Build(how)!cluster, cred>>, row # None \/ act = "save",
         act = "save" /\ row # None => ~row.deleting,
         \/ row' = row /\ (act = "delete" => row.deleting)
         \/ row' = [row EXCEPT !.deleting = TRUE, !.enabled = FALSE] /\ act = "delete",
         \/ act = "save" /\ pc = IF row = None THEN "write" ELSE "suspend"
         \/ act \in {"pause", "apply", "invalidate", "delete"} /\ pc = "suspend"
         \/ act = "run" /\ pc = "post" /\ ~row.deleting /\ row.applied
         \/ act = "collect" /\ pc \in {"jobs", "suspend"} /\ ~row.deleting
  PROVE  BuildInv(how)'
<1>a. /\ row \in BuildRow(how) \union {None} /\ made \in [Build(how)!Rev -> 0..how.drifts \union {None}]
      /\ secrets \subseteq Build(how)!Rev /\ overtaken \subseteq Build(how)!Rev
      /\ runs \in [how.slots -> Build(how)!Final \union {"none", "pending", "unknown"}]
      /\ cron \in CronJob(how) \union {None} /\ seen \in CronJob(how) \union {None}
      /\ job \in [how.slots -> BuildJob(how)] /\ pod \in [how.slots -> PodState(how)]
      /\ lease \in how.slots \union {None} /\ cred \in 0..how.drifts
      /\ op \in BuildOp(how) /\ InCourse(how, op)
      /\ row = None => op.kind \in {"idle", "save"} /\ op.pc \in {"idle", "write"}
  BY DEF BuildInv, BuildTyped
<1>b. None \notin BuildRow(how) /\ None \notin CronJob(how) /\ None \notin how.slots /\ None \notin Build(how)!Rev /\ Build(how)!Rev \subseteq Nat
  BY DEF BuildSorts, Build!Rev
<1>c. /\ cron # None => cron.rev \in Build(how)!Rev
      /\ seen # None => seen.rev \in Build(how)!Rev
      /\ row # None => /\ row.rev \in Build(how)!Rev \union {None} /\ row.enabled \in BOOLEAN
                       /\ row.deleting \in BOOLEAN /\ row.quiet \in BOOLEAN
      /\ op.rev \in Build(how)!Rev \union {None}
  BY <1>a DEF CronJob, BuildRow, BuildOp
<1>d. op.kind # "collect" => \A t \in how.slots : op.jobs[t] = Build(how)!NoJob
  BY DEF BuildInv, SuccessKnown
<1>1. op.pc = "idle" /\ op.kind = "idle"
  BY BuildIdle
<1>2. /\ row' \in BuildRow(how) \union {None} /\ (row = None <=> row' = None)
      /\ row # None => /\ row'.quiet = row.quiet /\ row'.rev = row.rev /\ row'.applied = row.applied
      /\ row' = row \/ (act = "delete" /\ row'.deleting)
      /\ act = "delete" => row'.deleting
  <2>1. CASE row' = row
    BY <2>1, <1>a DEF BuildRow
  <2>2. CASE row' = [row EXCEPT !.deleting = TRUE, !.enabled = FALSE] /\ act = "delete"
    BY <2>2, <1>a, <1>b DEF BuildRow
  <2> QED
    BY <2>1, <2>2
<1>3. UNCHANGED <<cron, seen, job, pod, lease, secrets, made, overtaken, runs, cred>>
  BY DEF Build!cluster
<1>4. op'.pc \in {"write", "suspend", "post", "jobs"}
  OBVIOUS
<1>t1. BuildTyped(how)'
  BY <1>a, <1>b, <1>c, BuildIdle, <1>1, <1>2, <1>3, <1>4
     DEF BuildTyped, InCourse
<1>t2. TakenDown(how)'
  BY <1>a, <1>b, <1>c, BuildIdle, <1>1, <1>2, <1>3, <1>4, <1>t1
     DEF Build!NoJob, BuildInv, TakenDown, BuildGone
<1>t3. BuildMarked(how)'
  BY <1>a, <1>b, <1>c, BuildIdle, <1>1, <1>2, <1>3, <1>4, <1>t1
     DEF Build!NoJob, BuildInv, BuildMarked
<1>t4. LeaseHeld(how)'
  BY <1>3, <1>4 DEF BuildInv, LeaseHeld
<1>t5. StaysPaused(how)'
  <2>1. op'.pc = "write" => cron = None
    BY DEF BuildInv, TakenDown, BuildGone
  <2>2. Build(how)!PausedStaysPaused'
    BY <1>2, <1>3 DEF BuildInv, StaysPaused, Build!PausedStaysPaused
  <2> QED
    BY <2>1, <2>2, <1>3, <1>4 DEF StaysPaused, BuildSuspended
<1>t6. RevisionsInOrder(how)'
  BY <1>a, <1>b, <1>c, BuildIdle, <1>1, <1>2, <1>3, <1>4, <1>t1
     DEF Build!NoJob, BuildInv, RevisionsInOrder
<1>t7. SecretsKept(how)'
  BY <1>a, <1>b, <1>c, BuildIdle, <1>1, <1>2, <1>3, <1>4, <1>t1, <1>t3
     DEF Build!NoJob, BuildInv, SecretsKept, SeenStands, BuildMarked, Build!SecretIsThere, JobWaits
<1>t8. SuccessKnown(how)'
  BY <1>a, <1>b, <1>c, <1>d, BuildIdle, <1>1, <1>2, <1>3, <1>4, <1>t1, <1>t3
     DEF Build!NoJob, BuildInv, SuccessKnown, BuildMarked
<1> QED
  BY <1>t1, <1>t2, <1>t3, <1>t4, <1>t5, <1>t6, <1>t7, <1>t8 DEF BuildInv

\* An operation ends, and what it did to the cluster stays as it is.
LEMMA BuildEnds ==
  ASSUME NEW how, BuildSorts(how), BuildInv(how), op' = Build(how)!Idle, RowKept(how),
         UNCHANGED <<made, overtaken, runs, Build(how)!cluster, cred>>
  PROVE  BuildInv(how)'
<1>a. /\ row \in BuildRow(how) \union {None} /\ made \in [Build(how)!Rev -> 0..how.drifts \union {None}]
      /\ secrets \subseteq Build(how)!Rev /\ overtaken \subseteq Build(how)!Rev
      /\ runs \in [how.slots -> Build(how)!Final \union {"none", "pending", "unknown"}]
      /\ cron \in CronJob(how) \union {None} /\ seen \in CronJob(how) \union {None}
      /\ job \in [how.slots -> BuildJob(how)] /\ pod \in [how.slots -> PodState(how)]
      /\ lease \in how.slots \union {None} /\ cred \in 0..how.drifts
      /\ op \in BuildOp(how) /\ InCourse(how, op)
      /\ row = None => op.kind \in {"idle", "save"} /\ op.pc \in {"idle", "write"}
  BY DEF BuildInv, BuildTyped
<1>b. None \notin BuildRow(how) /\ None \notin CronJob(how) /\ None \notin how.slots /\ None \notin Build(how)!Rev /\ Build(how)!Rev \subseteq Nat
  BY DEF BuildSorts, Build!Rev
<1>c. /\ cron # None => cron.rev \in Build(how)!Rev
      /\ seen # None => seen.rev \in Build(how)!Rev
      /\ row # None => /\ row.rev \in Build(how)!Rev \union {None} /\ row.enabled \in BOOLEAN
                       /\ row.deleting \in BOOLEAN /\ row.quiet \in BOOLEAN
      /\ op.rev \in Build(how)!Rev \union {None}
  BY <1>a DEF CronJob, BuildRow, BuildOp
<1>d. op.kind # "collect" => \A t \in how.slots : op.jobs[t] = Build(how)!NoJob
  BY DEF BuildInv, SuccessKnown
<1>1. op'.pc = "idle" /\ op'.kind = "idle"
  BY BuildIdle
<1>2. UNCHANGED <<cron, seen, job, pod, lease, secrets, made, overtaken, runs, cred>>
  BY DEF Build!cluster
<1>t1. BuildTyped(how)'
  BY <1>a, <1>b, <1>c, BuildIdle, <1>1, <1>2
     DEF BuildTyped, InCourse, RowKept
<1>t2. TakenDown(how)'
  BY <1>a, <1>b, <1>c, BuildIdle, <1>1, <1>2, <1>t1
     DEF Build!NoJob, BuildInv, TakenDown, BuildGone, RowKept
<1>t3. BuildMarked(how)'
  BY <1>a, <1>b, <1>c, BuildIdle, <1>1, <1>2, <1>t1
     DEF Build!NoJob, BuildInv, BuildMarked, RowKept
<1>t4. LeaseHeld(how)'
  BY <1>a, <1>b, <1>c, BuildIdle, <1>1, <1>2, <1>t1
     DEF Build!NoJob, BuildInv, LeaseHeld, Build!Final, RowKept
<1>t5. StaysPaused(how)'
  BY <1>a, <1>b, <1>c, BuildIdle, <1>1, <1>2, <1>t1
     DEF Build!NoJob, BuildInv, StaysPaused, Build!PausedStaysPaused, BuildSuspended, RowKept
<1>t6. RevisionsInOrder(how)'
  BY <1>a, <1>b, <1>c, BuildIdle, <1>1, <1>2, <1>t1
     DEF Build!NoJob, BuildInv, RevisionsInOrder, RowKept
<1>t7. SecretsKept(how)'
  BY <1>a, <1>b, <1>c, BuildIdle, <1>1, <1>2, <1>t1, <1>t3
     DEF Build!NoJob, BuildInv, SecretsKept, SeenStands, BuildMarked, Build!SecretIsThere, JobWaits, RowKept
<1>t8. SuccessKnown(how)'
  BY <1>a, <1>b, <1>c, <1>d, BuildIdle, <1>1, <1>2, <1>t1, <1>t3
     DEF Build!NoJob, BuildInv, SuccessKnown, BuildMarked, RowKept
<1> QED
  BY <1>t1, <1>t2, <1>t3, <1>t4, <1>t5, <1>t6, <1>t7, <1>t8 DEF BuildInv

\* The CronJob is suspended.
LEMMA SuspendKeeps ==
  ASSUME NEW how, BuildSorts(how), BuildInv(how), Build(how)!Suspend
  PROVE  BuildInv(how)'
<1>a. /\ row \in BuildRow(how) \union {None} /\ made \in [Build(how)!Rev -> 0..how.drifts \union {None}]
      /\ secrets \subseteq Build(how)!Rev /\ overtaken \subseteq Build(how)!Rev
      /\ runs \in [how.slots -> Build(how)!Final \union {"none", "pending", "unknown"}]
      /\ cron \in CronJob(how) \union {None} /\ seen \in CronJob(how) \union {None}
      /\ job \in [how.slots -> BuildJob(how)] /\ pod \in [how.slots -> PodState(how)]
      /\ lease \in how.slots \union {None} /\ cred \in 0..how.drifts
      /\ op \in BuildOp(how) /\ InCourse(how, op)
      /\ row = None => op.kind \in {"idle", "save"} /\ op.pc \in {"idle", "write"}
  BY DEF BuildInv, BuildTyped
<1>b. None \notin BuildRow(how) /\ None \notin CronJob(how) /\ None \notin how.slots /\ None \notin Build(how)!Rev /\ Build(how)!Rev \subseteq Nat
  BY DEF BuildSorts, Build!Rev
<1>c. /\ cron # None => cron.rev \in Build(how)!Rev
      /\ seen # None => seen.rev \in Build(how)!Rev
      /\ row # None => /\ row.rev \in Build(how)!Rev \union {None} /\ row.enabled \in BOOLEAN
                       /\ row.deleting \in BOOLEAN /\ row.quiet \in BOOLEAN
      /\ op.rev \in Build(how)!Rev \union {None}
  BY <1>a DEF CronJob, BuildRow, BuildOp
<1>d. op.kind # "collect" => \A t \in how.slots : op.jobs[t] = Build(how)!NoJob
  BY DEF BuildInv, SuccessKnown
<1>1. /\ op.pc = "suspend" /\ row # None
      /\ cron' \in CronJob(how) \union {None} /\ (cron = None <=> cron' = None)
      /\ cron' # None => cron'.rev = cron.rev /\ cron'.suspend = TRUE
      /\ UNCHANGED <<made, overtaken, runs, seen, job, pod, lease, secrets, cred>>
  BY <1>a, <1>b DEF Build!Suspend, CronJob
<1>2. PICK pc \in BuildPc \ {"idle"} :
        /\ Build(how)!LeadsTo(pc)
        /\ op.kind = "save" => pc = "write"
        /\ op.kind = "apply" => pc = "revise"
        /\ op.kind = "pause" => pc = "pause"
        /\ op.kind = "delete" => pc = "uncron"
        /\ op.kind \notin {"save", "apply", "pause", "delete"} => pc = "invalid"
  BY DEF Build!Suspend, BuildPc
<1>3. RowKept(how) /\ Onward(how, {pc})
  BY <1>2, BuildLeadsTo DEF BuildInv
<1>t1. BuildTyped(how)'
  BY <1>a, <1>b, <1>c, BuildIdle, <1>1, <1>2, <1>3
     DEF BuildTyped, InCourse, RowKept, Onward
<1>t2. TakenDown(how)'
  BY <1>a, <1>b, <1>c, BuildIdle, <1>1, <1>2, <1>3, <1>t1
     DEF Build!NoJob, BuildInv, TakenDown, BuildGone, RowKept, Onward
<1>t3. BuildMarked(how)'
  BY <1>a, <1>b, <1>c, BuildIdle, <1>1, <1>2, <1>3, <1>t1
     DEF Build!NoJob, BuildInv, BuildMarked, RowKept, Onward
<1>t4. LeaseHeld(how)'
  BY <1>a, <1>b, <1>c, BuildIdle, <1>1, <1>2, <1>3, <1>t1
     DEF Build!NoJob, BuildInv, LeaseHeld, Build!Final, RowKept, Onward
<1>t5. StaysPaused(how)'
  BY <1>a, <1>b, <1>c, BuildIdle, <1>1, <1>2, <1>3, <1>t1
     DEF Build!NoJob, BuildInv, StaysPaused, Build!PausedStaysPaused, BuildSuspended, RowKept, Onward
<1>t6. RevisionsInOrder(how)'
  BY <1>a, <1>b, <1>c, BuildIdle, <1>1, <1>2, <1>3, <1>t1
     DEF Build!NoJob, BuildInv, RevisionsInOrder, RowKept, Onward
<1>t7. SecretsKept(how)'
  BY <1>a, <1>b, <1>c, BuildIdle, <1>1, <1>2, <1>3, <1>t1, <1>t3
     DEF Build!NoJob, BuildInv, SecretsKept, SeenStands, BuildMarked, Build!SecretIsThere, JobWaits, RowKept, Onward
<1>t8. SuccessKnown(how)'
  BY <1>a, <1>b, <1>c, <1>d, BuildIdle, <1>1, <1>2, <1>3, <1>t1, <1>t3
     DEF Build!NoJob, BuildInv, SuccessKnown, BuildMarked, RowKept, Onward
<1> QED
  BY <1>t1, <1>t2, <1>t3, <1>t4, <1>t5, <1>t6, <1>t7, <1>t8 DEF BuildInv

\* The row is written.
LEMMA WriteKeeps ==
  ASSUME NEW how, BuildSorts(how), BuildInv(how), Build(how)!Write
  PROVE  BuildInv(how)'
<1>a. /\ row \in BuildRow(how) \union {None} /\ made \in [Build(how)!Rev -> 0..how.drifts \union {None}]
      /\ secrets \subseteq Build(how)!Rev /\ overtaken \subseteq Build(how)!Rev
      /\ runs \in [how.slots -> Build(how)!Final \union {"none", "pending", "unknown"}]
      /\ cron \in CronJob(how) \union {None} /\ seen \in CronJob(how) \union {None}
      /\ job \in [how.slots -> BuildJob(how)] /\ pod \in [how.slots -> PodState(how)]
      /\ lease \in how.slots \union {None} /\ cred \in 0..how.drifts
      /\ op \in BuildOp(how) /\ InCourse(how, op)
      /\ row = None => op.kind \in {"idle", "save"} /\ op.pc \in {"idle", "write"}
  BY DEF BuildInv, BuildTyped
<1>b. None \notin BuildRow(how) /\ None \notin CronJob(how) /\ None \notin how.slots /\ None \notin Build(how)!Rev /\ Build(how)!Rev \subseteq Nat
  BY DEF BuildSorts, Build!Rev
<1>c. /\ cron # None => cron.rev \in Build(how)!Rev
      /\ seen # None => seen.rev \in Build(how)!Rev
      /\ row # None => /\ row.rev \in Build(how)!Rev \union {None} /\ row.enabled \in BOOLEAN
                       /\ row.deleting \in BOOLEAN /\ row.quiet \in BOOLEAN
      /\ op.rev \in Build(how)!Rev \union {None}
  BY <1>a DEF CronJob, BuildRow, BuildOp
<1>d. op.kind # "collect" => \A t \in how.slots : op.jobs[t] = Build(how)!NoJob
  BY DEF BuildInv, SuccessKnown
<1>1. /\ op.pc = "write" /\ op.kind = "save"
      /\ UNCHANGED <<made, overtaken, runs, cron, seen, job, pod, lease, secrets, cred>>
  BY BuildCourse DEF Build!Write, Build!cluster, BuildInv
<1>2. /\ row' \in BuildRow(how) /\ row' # None /\ ~row'.deleting /\ ~row'.applied
      /\ row'.quiet => row # None /\ row.quiet
      /\ row'.rev = IF row = None THEN None ELSE row.rev
  <2>1. op.on \in BOOLEAN /\ (row # None /\ row.quiet) \in BOOLEAN
    BY <1>a DEF BuildOp
  <2>2. PICK q \in BOOLEAN : q = (row # None /\ row.quiet)
    BY <2>1
  <2>3. PICK v : v = IF row = None THEN None ELSE row.rev
    OBVIOUS
  <2>4. v \in Build(how)!Rev \union {None}
    BY <2>3, <1>c
  <2>5. row' = [deleting |-> FALSE, enabled |-> op.on, applied |-> FALSE, quiet |-> q, rev |-> v]
    BY <2>2, <2>3 DEF Build!Write
  <2>6. /\ row' \in BuildRow(how) /\ ~row'.deleting /\ ~row'.applied /\ row'.quiet = q /\ row'.rev = v
    BY <2>1, <2>2, <2>4, <2>5 DEF BuildRow
  <2> QED
    BY <2>2, <2>3, <2>6, <1>b
<1>3. /\ op' \in BuildOp(how) /\ op'.pc = "suspend" /\ op'.kind = "apply" /\ op'.rev = op.rev
      /\ op'.jobs = op.jobs
  BY <1>a DEF Build!Write, BuildOp, BuildPc
<1>t1. BuildTyped(how)'
  BY <1>a, <1>b, <1>c, BuildIdle, <1>1, <1>2, <1>3
     DEF BuildTyped, InCourse, RowKept, Onward
<1>t2. TakenDown(how)'
  BY <1>a, <1>b, <1>c, BuildIdle, <1>1, <1>2, <1>3, <1>t1
     DEF Build!NoJob, BuildInv, TakenDown, BuildGone, RowKept, Onward
<1>t3. BuildMarked(how)'
  BY <1>a, <1>b, <1>c, BuildIdle, <1>1, <1>2, <1>3, <1>t1
     DEF Build!NoJob, BuildInv, BuildMarked, RowKept, Onward
<1>t4. LeaseHeld(how)'
  BY <1>a, <1>b, <1>c, BuildIdle, <1>1, <1>2, <1>3, <1>t1
     DEF Build!NoJob, BuildInv, LeaseHeld, Build!Final, RowKept, Onward
<1>t5. StaysPaused(how)'
  BY <1>a, <1>b, <1>c, BuildIdle, <1>1, <1>2, <1>3, <1>t1
     DEF Build!NoJob, BuildInv, StaysPaused, Build!PausedStaysPaused, BuildSuspended, RowKept, Onward
<1>t6. RevisionsInOrder(how)'
  BY <1>a, <1>b, <1>c, BuildIdle, <1>1, <1>2, <1>3, <1>t1
     DEF Build!NoJob, BuildInv, RevisionsInOrder, RowKept, Onward
<1>t7. SecretsKept(how)'
  BY <1>a, <1>b, <1>c, BuildIdle, <1>1, <1>2, <1>3, <1>t1, <1>t3
     DEF Build!NoJob, BuildInv, SecretsKept, SeenStands, BuildMarked, Build!SecretIsThere, JobWaits, RowKept, Onward
<1>t8. SuccessKnown(how)'
  BY <1>a, <1>b, <1>c, <1>d, BuildIdle, <1>1, <1>2, <1>3, <1>t1, <1>t3
     DEF Build!NoJob, BuildInv, SuccessKnown, BuildMarked, RowKept, Onward
<1> QED
  BY <1>t1, <1>t2, <1>t3, <1>t4, <1>t5, <1>t6, <1>t7, <1>t8 DEF BuildInv

\* A revision is made.
LEMMA ReviseKeeps ==
  ASSUME NEW how, BuildSorts(how), BuildInv(how), Build(how)!Revise
  PROVE  BuildInv(how)'
<1>a. /\ row \in BuildRow(how) \union {None} /\ made \in [Build(how)!Rev -> 0..how.drifts \union {None}]
      /\ secrets \subseteq Build(how)!Rev /\ overtaken \subseteq Build(how)!Rev
      /\ runs \in [how.slots -> Build(how)!Final \union {"none", "pending", "unknown"}]
      /\ cron \in CronJob(how) \union {None} /\ seen \in CronJob(how) \union {None}
      /\ job \in [how.slots -> BuildJob(how)] /\ pod \in [how.slots -> PodState(how)]
      /\ lease \in how.slots \union {None} /\ cred \in 0..how.drifts
      /\ op \in BuildOp(how) /\ InCourse(how, op)
      /\ row = None => op.kind \in {"idle", "save"} /\ op.pc \in {"idle", "write"}
  BY DEF BuildInv, BuildTyped
<1>b. None \notin BuildRow(how) /\ None \notin CronJob(how) /\ None \notin how.slots /\ None \notin Build(how)!Rev /\ Build(how)!Rev \subseteq Nat
  BY DEF BuildSorts, Build!Rev
<1>c. /\ cron # None => cron.rev \in Build(how)!Rev
      /\ seen # None => seen.rev \in Build(how)!Rev
      /\ row # None => /\ row.rev \in Build(how)!Rev \union {None} /\ row.enabled \in BOOLEAN
                       /\ row.deleting \in BOOLEAN /\ row.quiet \in BOOLEAN
      /\ op.rev \in Build(how)!Rev \union {None}
  BY <1>a DEF CronJob, BuildRow, BuildOp
<1>d. op.kind # "collect" => \A t \in how.slots : op.jobs[t] = Build(how)!NoJob
  BY DEF BuildInv, SuccessKnown
<1>1. PICK r \in Build(how)!Rev :
        /\ made[r] = None /\ \A q \in Build(how)!Rev : q < r => made[q] # None
        /\ made' = [made EXCEPT ![r] = cred]
        /\ op' = [op EXCEPT !.pc = "secret", !.rev = r]
  BY DEF Build!Revise
<1>2. /\ op.pc = "revise" /\ op.kind = "apply"
      /\ UNCHANGED <<row, overtaken, runs, cron, seen, job, pod, lease, secrets, cred>>
  BY BuildCourse DEF Build!Revise, Build!cluster, BuildInv
<1>3. op' \in BuildOp(how) /\ op'.pc = "secret" /\ op'.kind = "apply" /\ op'.rev = r
  BY <1>a, <1>1, <1>2 DEF BuildOp, BuildPc
<1>4. /\ made' \in [Build(how)!Rev -> 0..how.drifts \union {None}] /\ made'[r] # None
      /\ \A q \in Build(how)!Rev : q # r => made'[q] = made[q]
  BY <1>a, <1>1 DEF BuildSorts
<1>5. \A q \in Build(how)!Rev : made[q] # None => q < r
  BY <1>a, <1>b, <1>1 DEF BuildInv, RevisionsInOrder
<1>t1. BuildTyped(how)'
  BY <1>a, <1>b, <1>c, BuildIdle, <1>1, <1>2, <1>3, <1>4, <1>5
     DEF BuildTyped, InCourse, RowKept, Onward
<1>t2. TakenDown(how)'
  BY <1>a, <1>b, <1>c, BuildIdle, <1>1, <1>2, <1>3, <1>4, <1>5, <1>t1
     DEF Build!NoJob, BuildInv, TakenDown, BuildGone, RowKept, Onward
<1>t3. BuildMarked(how)'
  BY <1>a, <1>b, <1>c, BuildIdle, <1>1, <1>2, <1>3, <1>4, <1>5, <1>t1
     DEF Build!NoJob, BuildInv, BuildMarked, RowKept, Onward
<1>t4. LeaseHeld(how)'
  BY <1>a, <1>b, <1>c, BuildIdle, <1>1, <1>2, <1>3, <1>4, <1>5, <1>t1
     DEF Build!NoJob, BuildInv, LeaseHeld, Build!Final, RowKept, Onward
<1>t5. StaysPaused(how)'
  BY <1>a, <1>b, <1>c, BuildIdle, <1>1, <1>2, <1>3, <1>4, <1>5, <1>t1
     DEF Build!NoJob, BuildInv, StaysPaused, Build!PausedStaysPaused, BuildSuspended, RowKept, Onward
<1>t6. RevisionsInOrder(how)'
  BY <1>a, <1>b, <1>c, BuildIdle, <1>1, <1>2, <1>3, <1>4, <1>5, <1>t1
     DEF Build!NoJob, BuildInv, RevisionsInOrder, RowKept, Onward
<1>t7. SecretsKept(how)'
  BY <1>a, <1>b, <1>c, BuildIdle, <1>1, <1>2, <1>3, <1>4, <1>5, <1>t1, <1>t3
     DEF Build!NoJob, BuildInv, SecretsKept, SeenStands, BuildMarked, Build!SecretIsThere, JobWaits, RowKept, Onward
<1>t8. SuccessKnown(how)'
  BY <1>a, <1>b, <1>c, <1>d, BuildIdle, <1>1, <1>2, <1>3, <1>4, <1>5, <1>t1, <1>t3
     DEF Build!NoJob, BuildInv, SuccessKnown, BuildMarked, RowKept, Onward
<1> QED
  BY <1>t1, <1>t2, <1>t3, <1>t4, <1>t5, <1>t6, <1>t7, <1>t8 DEF BuildInv

\* The Secret of the revision is made.
LEMMA CreateSecretKeeps ==
  ASSUME NEW how, BuildSorts(how), BuildInv(how), Build(how)!CreateSecret
  PROVE  BuildInv(how)'
<1>a. /\ row \in BuildRow(how) \union {None} /\ made \in [Build(how)!Rev -> 0..how.drifts \union {None}]
      /\ secrets \subseteq Build(how)!Rev /\ overtaken \subseteq Build(how)!Rev
      /\ runs \in [how.slots -> Build(how)!Final \union {"none", "pending", "unknown"}]
      /\ cron \in CronJob(how) \union {None} /\ seen \in CronJob(how) \union {None}
      /\ job \in [how.slots -> BuildJob(how)] /\ pod \in [how.slots -> PodState(how)]
      /\ lease \in how.slots \union {None} /\ cred \in 0..how.drifts
      /\ op \in BuildOp(how) /\ InCourse(how, op)
      /\ row = None => op.kind \in {"idle", "save"} /\ op.pc \in {"idle", "write"}
  BY DEF BuildInv, BuildTyped
<1>b. None \notin BuildRow(how) /\ None \notin CronJob(how) /\ None \notin how.slots /\ None \notin Build(how)!Rev /\ Build(how)!Rev \subseteq Nat
  BY DEF BuildSorts, Build!Rev
<1>c. /\ cron # None => cron.rev \in Build(how)!Rev
      /\ seen # None => seen.rev \in Build(how)!Rev
      /\ row # None => /\ row.rev \in Build(how)!Rev \union {None} /\ row.enabled \in BOOLEAN
                       /\ row.deleting \in BOOLEAN /\ row.quiet \in BOOLEAN
      /\ op.rev \in Build(how)!Rev \union {None}
  BY <1>a DEF CronJob, BuildRow, BuildOp
<1>d. op.kind # "collect" => \A t \in how.slots : op.jobs[t] = Build(how)!NoJob
  BY DEF BuildInv, SuccessKnown
<1>1. op.pc = "secret" /\ op.kind = "apply" /\ op.rev \in Build(how)!Rev
  BY <1>a, BuildCourse DEF Build!CreateSecret, InCourse, BuildInv
<1>2. /\ secrets' = secrets \union {op.rev}
      /\ UNCHANGED <<made, overtaken, runs, cron, seen, job, pod, lease, cred>>
  BY DEF Build!CreateSecret
<1>3. RowKept(how) /\ Onward(how, {"install"})
  BY BuildLeadsTo DEF Build!CreateSecret, BuildInv, BuildPc
<1>t1. BuildTyped(how)'
  BY <1>a, <1>b, <1>c, BuildIdle, <1>1, <1>2, <1>3
     DEF BuildTyped, InCourse, RowKept, Onward
<1>t2. TakenDown(how)'
  BY <1>a, <1>b, <1>c, BuildIdle, <1>1, <1>2, <1>3, <1>t1
     DEF Build!NoJob, BuildInv, TakenDown, BuildGone, RowKept, Onward
<1>t3. BuildMarked(how)'
  BY <1>a, <1>b, <1>c, BuildIdle, <1>1, <1>2, <1>3, <1>t1
     DEF Build!NoJob, BuildInv, BuildMarked, RowKept, Onward
<1>t4. LeaseHeld(how)'
  BY <1>a, <1>b, <1>c, BuildIdle, <1>1, <1>2, <1>3, <1>t1
     DEF Build!NoJob, BuildInv, LeaseHeld, Build!Final, RowKept, Onward
<1>t5. StaysPaused(how)'
  BY <1>a, <1>b, <1>c, BuildIdle, <1>1, <1>2, <1>3, <1>t1
     DEF Build!NoJob, BuildInv, StaysPaused, Build!PausedStaysPaused, BuildSuspended, RowKept, Onward
<1>t6. RevisionsInOrder(how)'
  BY <1>a, <1>b, <1>c, BuildIdle, <1>1, <1>2, <1>3, <1>t1
     DEF Build!NoJob, BuildInv, RevisionsInOrder, RowKept, Onward
<1>t7. SecretsKept(how)'
  BY <1>a, <1>b, <1>c, BuildIdle, <1>1, <1>2, <1>3, <1>t1, <1>t3
     DEF Build!NoJob, BuildInv, SecretsKept, SeenStands, BuildMarked, Build!SecretIsThere, JobWaits, RowKept, Onward
<1>t8. SuccessKnown(how)'
  BY <1>a, <1>b, <1>c, <1>d, BuildIdle, <1>1, <1>2, <1>3, <1>t1, <1>t3
     DEF Build!NoJob, BuildInv, SuccessKnown, BuildMarked, RowKept, Onward
<1> QED
  BY <1>t1, <1>t2, <1>t3, <1>t4, <1>t5, <1>t6, <1>t7, <1>t8 DEF BuildInv

\* The CronJob is installed.
LEMMA InstallKeeps ==
  ASSUME NEW how, BuildSorts(how), BuildInv(how), Build(how)!Install
  PROVE  BuildInv(how)'
<1>a. /\ row \in BuildRow(how) \union {None} /\ made \in [Build(how)!Rev -> 0..how.drifts \union {None}]
      /\ secrets \subseteq Build(how)!Rev /\ overtaken \subseteq Build(how)!Rev
      /\ runs \in [how.slots -> Build(how)!Final \union {"none", "pending", "unknown"}]
      /\ cron \in CronJob(how) \union {None} /\ seen \in CronJob(how) \union {None}
      /\ job \in [how.slots -> BuildJob(how)] /\ pod \in [how.slots -> PodState(how)]
      /\ lease \in how.slots \union {None} /\ cred \in 0..how.drifts
      /\ op \in BuildOp(how) /\ InCourse(how, op)
      /\ row = None => op.kind \in {"idle", "save"} /\ op.pc \in {"idle", "write"}
  BY DEF BuildInv, BuildTyped
<1>b. None \notin BuildRow(how) /\ None \notin CronJob(how) /\ None \notin how.slots /\ None \notin Build(how)!Rev /\ Build(how)!Rev \subseteq Nat
  BY DEF BuildSorts, Build!Rev
<1>c. /\ cron # None => cron.rev \in Build(how)!Rev
      /\ seen # None => seen.rev \in Build(how)!Rev
      /\ row # None => /\ row.rev \in Build(how)!Rev \union {None} /\ row.enabled \in BOOLEAN
                       /\ row.deleting \in BOOLEAN /\ row.quiet \in BOOLEAN
      /\ op.rev \in Build(how)!Rev \union {None}
  BY <1>a DEF CronJob, BuildRow, BuildOp
<1>d. op.kind # "collect" => \A t \in how.slots : op.jobs[t] = Build(how)!NoJob
  BY DEF BuildInv, SuccessKnown
<1>1. op.pc = "install" /\ op.kind = "apply" /\ op.rev \in Build(how)!Rev /\ row # None
  BY <1>a, BuildCourse DEF Build!Install, InCourse, BuildInv
<1>2. /\ cron' \in CronJob(how) /\ cron'.rev = op.rev /\ (~row.enabled => cron'.suspend) /\ cron' # None
      /\ UNCHANGED <<made, runs, seen, job, pod, lease, secrets, cred>>
      /\ overtaken \subseteq overtaken' /\ overtaken' \subseteq Build(how)!Rev
      /\ cron # None /\ cron.rev # row.rev => cron.rev \in overtaken'
  <2>1. cron' = [rev |-> op.rev, suspend |-> ~row.enabled]
    BY DEF Build!Install
  <2>2. cron' \in CronJob(how) /\ cron'.rev = op.rev /\ cron'.suspend = ~row.enabled
    BY <1>1, <1>c, <2>1 DEF CronJob
  <2>3. overtaken' = overtaken \union
                      (IF cron = None \/ cron.rev = row.rev THEN {} ELSE {cron.rev})
    BY DEF Build!Install
  <2>4. /\ overtaken \subseteq overtaken' /\ overtaken' \subseteq Build(how)!Rev
        /\ cron # None /\ cron.rev # row.rev => cron.rev \in overtaken'
    BY <1>a, <1>c, <2>3
  <2> QED
    BY <2>2, <2>4, <1>b DEF Build!Install
<1>3. RowKept(how) /\ Onward(how, {"applied"})
  BY BuildLeadsTo DEF Build!Install, BuildInv, BuildPc
<1>4. cron # None => cron.rev < op.rev
  BY <1>1 DEF BuildInv, RevisionsInOrder
<1>5. row.rev # None => row.rev < op.rev
  BY <1>1 DEF BuildInv, RevisionsInOrder
<1>6. /\ row' # None /\ row'.rev = row.rev /\ row'.quiet = row.quiet
      /\ op'.pc # "idle" => op'.pc = "applied" /\ op'.rev = op.rev
  BY <1>1, <1>3 DEF RowKept, Onward
<1>7. seen # None => cron # None /\ seen.rev <= cron.rev
  BY DEF BuildInv, RevisionsInOrder, TakenDown
<1>8. made[op.rev] # None
  BY <1>1 DEF BuildInv, RevisionsInOrder
<1>9. op.rev \in Nat /\ (cron # None => cron.rev \in Nat) /\ (seen # None => seen.rev \in Nat)
      /\ (row.rev # None => row.rev \in Nat)
  BY <1>1, <1>b, <1>c
<1>10. row'.rev # None => row'.rev <= cron'.rev
  BY <1>2, <1>5, <1>6, <1>9
<1>11. seen' # None => seen'.rev <= cron'.rev
  BY <1>2, <1>4, <1>7, <1>9
<1>t1. BuildTyped(how)'
  BY <1>a, <1>b, <1>c, BuildIdle, <1>1, <1>2, <1>3, <1>4, <1>5, <1>6, <1>7, <1>8
     DEF BuildTyped, InCourse, RowKept, Onward
<1>t2. TakenDown(how)'
  BY <1>a, <1>b, <1>c, BuildIdle, <1>1, <1>2, <1>3, <1>4, <1>5, <1>6, <1>7, <1>8, <1>t1
     DEF Build!NoJob, BuildInv, TakenDown, BuildGone, RowKept, Onward
<1>t3. BuildMarked(how)'
  BY <1>a, <1>b, <1>c, BuildIdle, <1>1, <1>2, <1>3, <1>4, <1>5, <1>6, <1>7, <1>8, <1>t1
     DEF Build!NoJob, BuildInv, BuildMarked, RowKept, Onward
<1>t4. LeaseHeld(how)'
  BY <1>a, <1>b, <1>c, BuildIdle, <1>1, <1>2, <1>3, <1>4, <1>5, <1>6, <1>7, <1>8, <1>t1
     DEF Build!NoJob, BuildInv, LeaseHeld, Build!Final, RowKept, Onward
<1>t5. StaysPaused(how)'
  BY <1>a, <1>b, <1>c, BuildIdle, <1>1, <1>2, <1>3, <1>4, <1>5, <1>6, <1>7, <1>8, <1>t1
     DEF Build!NoJob, BuildInv, StaysPaused, Build!PausedStaysPaused, BuildSuspended, RowKept, Onward
<1>t6. RevisionsInOrder(how)'
  <2>1. \A q, r \in Build(how)!Rev : q < r /\ made'[r] # None => made'[q] # None
    BY <1>a, <1>b, <1>c, BuildIdle, <1>1, <1>2, <1>3, <1>4, <1>5, <1>6, <1>7, <1>8, <1>t1
       DEF BuildInv, RevisionsInOrder, RowKept, Onward
  <2>2. cron' # None => made'[cron'.rev] # None
    BY <1>a, <1>b, <1>c, BuildIdle, <1>1, <1>2, <1>3, <1>4, <1>5, <1>6, <1>7, <1>8, <1>t1
       DEF BuildInv, RevisionsInOrder, RowKept, Onward
  <2>3. row' # None /\ row'.rev # None => made'[row'.rev] # None
    BY <1>a, <1>b, <1>c, BuildIdle, <1>1, <1>2, <1>3, <1>4, <1>5, <1>6, <1>7, <1>8, <1>t1
       DEF BuildInv, RevisionsInOrder, RowKept, Onward
  <2>4. op'.pc \in {"secret", "install", "applied"} => made'[op'.rev] # None
    BY <1>a, <1>b, <1>c, BuildIdle, <1>1, <1>2, <1>3, <1>4, <1>5, <1>6, <1>7, <1>8, <1>t1
       DEF BuildInv, RevisionsInOrder, RowKept, Onward
  <2>5. cron' # None /\ op'.pc \in {"secret", "install"} => cron'.rev < op'.rev
    BY <1>a, <1>b, <1>c, BuildIdle, <1>1, <1>2, <1>3, <1>4, <1>5, <1>6, <1>7, <1>8, <1>t1
       DEF BuildInv, RevisionsInOrder, RowKept, Onward
  <2>6. row' # None /\ row'.rev # None /\ op'.pc \in {"secret", "install", "applied"} => row'.rev < op'.rev
    BY <1>a, <1>b, <1>c, BuildIdle, <1>1, <1>2, <1>3, <1>4, <1>5, <1>6, <1>7, <1>8, <1>t1
       DEF BuildInv, RevisionsInOrder, RowKept, Onward
  <2>7. op'.pc = "applied" => cron' # None /\ cron'.rev = op'.rev
    BY <1>a, <1>b, <1>c, BuildIdle, <1>1, <1>2, <1>3, <1>4, <1>5, <1>6, <1>7, <1>8, <1>t1
       DEF BuildInv, RevisionsInOrder, RowKept, Onward
  <2>8. cron' # None /\ seen' # None => seen'.rev <= cron'.rev
    BY <1>a, <1>b, <1>c, BuildIdle, <1>11, <1>t1 DEF BuildInv, RevisionsInOrder, RowKept, Onward
  <2>9. cron' # None /\ row' # None /\ row'.rev # None => row'.rev <= cron'.rev
    BY <1>a, <1>b, <1>c, BuildIdle, <1>10, <1>t1 DEF BuildInv, RevisionsInOrder, RowKept, Onward
  <2>10. row' # None /\ row'.quiet => row'.rev # None /\ (seen' # None => row'.rev <= seen'.rev)
    BY <1>a, <1>b, <1>c, BuildIdle, <1>1, <1>2, <1>3, <1>4, <1>5, <1>6, <1>7, <1>8, <1>t1
       DEF BuildInv, RevisionsInOrder, RowKept, Onward
  <2> QED
    BY <2>1, <2>2, <2>3, <2>4, <2>5, <2>6, <2>7, <2>8, <2>9, <2>10 DEF RevisionsInOrder
<1>t7. SecretsKept(how)'
  BY <1>a, <1>b, <1>c, BuildIdle, <1>1, <1>2, <1>3, <1>4, <1>5, <1>6, <1>7, <1>8, <1>t1, <1>t3
     DEF Build!NoJob, BuildInv, SecretsKept, SeenStands, BuildMarked, Build!SecretIsThere, JobWaits, RowKept, Onward
<1>t8. SuccessKnown(how)'
  BY <1>a, <1>b, <1>c, <1>d, BuildIdle, <1>1, <1>2, <1>3, <1>4, <1>5, <1>6, <1>7, <1>8, <1>t1, <1>t3
     DEF Build!NoJob, BuildInv, SuccessKnown, BuildMarked, RowKept, Onward
<1> QED
  BY <1>t1, <1>t2, <1>t3, <1>t4, <1>t5, <1>t6, <1>t7, <1>t8 DEF BuildInv

\* The operation is recorded.
LEMMA FinishKeeps ==
  ASSUME NEW how, BuildSorts(how), BuildInv(how), Build(how)!Finish
  PROVE  BuildInv(how)'
<1>a. /\ row \in BuildRow(how) \union {None} /\ made \in [Build(how)!Rev -> 0..how.drifts \union {None}]
      /\ secrets \subseteq Build(how)!Rev /\ overtaken \subseteq Build(how)!Rev
      /\ runs \in [how.slots -> Build(how)!Final \union {"none", "pending", "unknown"}]
      /\ cron \in CronJob(how) \union {None} /\ seen \in CronJob(how) \union {None}
      /\ job \in [how.slots -> BuildJob(how)] /\ pod \in [how.slots -> PodState(how)]
      /\ lease \in how.slots \union {None} /\ cred \in 0..how.drifts
      /\ op \in BuildOp(how) /\ InCourse(how, op)
      /\ row = None => op.kind \in {"idle", "save"} /\ op.pc \in {"idle", "write"}
  BY DEF BuildInv, BuildTyped
<1>b. None \notin BuildRow(how) /\ None \notin CronJob(how) /\ None \notin how.slots /\ None \notin Build(how)!Rev /\ Build(how)!Rev \subseteq Nat
  BY DEF BuildSorts, Build!Rev
<1>c. /\ cron # None => cron.rev \in Build(how)!Rev
      /\ seen # None => seen.rev \in Build(how)!Rev
      /\ row # None => /\ row.rev \in Build(how)!Rev \union {None} /\ row.enabled \in BOOLEAN
                       /\ row.deleting \in BOOLEAN /\ row.quiet \in BOOLEAN
      /\ op.rev \in Build(how)!Rev \union {None}
  BY <1>a DEF CronJob, BuildRow, BuildOp
<1>d. op.kind # "collect" => \A t \in how.slots : op.jobs[t] = Build(how)!NoJob
  BY DEF BuildInv, SuccessKnown
<1>1. /\ op.pc \in {"applied", "pause", "invalid"} /\ row # None
      /\ UNCHANGED <<made, overtaken, runs, cron, seen, job, pod, lease, secrets, cred>>
  BY BuildCourse DEF Build!Finish, Build!cluster, BuildInv
<1>2. /\ row' \in BuildRow(how) /\ row' # None /\ row'.deleting = row.deleting
      /\ op.pc = "applied" => row'.rev = op.rev /\ ~row'.quiet /\ row'.enabled = row.enabled
      /\ op.pc = "pause" => row'.rev = row.rev /\ row'.quiet = row.quiet /\ row'.applied = row.applied
      /\ op.pc = "invalid" => row'.rev = row.rev /\ row'.quiet = row.quiet /\ ~row'.applied
                              /\ row'.enabled = row.enabled
  <2>1. CASE op.pc = "applied"
    <3>1. row' = [row EXCEPT !.applied = TRUE, !.rev = op.rev, !.quiet = FALSE]
      BY <2>1 DEF Build!Finish
    <3> QED
      BY <1>1, <1>a, <1>b, <1>c, <2>1, <3>1 DEF BuildRow
  <2>2. CASE op.pc = "pause"
    <3>1. row' = [row EXCEPT !.enabled = FALSE]
      BY <2>2 DEF Build!Finish
    <3> QED
      BY <1>1, <1>a, <1>b, <1>c, <2>2, <3>1 DEF BuildRow
  <2>3. CASE op.pc = "invalid"
    <3>1. row' = [row EXCEPT !.applied = FALSE]
      BY <2>3 DEF Build!Finish
    <3> QED
      BY <1>1, <1>a, <1>b, <1>c, <2>3, <3>1 DEF BuildRow
  <2> QED
    BY <1>1, <2>1, <2>2, <2>3
<1>3. \/ op' = Build(how)!Idle
      \/ /\ op.kind = "collect" /\ op' \in BuildOp(how) /\ op'.pc = "jobs" /\ op'.kind = "collect"
         /\ op'.jobs = op.jobs
  BY BuildLeads DEF Build!Finish, BuildInv, Led, BuildPc
<1>4. /\ op.pc = "applied" => op.kind = "apply" /\ op.rev \in Build(how)!Rev
      /\ op.pc = "pause" => op.kind = "pause"
  BY BuildCourse, <1>a DEF BuildInv, InCourse
<1>5. cron' # None /\ row'.rev # None => row'.rev <= cron'.rev
  <2>1. CASE op.pc = "applied"
    <3>1. cron.rev = op.rev /\ op.rev \in Nat
      BY <1>4, <1>b, <2>1 DEF BuildInv, RevisionsInOrder
    <3> QED
      BY <1>1, <1>2, <2>1, <3>1
  <2>2. CASE op.pc # "applied"
    BY <1>1, <1>2, <2>2 DEF BuildInv, RevisionsInOrder
  <2> QED
    BY <2>1, <2>2
<1>t1. BuildTyped(how)'
  BY <1>a, <1>b, <1>c, BuildIdle, <1>1, <1>2, <1>3, <1>4
     DEF BuildTyped, InCourse, RowKept, Onward
<1>t2. TakenDown(how)'
  BY <1>a, <1>b, <1>c, BuildIdle, <1>1, <1>2, <1>3, <1>4, <1>t1
     DEF Build!NoJob, BuildInv, TakenDown, BuildGone, RowKept, Onward
<1>t3. BuildMarked(how)'
  BY <1>a, <1>b, <1>c, BuildIdle, <1>1, <1>2, <1>3, <1>4, <1>t1
     DEF Build!NoJob, BuildInv, BuildMarked, RowKept, Onward
<1>t4. LeaseHeld(how)'
  BY <1>a, <1>b, <1>c, BuildIdle, <1>1, <1>2, <1>3, <1>4, <1>t1
     DEF Build!NoJob, BuildInv, LeaseHeld, Build!Final, RowKept, Onward
<1>t5. StaysPaused(how)'
  BY <1>a, <1>b, <1>c, BuildIdle, <1>1, <1>2, <1>3, <1>4, <1>t1
     DEF Build!NoJob, BuildInv, StaysPaused, Build!PausedStaysPaused, BuildSuspended, RowKept, Onward
<1>t6. RevisionsInOrder(how)'
  <2>1. \A q, r \in Build(how)!Rev : q < r /\ made'[r] # None => made'[q] # None
    BY <1>a, <1>b, <1>c, BuildIdle, <1>1, <1>2, <1>3, <1>4, <1>t1 DEF BuildInv, RevisionsInOrder
  <2>2. cron' # None => made'[cron'.rev] # None
    BY <1>a, <1>b, <1>c, BuildIdle, <1>1, <1>2, <1>3, <1>4, <1>t1 DEF BuildInv, RevisionsInOrder
  <2>3. row' # None /\ row'.rev # None => made'[row'.rev] # None
    BY <1>a, <1>b, <1>c, BuildIdle, <1>1, <1>2, <1>3, <1>4, <1>t1 DEF BuildInv, RevisionsInOrder
  <2>4. op'.pc \in {"secret", "install", "applied"} => made'[op'.rev] # None
    BY <1>a, <1>b, <1>c, BuildIdle, <1>1, <1>2, <1>3, <1>4, <1>t1 DEF BuildInv, RevisionsInOrder
  <2>5. cron' # None /\ op'.pc \in {"secret", "install"} => cron'.rev < op'.rev
    BY <1>a, <1>b, <1>c, BuildIdle, <1>1, <1>2, <1>3, <1>4, <1>t1 DEF BuildInv, RevisionsInOrder
  <2>6. row' # None /\ row'.rev # None /\ op'.pc \in {"secret", "install", "applied"} => row'.rev < op'.rev
    BY <1>a, <1>b, <1>c, BuildIdle, <1>1, <1>2, <1>3, <1>4, <1>t1 DEF BuildInv, RevisionsInOrder
  <2>7. op'.pc = "applied" => cron' # None /\ cron'.rev = op'.rev
    BY <1>a, <1>b, <1>c, BuildIdle, <1>1, <1>2, <1>3, <1>4, <1>t1 DEF BuildInv, RevisionsInOrder
  <2>8. cron' # None /\ seen' # None => seen'.rev <= cron'.rev
    BY <1>a, <1>b, <1>c, BuildIdle, <1>1, <1>2, <1>3, <1>4, <1>t1 DEF BuildInv, RevisionsInOrder
  <2>9. cron' # None /\ row' # None /\ row'.rev # None => row'.rev <= cron'.rev
    BY <1>a, <1>b, <1>c, BuildIdle, <1>5, <1>t1 DEF BuildInv, RevisionsInOrder
  <2>10. row' # None /\ row'.quiet => row'.rev # None /\ (seen' # None => row'.rev <= seen'.rev)
    BY <1>a, <1>b, <1>c, BuildIdle, <1>1, <1>2, <1>3, <1>4, <1>t1 DEF BuildInv, RevisionsInOrder
  <2> QED
    BY <2>1, <2>2, <2>3, <2>4, <2>5, <2>6, <2>7, <2>8, <2>9, <2>10 DEF RevisionsInOrder
<1>t7. SecretsKept(how)'
  BY <1>a, <1>b, <1>c, BuildIdle, <1>1, <1>2, <1>3, <1>4, <1>t1, <1>t3
     DEF Build!NoJob, BuildInv, SecretsKept, SeenStands, BuildMarked, Build!SecretIsThere, JobWaits, RowKept, Onward
<1>t8. SuccessKnown(how)'
  BY <1>a, <1>b, <1>c, <1>d, BuildIdle, <1>1, <1>2, <1>3, <1>4, <1>t1, <1>t3
     DEF Build!NoJob, BuildInv, SuccessKnown, BuildMarked, RowKept, Onward
<1> QED
  BY <1>t1, <1>t2, <1>t3, <1>t4, <1>t5, <1>t6, <1>t7, <1>t8 DEF BuildInv

\* A Job is posted.
LEMMA PostKeeps ==
  ASSUME NEW how, BuildSorts(how), BuildInv(how), Build(how)!Post
  PROVE  BuildInv(how)'
<1>a. /\ row \in BuildRow(how) \union {None} /\ made \in [Build(how)!Rev -> 0..how.drifts \union {None}]
      /\ secrets \subseteq Build(how)!Rev /\ overtaken \subseteq Build(how)!Rev
      /\ runs \in [how.slots -> Build(how)!Final \union {"none", "pending", "unknown"}]
      /\ cron \in CronJob(how) \union {None} /\ seen \in CronJob(how) \union {None}
      /\ job \in [how.slots -> BuildJob(how)] /\ pod \in [how.slots -> PodState(how)]
      /\ lease \in how.slots \union {None} /\ cred \in 0..how.drifts
      /\ op \in BuildOp(how) /\ InCourse(how, op)
      /\ row = None => op.kind \in {"idle", "save"} /\ op.pc \in {"idle", "write"}
  BY DEF BuildInv, BuildTyped
<1>b. None \notin BuildRow(how) /\ None \notin CronJob(how) /\ None \notin how.slots /\ None \notin Build(how)!Rev /\ Build(how)!Rev \subseteq Nat
  BY DEF BuildSorts, Build!Rev
<1>c. /\ cron # None => cron.rev \in Build(how)!Rev
      /\ seen # None => seen.rev \in Build(how)!Rev
      /\ row # None => /\ row.rev \in Build(how)!Rev \union {None} /\ row.enabled \in BOOLEAN
                       /\ row.deleting \in BOOLEAN /\ row.quiet \in BOOLEAN
      /\ op.rev \in Build(how)!Rev \union {None}
  BY <1>a DEF CronJob, BuildRow, BuildOp
<1>d. op.kind # "collect" => \A t \in how.slots : op.jobs[t] = Build(how)!NoJob
  BY DEF BuildInv, SuccessKnown
<1>1. /\ op.pc = "post" /\ op.kind = "run" /\ row # None
      /\ UNCHANGED <<row, made, overtaken, cron, seen, lease, secrets, cred>> /\ op' = Build(how)!Idle
  BY BuildCourse DEF Build!Post, BuildInv
<1>2. \/ UNCHANGED <<job, pod>>
      \/ \E s \in how.slots : /\ Build(how)!Free(s)
                        /\ job' = [job EXCEPT ![s] = [st |-> "active", rev |-> row.rev]]
                        /\ pod' = [pod EXCEPT ![s] = "pending"]
  BY DEF Build!Post
<1>3. \/ UNCHANGED <<job, pod>>
      \/ \E s \in how.slots :
           /\ Build(how)!Free(s) /\ job' \in [how.slots -> BuildJob(how)]
           /\ pod' \in [how.slots -> PodState(how)]
           /\ job'[s].rev = row.rev /\ job'[s].st = "active" /\ pod'[s] = "pending"
           /\ \A t \in how.slots \ {s} : job'[t] = job[t] /\ pod'[t] = pod[t]
  <2>1. CASE \E s \in how.slots : /\ Build(how)!Free(s)
                        /\ job' = [job EXCEPT ![s] = [st |-> "active", rev |-> row.rev]]
                        /\ pod' = [pod EXCEPT ![s] = "pending"]
    <3>1. PICK s \in how.slots : /\ Build(how)!Free(s)
                        /\ job' = [job EXCEPT ![s] = [st |-> "active", rev |-> row.rev]]
                        /\ pod' = [pod EXCEPT ![s] = "pending"]
      BY <2>1
    <3>2. PICK j : j = [st |-> "active", rev |-> row.rev]
      OBVIOUS
    <3>3. j \in BuildJob(how) /\ j.rev = row.rev /\ j.st = "active"
      BY <3>2, <1>1, <1>c DEF BuildJob
    <3>4. "pending" \in PodState(how)
      BY DEF PodState
    <3>5. job' = [job EXCEPT ![s] = j]
      BY <3>1, <3>2
    <3>6. /\ job' \in [how.slots -> BuildJob(how)] /\ pod' \in [how.slots -> PodState(how)]
          /\ job'[s].rev = row.rev /\ job'[s].st = "active" /\ pod'[s] = "pending"
          /\ \A t \in how.slots \ {s} : job'[t] = job[t] /\ pod'[t] = pod[t]
      BY <3>1, <3>3, <3>4, <3>5, <1>a
    <3> QED
      BY <3>1, <3>6
  <2> QED
    BY <1>2, <2>1
<1>4. runs' \in [how.slots -> Build(how)!Final \union {"none", "pending", "unknown"}]
  BY <1>a DEF Build!Post
<1>5. \A t \in how.slots : runs'[t] = "succeeded" => runs[t] = "succeeded" /\ job'[t] = job[t] /\ pod'[t] = pod[t]
  BY <1>a DEF Build!Post
<1>t1. BuildTyped(how)'
  BY <1>a, <1>b, <1>c, BuildIdle, <1>1, <1>3, <1>4, <1>5
     DEF BuildTyped, InCourse, RowKept, Onward
<1>t2. TakenDown(how)'
  BY <1>a, <1>b, <1>c, BuildIdle, <1>1, <1>3, <1>4, <1>5, <1>t1
     DEF Build!NoJob, BuildInv, TakenDown, BuildGone, RowKept, Onward
<1>t3. BuildMarked(how)'
  BY <1>a, <1>b, <1>c, BuildIdle, <1>1, <1>3, <1>4, <1>5, <1>t1
     DEF Build!NoJob, BuildInv, BuildMarked, RowKept, Onward
<1>t4. LeaseHeld(how)'
  BY <1>a, <1>b, <1>c, BuildIdle, <1>1, <1>3, <1>4, <1>5, <1>t1
     DEF Build!NoJob, BuildInv, LeaseHeld, Build!Final, RowKept, Onward
<1>t5. StaysPaused(how)'
  BY <1>a, <1>b, <1>c, BuildIdle, <1>1, <1>3, <1>4, <1>5, <1>t1
     DEF Build!NoJob, BuildInv, StaysPaused, Build!PausedStaysPaused, BuildSuspended, RowKept, Onward
<1>t6. RevisionsInOrder(how)'
  BY <1>a, <1>b, <1>c, BuildIdle, <1>1, <1>3, <1>4, <1>5, <1>t1
     DEF Build!NoJob, BuildInv, RevisionsInOrder, RowKept, Onward
<1>t7. SecretsKept(how)'
  BY <1>a, <1>b, <1>c, BuildIdle, <1>1, <1>3, <1>4, <1>5, <1>t1, <1>t3
     DEF Build!NoJob, BuildInv, SecretsKept, SeenStands, BuildMarked, Build!SecretIsThere, JobWaits, RowKept, Onward
<1>t8. SuccessKnown(how)'
  BY <1>a, <1>b, <1>c, <1>d, BuildIdle, <1>1, <1>3, <1>4, <1>5, <1>t1, <1>t3
     DEF Build!NoJob, BuildInv, SuccessKnown, BuildMarked, RowKept, Onward
<1> QED
  BY <1>t1, <1>t2, <1>t3, <1>t4, <1>t5, <1>t6, <1>t7, <1>t8 DEF BuildInv

\* The CronJob is removed.
LEMMA RemoveCronKeeps ==
  ASSUME NEW how, BuildSorts(how), BuildInv(how), Build(how)!RemoveCron
  PROVE  BuildInv(how)'
<1>a. /\ row \in BuildRow(how) \union {None} /\ made \in [Build(how)!Rev -> 0..how.drifts \union {None}]
      /\ secrets \subseteq Build(how)!Rev /\ overtaken \subseteq Build(how)!Rev
      /\ runs \in [how.slots -> Build(how)!Final \union {"none", "pending", "unknown"}]
      /\ cron \in CronJob(how) \union {None} /\ seen \in CronJob(how) \union {None}
      /\ job \in [how.slots -> BuildJob(how)] /\ pod \in [how.slots -> PodState(how)]
      /\ lease \in how.slots \union {None} /\ cred \in 0..how.drifts
      /\ op \in BuildOp(how) /\ InCourse(how, op)
      /\ row = None => op.kind \in {"idle", "save"} /\ op.pc \in {"idle", "write"}
  BY DEF BuildInv, BuildTyped
<1>b. None \notin BuildRow(how) /\ None \notin CronJob(how) /\ None \notin how.slots /\ None \notin Build(how)!Rev /\ Build(how)!Rev \subseteq Nat
  BY DEF BuildSorts, Build!Rev
<1>c. /\ cron # None => cron.rev \in Build(how)!Rev
      /\ seen # None => seen.rev \in Build(how)!Rev
      /\ row # None => /\ row.rev \in Build(how)!Rev \union {None} /\ row.enabled \in BOOLEAN
                       /\ row.deleting \in BOOLEAN /\ row.quiet \in BOOLEAN
      /\ op.rev \in Build(how)!Rev \union {None}
  BY <1>a DEF CronJob, BuildRow, BuildOp
<1>d. op.kind # "collect" => \A t \in how.slots : op.jobs[t] = Build(how)!NoJob
  BY DEF BuildInv, SuccessKnown
<1>1. op.pc = "uncron" /\ op.kind = "delete" /\ row # None
  BY BuildCourse DEF Build!RemoveCron, BuildInv
<1>2. /\ cron' = None /\ seen' = None
      /\ UNCHANGED <<made, overtaken, runs, job, pod, lease, secrets, cred>>
  BY DEF Build!RemoveCron
<1>3. RowKept(how) /\ Onward(how, {"unjob"})
  BY BuildLeadsTo DEF Build!RemoveCron, BuildInv, BuildPc
<1>t1. BuildTyped(how)'
  BY <1>a, <1>b, <1>c, BuildIdle, <1>1, <1>2, <1>3
     DEF BuildTyped, InCourse, RowKept, Onward
<1>t2. TakenDown(how)'
  BY <1>a, <1>b, <1>c, BuildIdle, <1>1, <1>2, <1>3, <1>t1
     DEF Build!NoJob, BuildInv, TakenDown, BuildGone, RowKept, Onward
<1>t3. BuildMarked(how)'
  BY <1>a, <1>b, <1>c, BuildIdle, <1>1, <1>2, <1>3, <1>t1
     DEF Build!NoJob, BuildInv, BuildMarked, RowKept, Onward
<1>t4. LeaseHeld(how)'
  BY <1>a, <1>b, <1>c, BuildIdle, <1>1, <1>2, <1>3, <1>t1
     DEF Build!NoJob, BuildInv, LeaseHeld, Build!Final, RowKept, Onward
<1>t5. StaysPaused(how)'
  BY <1>a, <1>b, <1>c, BuildIdle, <1>1, <1>2, <1>3, <1>t1
     DEF Build!NoJob, BuildInv, StaysPaused, Build!PausedStaysPaused, BuildSuspended, RowKept, Onward
<1>t6. RevisionsInOrder(how)'
  BY <1>a, <1>b, <1>c, BuildIdle, <1>1, <1>2, <1>3, <1>t1
     DEF Build!NoJob, BuildInv, RevisionsInOrder, RowKept, Onward
<1>t7. SecretsKept(how)'
  BY <1>a, <1>b, <1>c, BuildIdle, <1>1, <1>2, <1>3, <1>t1, <1>t3
     DEF Build!NoJob, BuildInv, SecretsKept, SeenStands, BuildMarked, Build!SecretIsThere, JobWaits, RowKept, Onward
<1>t8. SuccessKnown(how)'
  BY <1>a, <1>b, <1>c, <1>d, BuildIdle, <1>1, <1>2, <1>3, <1>t1, <1>t3
     DEF Build!NoJob, BuildInv, SuccessKnown, BuildMarked, RowKept, Onward
<1> QED
  BY <1>t1, <1>t2, <1>t3, <1>t4, <1>t5, <1>t6, <1>t7, <1>t8 DEF BuildInv

\* The Jobs are told to go.
LEMMA RemoveJobsKeeps ==
  ASSUME NEW how, BuildSorts(how), BuildInv(how), Build(how)!RemoveJobs
  PROVE  BuildInv(how)'
<1>a. /\ row \in BuildRow(how) \union {None} /\ made \in [Build(how)!Rev -> 0..how.drifts \union {None}]
      /\ secrets \subseteq Build(how)!Rev /\ overtaken \subseteq Build(how)!Rev
      /\ runs \in [how.slots -> Build(how)!Final \union {"none", "pending", "unknown"}]
      /\ cron \in CronJob(how) \union {None} /\ seen \in CronJob(how) \union {None}
      /\ job \in [how.slots -> BuildJob(how)] /\ pod \in [how.slots -> PodState(how)]
      /\ lease \in how.slots \union {None} /\ cred \in 0..how.drifts
      /\ op \in BuildOp(how) /\ InCourse(how, op)
      /\ row = None => op.kind \in {"idle", "save"} /\ op.pc \in {"idle", "write"}
  BY DEF BuildInv, BuildTyped
<1>b. None \notin BuildRow(how) /\ None \notin CronJob(how) /\ None \notin how.slots /\ None \notin Build(how)!Rev /\ Build(how)!Rev \subseteq Nat
  BY DEF BuildSorts, Build!Rev
<1>c. /\ cron # None => cron.rev \in Build(how)!Rev
      /\ seen # None => seen.rev \in Build(how)!Rev
      /\ row # None => /\ row.rev \in Build(how)!Rev \union {None} /\ row.enabled \in BOOLEAN
                       /\ row.deleting \in BOOLEAN /\ row.quiet \in BOOLEAN
      /\ op.rev \in Build(how)!Rev \union {None}
  BY <1>a DEF CronJob, BuildRow, BuildOp
<1>d. op.kind # "collect" => \A t \in how.slots : op.jobs[t] = Build(how)!NoJob
  BY DEF BuildInv, SuccessKnown
<1>1. op.pc = "unjob" /\ op.kind = "delete" /\ row # None
  BY BuildCourse DEF Build!RemoveJobs, BuildInv
<1>2. /\ job' \in [how.slots -> BuildJob(how)] /\ \A s \in how.slots : job'[s].st # "active"
      /\ \A s \in how.slots : (job[s] = Build(how)!NoJob /\ job'[s] = Build(how)!NoJob) \/ (job[s] # Build(how)!NoJob /\ job'[s].st = "deleting")
      /\ UNCHANGED <<made, overtaken, runs, cron, seen, pod, lease, secrets, cred>>
  <2>1. \A s \in how.slots : [job[s] EXCEPT !.st = "deleting"] \in BuildJob(how)
                       /\ [job[s] EXCEPT !.st = "deleting"].st = "deleting"
    BY <1>a DEF BuildJob
  <2>2. job' = [s \in how.slots |-> IF job[s] = Build(how)!NoJob THEN Build(how)!NoJob ELSE [job[s] EXCEPT !.st = "deleting"]]
    BY DEF Build!RemoveJobs
  <2> QED
    BY <2>1, <2>2, BuildIdle DEF Build!RemoveJobs
<1>3. RowKept(how) /\ Onward(how, {"check"})
  BY BuildLeadsTo DEF Build!RemoveJobs, BuildInv, BuildPc
<1>t1. BuildTyped(how)'
  BY <1>a, <1>b, <1>c, BuildIdle, <1>1, <1>2, <1>3
     DEF BuildTyped, InCourse, RowKept, Onward
<1>t2. TakenDown(how)'
  BY <1>a, <1>b, <1>c, BuildIdle, <1>1, <1>2, <1>3, <1>t1
     DEF Build!NoJob, BuildInv, TakenDown, BuildGone, RowKept, Onward
<1>t3. BuildMarked(how)'
  BY <1>a, <1>b, <1>c, BuildIdle, <1>1, <1>2, <1>3, <1>t1
     DEF Build!NoJob, BuildInv, BuildMarked, RowKept, Onward
<1>t4. LeaseHeld(how)'
  BY <1>a, <1>b, <1>c, BuildIdle, <1>1, <1>2, <1>3, <1>t1
     DEF Build!NoJob, BuildInv, LeaseHeld, Build!Final, RowKept, Onward
<1>t5. StaysPaused(how)'
  BY <1>a, <1>b, <1>c, BuildIdle, <1>1, <1>2, <1>3, <1>t1
     DEF Build!NoJob, BuildInv, StaysPaused, Build!PausedStaysPaused, BuildSuspended, RowKept, Onward
<1>t6. RevisionsInOrder(how)'
  BY <1>a, <1>b, <1>c, BuildIdle, <1>1, <1>2, <1>3, <1>t1
     DEF Build!NoJob, BuildInv, RevisionsInOrder, RowKept, Onward
<1>t7. SecretsKept(how)'
  BY <1>a, <1>b, <1>c, BuildIdle, <1>1, <1>2, <1>3, <1>t1, <1>t3
     DEF Build!NoJob, BuildInv, SecretsKept, SeenStands, BuildMarked, Build!SecretIsThere, JobWaits, RowKept, Onward
<1>t8. SuccessKnown(how)'
  BY <1>a, <1>b, <1>c, <1>d, BuildIdle, <1>1, <1>2, <1>3, <1>t1, <1>t3
     DEF Build!NoJob, BuildInv, SuccessKnown, BuildMarked, RowKept, Onward
<1> QED
  BY <1>t1, <1>t2, <1>t3, <1>t4, <1>t5, <1>t6, <1>t7, <1>t8 DEF BuildInv

\* The deletion goes on once Jobs and pods are gone.
LEMMA CheckGoneKeeps ==
  ASSUME NEW how, BuildSorts(how), BuildInv(how), Build(how)!CheckGone
  PROVE  BuildInv(how)'
<1>a. /\ row \in BuildRow(how) \union {None} /\ made \in [Build(how)!Rev -> 0..how.drifts \union {None}]
      /\ secrets \subseteq Build(how)!Rev /\ overtaken \subseteq Build(how)!Rev
      /\ runs \in [how.slots -> Build(how)!Final \union {"none", "pending", "unknown"}]
      /\ cron \in CronJob(how) \union {None} /\ seen \in CronJob(how) \union {None}
      /\ job \in [how.slots -> BuildJob(how)] /\ pod \in [how.slots -> PodState(how)]
      /\ lease \in how.slots \union {None} /\ cred \in 0..how.drifts
      /\ op \in BuildOp(how) /\ InCourse(how, op)
      /\ row = None => op.kind \in {"idle", "save"} /\ op.pc \in {"idle", "write"}
  BY DEF BuildInv, BuildTyped
<1>b. None \notin BuildRow(how) /\ None \notin CronJob(how) /\ None \notin how.slots /\ None \notin Build(how)!Rev /\ Build(how)!Rev \subseteq Nat
  BY DEF BuildSorts, Build!Rev
<1>c. /\ cron # None => cron.rev \in Build(how)!Rev
      /\ seen # None => seen.rev \in Build(how)!Rev
      /\ row # None => /\ row.rev \in Build(how)!Rev \union {None} /\ row.enabled \in BOOLEAN
                       /\ row.deleting \in BOOLEAN /\ row.quiet \in BOOLEAN
      /\ op.rev \in Build(how)!Rev \union {None}
  BY <1>a DEF CronJob, BuildRow, BuildOp
<1>d. op.kind # "collect" => \A t \in how.slots : op.jobs[t] = Build(how)!NoJob
  BY DEF BuildInv, SuccessKnown
<1>1. /\ op.pc = "check" /\ op.kind = "delete" /\ row # None
      /\ UNCHANGED <<row, made, overtaken, runs, cron, seen, job, pod, lease, secrets, cred>>
  BY BuildCourse DEF Build!CheckGone, BuildInv, Build!cluster
<1>2. \/ op' = Build(how)!Idle
      \/ /\ op' \in BuildOp(how) /\ op'.pc = "unsecret" /\ op'.kind = "delete" /\ op'.jobs = op.jobs
         /\ \A s \in how.slots : job[s] = Build(how)!NoJob /\ pod[s] = "none"
  BY <1>1, BuildLeads DEF Build!CheckGone, BuildInv, Led, BuildPc
<1>t1. BuildTyped(how)'
  BY <1>a, <1>b, <1>c, BuildIdle, <1>1, <1>2
     DEF BuildTyped, InCourse, RowKept, Onward
<1>t2. TakenDown(how)'
  BY <1>a, <1>b, <1>c, BuildIdle, <1>1, <1>2, <1>t1
     DEF Build!NoJob, BuildInv, TakenDown, BuildGone, RowKept, Onward
<1>t3. BuildMarked(how)'
  BY <1>a, <1>b, <1>c, BuildIdle, <1>1, <1>2, <1>t1
     DEF Build!NoJob, BuildInv, BuildMarked, RowKept, Onward
<1>t4. LeaseHeld(how)'
  BY <1>a, <1>b, <1>c, BuildIdle, <1>1, <1>2, <1>t1
     DEF Build!NoJob, BuildInv, LeaseHeld, Build!Final, RowKept, Onward
<1>t5. StaysPaused(how)'
  BY <1>a, <1>b, <1>c, BuildIdle, <1>1, <1>2, <1>t1
     DEF Build!NoJob, BuildInv, StaysPaused, Build!PausedStaysPaused, BuildSuspended, RowKept, Onward
<1>t6. RevisionsInOrder(how)'
  BY <1>a, <1>b, <1>c, BuildIdle, <1>1, <1>2, <1>t1
     DEF Build!NoJob, BuildInv, RevisionsInOrder, RowKept, Onward
<1>t7. SecretsKept(how)'
  BY <1>a, <1>b, <1>c, BuildIdle, <1>1, <1>2, <1>t1, <1>t3
     DEF Build!NoJob, BuildInv, SecretsKept, SeenStands, BuildMarked, Build!SecretIsThere, JobWaits, RowKept, Onward
<1>t8. SuccessKnown(how)'
  BY <1>a, <1>b, <1>c, <1>d, BuildIdle, <1>1, <1>2, <1>t1, <1>t3
     DEF Build!NoJob, BuildInv, SuccessKnown, BuildMarked, RowKept, Onward
<1> QED
  BY <1>t1, <1>t2, <1>t3, <1>t4, <1>t5, <1>t6, <1>t7, <1>t8 DEF BuildInv

\* The Secrets are removed.
LEMMA RemoveSecretsKeeps ==
  ASSUME NEW how, BuildSorts(how), BuildInv(how), Build(how)!RemoveSecrets
  PROVE  BuildInv(how)'
<1>a. /\ row \in BuildRow(how) \union {None} /\ made \in [Build(how)!Rev -> 0..how.drifts \union {None}]
      /\ secrets \subseteq Build(how)!Rev /\ overtaken \subseteq Build(how)!Rev
      /\ runs \in [how.slots -> Build(how)!Final \union {"none", "pending", "unknown"}]
      /\ cron \in CronJob(how) \union {None} /\ seen \in CronJob(how) \union {None}
      /\ job \in [how.slots -> BuildJob(how)] /\ pod \in [how.slots -> PodState(how)]
      /\ lease \in how.slots \union {None} /\ cred \in 0..how.drifts
      /\ op \in BuildOp(how) /\ InCourse(how, op)
      /\ row = None => op.kind \in {"idle", "save"} /\ op.pc \in {"idle", "write"}
  BY DEF BuildInv, BuildTyped
<1>b. None \notin BuildRow(how) /\ None \notin CronJob(how) /\ None \notin how.slots /\ None \notin Build(how)!Rev /\ Build(how)!Rev \subseteq Nat
  BY DEF BuildSorts, Build!Rev
<1>c. /\ cron # None => cron.rev \in Build(how)!Rev
      /\ seen # None => seen.rev \in Build(how)!Rev
      /\ row # None => /\ row.rev \in Build(how)!Rev \union {None} /\ row.enabled \in BOOLEAN
                       /\ row.deleting \in BOOLEAN /\ row.quiet \in BOOLEAN
      /\ op.rev \in Build(how)!Rev \union {None}
  BY <1>a DEF CronJob, BuildRow, BuildOp
<1>d. op.kind # "collect" => \A t \in how.slots : op.jobs[t] = Build(how)!NoJob
  BY DEF BuildInv, SuccessKnown
<1>1. op.pc = "unsecret" /\ op.kind = "delete" /\ row # None
  BY BuildCourse DEF Build!RemoveSecrets, BuildInv
<1>2. /\ secrets' = {}
      /\ UNCHANGED <<made, overtaken, runs, cron, seen, job, pod, lease, cred>>
  BY <1>a DEF Build!RemoveSecrets, BuildInv, TakenDown
<1>3. RowKept(how) /\ Onward(how, {"unlease"})
  BY BuildLeadsTo DEF Build!RemoveSecrets, BuildInv, BuildPc
<1>4. cron = None /\ seen = None /\ \A s \in how.slots : job[s] = Build(how)!NoJob /\ pod[s] = "none"
  BY <1>1 DEF BuildInv, TakenDown
<1>5. row' # None /\ row'.deleting
  BY <1>1, <1>3 DEF RowKept, BuildInv, BuildMarked
<1>t1. BuildTyped(how)'
  BY <1>a, <1>b, <1>c, BuildIdle, <1>1, <1>2, <1>3, <1>4, <1>5
     DEF BuildTyped, InCourse, RowKept, Onward
<1>t2. TakenDown(how)'
  BY <1>a, <1>b, <1>c, BuildIdle, <1>1, <1>2, <1>3, <1>4, <1>5, <1>t1
     DEF Build!NoJob, BuildInv, TakenDown, BuildGone, RowKept, Onward
<1>t3. BuildMarked(how)'
  BY <1>a, <1>b, <1>c, BuildIdle, <1>1, <1>2, <1>3, <1>4, <1>5, <1>t1
     DEF Build!NoJob, BuildInv, BuildMarked, RowKept, Onward
<1>t4. LeaseHeld(how)'
  BY <1>a, <1>b, <1>c, BuildIdle, <1>1, <1>2, <1>3, <1>4, <1>5, <1>t1
     DEF Build!NoJob, BuildInv, LeaseHeld, Build!Final, RowKept, Onward
<1>t5. StaysPaused(how)'
  BY <1>a, <1>b, <1>c, BuildIdle, <1>1, <1>2, <1>3, <1>4, <1>5, <1>t1
     DEF Build!NoJob, BuildInv, StaysPaused, Build!PausedStaysPaused, BuildSuspended, RowKept, Onward
<1>t6. RevisionsInOrder(how)'
  BY <1>a, <1>b, <1>c, BuildIdle, <1>1, <1>2, <1>3, <1>4, <1>5, <1>t1
     DEF Build!NoJob, BuildInv, RevisionsInOrder, RowKept, Onward
<1>t7. SecretsKept(how)'
  BY <1>a, <1>b, <1>c, BuildIdle, <1>1, <1>2, <1>3, <1>4, <1>5, <1>t1, <1>t3
     DEF Build!NoJob, BuildInv, SecretsKept, SeenStands, BuildMarked, Build!SecretIsThere, JobWaits, RowKept, Onward
<1>t8. SuccessKnown(how)'
  BY <1>a, <1>b, <1>c, <1>d, BuildIdle, <1>1, <1>2, <1>3, <1>4, <1>5, <1>t1, <1>t3
     DEF Build!NoJob, BuildInv, SuccessKnown, BuildMarked, RowKept, Onward
<1> QED
  BY <1>t1, <1>t2, <1>t3, <1>t4, <1>t5, <1>t6, <1>t7, <1>t8 DEF BuildInv

\* The Lease is removed.
LEMMA RemoveLeaseKeeps ==
  ASSUME NEW how, BuildSorts(how), BuildInv(how), Build(how)!RemoveLease
  PROVE  BuildInv(how)'
<1>a. /\ row \in BuildRow(how) \union {None} /\ made \in [Build(how)!Rev -> 0..how.drifts \union {None}]
      /\ secrets \subseteq Build(how)!Rev /\ overtaken \subseteq Build(how)!Rev
      /\ runs \in [how.slots -> Build(how)!Final \union {"none", "pending", "unknown"}]
      /\ cron \in CronJob(how) \union {None} /\ seen \in CronJob(how) \union {None}
      /\ job \in [how.slots -> BuildJob(how)] /\ pod \in [how.slots -> PodState(how)]
      /\ lease \in how.slots \union {None} /\ cred \in 0..how.drifts
      /\ op \in BuildOp(how) /\ InCourse(how, op)
      /\ row = None => op.kind \in {"idle", "save"} /\ op.pc \in {"idle", "write"}
  BY DEF BuildInv, BuildTyped
<1>b. None \notin BuildRow(how) /\ None \notin CronJob(how) /\ None \notin how.slots /\ None \notin Build(how)!Rev /\ Build(how)!Rev \subseteq Nat
  BY DEF BuildSorts, Build!Rev
<1>c. /\ cron # None => cron.rev \in Build(how)!Rev
      /\ seen # None => seen.rev \in Build(how)!Rev
      /\ row # None => /\ row.rev \in Build(how)!Rev \union {None} /\ row.enabled \in BOOLEAN
                       /\ row.deleting \in BOOLEAN /\ row.quiet \in BOOLEAN
      /\ op.rev \in Build(how)!Rev \union {None}
  BY <1>a DEF CronJob, BuildRow, BuildOp
<1>d. op.kind # "collect" => \A t \in how.slots : op.jobs[t] = Build(how)!NoJob
  BY DEF BuildInv, SuccessKnown
<1>1. op.pc = "unlease" /\ op.kind = "delete" /\ row # None
  BY BuildCourse DEF Build!RemoveLease, BuildInv
<1>2. /\ lease' = None
      /\ UNCHANGED <<made, overtaken, runs, cron, seen, job, pod, secrets, cred>>
  BY DEF Build!RemoveLease
<1>3. RowKept(how) /\ Onward(how, {"forget"})
  BY BuildLeadsTo DEF Build!RemoveLease, BuildInv, BuildPc
<1>4. \A s \in how.slots : job[s] = Build(how)!NoJob /\ pod[s] = "none"
  BY <1>1 DEF BuildInv, TakenDown
<1>t1. BuildTyped(how)'
  BY <1>a, <1>b, <1>c, BuildIdle, <1>1, <1>2, <1>3, <1>4
     DEF BuildTyped, InCourse, RowKept, Onward
<1>t2. TakenDown(how)'
  BY <1>a, <1>b, <1>c, BuildIdle, <1>1, <1>2, <1>3, <1>4, <1>t1
     DEF Build!NoJob, BuildInv, TakenDown, BuildGone, RowKept, Onward
<1>t3. BuildMarked(how)'
  BY <1>a, <1>b, <1>c, BuildIdle, <1>1, <1>2, <1>3, <1>4, <1>t1
     DEF Build!NoJob, BuildInv, BuildMarked, RowKept, Onward
<1>t4. LeaseHeld(how)'
  BY <1>a, <1>b, <1>c, BuildIdle, <1>1, <1>2, <1>3, <1>4, <1>t1
     DEF Build!NoJob, BuildInv, LeaseHeld, Build!Final, RowKept, Onward
<1>t5. StaysPaused(how)'
  BY <1>a, <1>b, <1>c, BuildIdle, <1>1, <1>2, <1>3, <1>4, <1>t1
     DEF Build!NoJob, BuildInv, StaysPaused, Build!PausedStaysPaused, BuildSuspended, RowKept, Onward
<1>t6. RevisionsInOrder(how)'
  BY <1>a, <1>b, <1>c, BuildIdle, <1>1, <1>2, <1>3, <1>4, <1>t1
     DEF Build!NoJob, BuildInv, RevisionsInOrder, RowKept, Onward
<1>t7. SecretsKept(how)'
  BY <1>a, <1>b, <1>c, BuildIdle, <1>1, <1>2, <1>3, <1>4, <1>t1, <1>t3
     DEF Build!NoJob, BuildInv, SecretsKept, SeenStands, BuildMarked, Build!SecretIsThere, JobWaits, RowKept, Onward
<1>t8. SuccessKnown(how)'
  BY <1>a, <1>b, <1>c, <1>d, BuildIdle, <1>1, <1>2, <1>3, <1>4, <1>t1, <1>t3
     DEF Build!NoJob, BuildInv, SuccessKnown, BuildMarked, RowKept, Onward
<1> QED
  BY <1>t1, <1>t2, <1>t3, <1>t4, <1>t5, <1>t6, <1>t7, <1>t8 DEF BuildInv

\* The row goes.
LEMMA ForgetKeeps ==
  ASSUME NEW how, BuildSorts(how), BuildInv(how), Build(how)!Forget
  PROVE  BuildInv(how)'
<1>a. /\ row \in BuildRow(how) \union {None} /\ made \in [Build(how)!Rev -> 0..how.drifts \union {None}]
      /\ secrets \subseteq Build(how)!Rev /\ overtaken \subseteq Build(how)!Rev
      /\ runs \in [how.slots -> Build(how)!Final \union {"none", "pending", "unknown"}]
      /\ cron \in CronJob(how) \union {None} /\ seen \in CronJob(how) \union {None}
      /\ job \in [how.slots -> BuildJob(how)] /\ pod \in [how.slots -> PodState(how)]
      /\ lease \in how.slots \union {None} /\ cred \in 0..how.drifts
      /\ op \in BuildOp(how) /\ InCourse(how, op)
      /\ row = None => op.kind \in {"idle", "save"} /\ op.pc \in {"idle", "write"}
  BY DEF BuildInv, BuildTyped
<1>b. None \notin BuildRow(how) /\ None \notin CronJob(how) /\ None \notin how.slots /\ None \notin Build(how)!Rev /\ Build(how)!Rev \subseteq Nat
  BY DEF BuildSorts, Build!Rev
<1>c. /\ cron # None => cron.rev \in Build(how)!Rev
      /\ seen # None => seen.rev \in Build(how)!Rev
      /\ row # None => /\ row.rev \in Build(how)!Rev \union {None} /\ row.enabled \in BOOLEAN
                       /\ row.deleting \in BOOLEAN /\ row.quiet \in BOOLEAN
      /\ op.rev \in Build(how)!Rev \union {None}
  BY <1>a DEF CronJob, BuildRow, BuildOp
<1>d. op.kind # "collect" => \A t \in how.slots : op.jobs[t] = Build(how)!NoJob
  BY DEF BuildInv, SuccessKnown
<1>1. /\ op.pc = "forget" /\ op.kind = "delete" /\ row # None
      /\ row' = None /\ op' = Build(how)!Idle
      /\ UNCHANGED <<cron, seen, job, pod, lease, secrets, cred>> /\ overtaken' = {}
  BY BuildCourse DEF Build!Forget, BuildInv, Build!cluster
<1>2. /\ made' = [r \in Build(how)!Rev |-> None] /\ runs' = [s \in how.slots |-> "none"]
  BY DEF Build!Forget
<1>3. /\ cron = None /\ seen = None /\ secrets = {} /\ lease = None
      /\ \A s \in how.slots : job[s] = Build(how)!NoJob /\ pod[s] = "none"
  BY <1>1 DEF BuildInv, TakenDown
<1>t1. BuildTyped(how)'
  BY <1>a, <1>b, <1>c, BuildIdle, <1>1, <1>2, <1>3
     DEF BuildTyped, InCourse, RowKept, Onward
<1>t2. TakenDown(how)'
  BY <1>a, <1>b, <1>c, BuildIdle, <1>1, <1>2, <1>3, <1>t1
     DEF Build!NoJob, BuildInv, TakenDown, BuildGone, RowKept, Onward
<1>t3. BuildMarked(how)'
  BY <1>a, <1>b, <1>c, BuildIdle, <1>1, <1>2, <1>3, <1>t1
     DEF Build!NoJob, BuildInv, BuildMarked, RowKept, Onward
<1>t4. LeaseHeld(how)'
  BY <1>a, <1>b, <1>c, BuildIdle, <1>1, <1>2, <1>3, <1>t1
     DEF Build!NoJob, BuildInv, LeaseHeld, Build!Final, RowKept, Onward
<1>t5. StaysPaused(how)'
  BY <1>a, <1>b, <1>c, BuildIdle, <1>1, <1>2, <1>3, <1>t1
     DEF Build!NoJob, BuildInv, StaysPaused, Build!PausedStaysPaused, BuildSuspended, RowKept, Onward
<1>t6. RevisionsInOrder(how)'
  BY <1>a, <1>b, <1>c, BuildIdle, <1>1, <1>2, <1>3, <1>t1
     DEF Build!NoJob, BuildInv, RevisionsInOrder, RowKept, Onward
<1>t7. SecretsKept(how)'
  BY <1>a, <1>b, <1>c, BuildIdle, <1>1, <1>2, <1>3, <1>t1, <1>t3
     DEF Build!NoJob, BuildInv, SecretsKept, SeenStands, BuildMarked, Build!SecretIsThere, JobWaits, RowKept, Onward
<1>t8. SuccessKnown(how)'
  BY <1>a, <1>b, <1>c, <1>d, BuildIdle, <1>1, <1>2, <1>3, <1>t1, <1>t3
     DEF Build!NoJob, BuildInv, SuccessKnown, BuildMarked, RowKept, Onward
<1> QED
  BY <1>t1, <1>t2, <1>t3, <1>t4, <1>t5, <1>t6, <1>t7, <1>t8 DEF BuildInv

\* The Jobs, or the Lease, are read.
LEMMA LookKeeps ==
  ASSUME NEW how, BuildSorts(how), BuildInv(how), Build(how)!Look
  PROVE  BuildInv(how)'
<1>a. /\ row \in BuildRow(how) \union {None} /\ made \in [Build(how)!Rev -> 0..how.drifts \union {None}]
      /\ secrets \subseteq Build(how)!Rev /\ overtaken \subseteq Build(how)!Rev
      /\ runs \in [how.slots -> Build(how)!Final \union {"none", "pending", "unknown"}]
      /\ cron \in CronJob(how) \union {None} /\ seen \in CronJob(how) \union {None}
      /\ job \in [how.slots -> BuildJob(how)] /\ pod \in [how.slots -> PodState(how)]
      /\ lease \in how.slots \union {None} /\ cred \in 0..how.drifts
      /\ op \in BuildOp(how) /\ InCourse(how, op)
      /\ row = None => op.kind \in {"idle", "save"} /\ op.pc \in {"idle", "write"}
  BY DEF BuildInv, BuildTyped
<1>b. None \notin BuildRow(how) /\ None \notin CronJob(how) /\ None \notin how.slots /\ None \notin Build(how)!Rev /\ Build(how)!Rev \subseteq Nat
  BY DEF BuildSorts, Build!Rev
<1>c. /\ cron # None => cron.rev \in Build(how)!Rev
      /\ seen # None => seen.rev \in Build(how)!Rev
      /\ row # None => /\ row.rev \in Build(how)!Rev \union {None} /\ row.enabled \in BOOLEAN
                       /\ row.deleting \in BOOLEAN /\ row.quiet \in BOOLEAN
      /\ op.rev \in Build(how)!Rev \union {None}
  BY <1>a DEF CronJob, BuildRow, BuildOp
<1>d. op.kind # "collect" => \A t \in how.slots : op.jobs[t] = Build(how)!NoJob
  BY DEF BuildInv, SuccessKnown
<1>1. /\ op.pc \in {"jobs", "lease"} /\ op.kind = "collect" /\ row # None
      /\ UNCHANGED <<row, made, overtaken, runs, cron, seen, job, pod, lease, secrets, cred>>
  BY BuildCourse DEF Build!Look, BuildInv, Build!cluster
<1>2. /\ op' \in BuildOp(how) /\ op'.pc \in {"lease", "pods"} /\ op'.kind = "collect" /\ op'.rev = op.rev
      /\ op'.jobs \in {job, op.jobs}
  <2>1. CASE op.pc = "jobs" /\ op' = [op EXCEPT !.pc = "lease", !.jobs = job]
    BY <1>1, <1>a, <2>1 DEF BuildOp, BuildPc
  <2>2. CASE op.pc = "lease" /\ op' = [op EXCEPT !.pc = "pods", !.lease = lease]
    BY <1>1, <1>a, <2>2 DEF BuildOp, BuildPc
  <2> QED
    BY <2>1, <2>2 DEF Build!Look
<1>t1. BuildTyped(how)'
  BY <1>a, <1>b, <1>c, BuildIdle, <1>1, <1>2
     DEF BuildTyped, InCourse, RowKept, Onward
<1>t2. TakenDown(how)'
  BY <1>a, <1>b, <1>c, BuildIdle, <1>1, <1>2, <1>t1
     DEF Build!NoJob, BuildInv, TakenDown, BuildGone, RowKept, Onward
<1>t3. BuildMarked(how)'
  BY <1>a, <1>b, <1>c, BuildIdle, <1>1, <1>2, <1>t1
     DEF Build!NoJob, BuildInv, BuildMarked, RowKept, Onward
<1>t4. LeaseHeld(how)'
  BY <1>a, <1>b, <1>c, BuildIdle, <1>1, <1>2, <1>t1
     DEF Build!NoJob, BuildInv, LeaseHeld, Build!Final, RowKept, Onward
<1>t5. StaysPaused(how)'
  BY <1>a, <1>b, <1>c, BuildIdle, <1>1, <1>2, <1>t1
     DEF Build!NoJob, BuildInv, StaysPaused, Build!PausedStaysPaused, BuildSuspended, RowKept, Onward
<1>t6. RevisionsInOrder(how)'
  BY <1>a, <1>b, <1>c, BuildIdle, <1>1, <1>2, <1>t1
     DEF Build!NoJob, BuildInv, RevisionsInOrder, RowKept, Onward
<1>t7. SecretsKept(how)'
  BY <1>a, <1>b, <1>c, BuildIdle, <1>1, <1>2, <1>t1, <1>t3
     DEF Build!NoJob, BuildInv, SecretsKept, SeenStands, BuildMarked, Build!SecretIsThere, JobWaits, RowKept, Onward
<1>t8. SuccessKnown(how)'
  BY <1>a, <1>b, <1>c, <1>d, BuildIdle, <1>1, <1>2, <1>t1, <1>t3
     DEF Build!NoJob, BuildInv, SuccessKnown, BuildMarked, RowKept, Onward
<1> QED
  BY <1>t1, <1>t2, <1>t3, <1>t4, <1>t5, <1>t6, <1>t7, <1>t8 DEF BuildInv

\* The pods are read, and what is recorded of them.
LEMMA RecordKeeps ==
  ASSUME NEW how, BuildSorts(how), BuildInv(how), Build(how)!Record
  PROVE  BuildInv(how)'
<1>a. /\ row \in BuildRow(how) \union {None} /\ made \in [Build(how)!Rev -> 0..how.drifts \union {None}]
      /\ secrets \subseteq Build(how)!Rev /\ overtaken \subseteq Build(how)!Rev
      /\ runs \in [how.slots -> Build(how)!Final \union {"none", "pending", "unknown"}]
      /\ cron \in CronJob(how) \union {None} /\ seen \in CronJob(how) \union {None}
      /\ job \in [how.slots -> BuildJob(how)] /\ pod \in [how.slots -> PodState(how)]
      /\ lease \in how.slots \union {None} /\ cred \in 0..how.drifts
      /\ op \in BuildOp(how) /\ InCourse(how, op)
      /\ row = None => op.kind \in {"idle", "save"} /\ op.pc \in {"idle", "write"}
  BY DEF BuildInv, BuildTyped
<1>b. None \notin BuildRow(how) /\ None \notin CronJob(how) /\ None \notin how.slots /\ None \notin Build(how)!Rev /\ Build(how)!Rev \subseteq Nat
  BY DEF BuildSorts, Build!Rev
<1>c. /\ cron # None => cron.rev \in Build(how)!Rev
      /\ seen # None => seen.rev \in Build(how)!Rev
      /\ row # None => /\ row.rev \in Build(how)!Rev \union {None} /\ row.enabled \in BOOLEAN
                       /\ row.deleting \in BOOLEAN /\ row.quiet \in BOOLEAN
      /\ op.rev \in Build(how)!Rev \union {None}
  BY <1>a DEF CronJob, BuildRow, BuildOp
<1>d. op.kind # "collect" => \A t \in how.slots : op.jobs[t] = Build(how)!NoJob
  BY DEF BuildInv, SuccessKnown
<1>1. /\ op.pc = "pods" /\ op.kind = "collect" /\ row # None
      /\ UNCHANGED <<made, overtaken, cron, seen, job, pod, lease, secrets, cred>>
  BY BuildCourse DEF Build!Record, BuildInv, Build!cluster
<1>2. runs' \in [how.slots -> Build(how)!Final \union {"none", "pending", "unknown"}]
  <2>1. CASE runs' = [s \in how.slots |-> Build(how)!Recorded(s)]
    <3>1. \A s \in how.slots : Build(how)!Outcome(s) \in Build(how)!Final \union {"pending", "unknown"}
      BY DEF Build!Outcome, Build!Final
    <3>2. \A s \in how.slots : Build(how)!Recorded(s) \in Build(how)!Final \union {"none", "pending", "unknown"}
      BY <3>1, <1>a DEF Build!Recorded
    <3> QED
      BY <2>1, <3>2
  <2> QED
    BY <1>a, <2>1 DEF Build!Record
<1>3. \/ op' = Build(how)!Idle /\ RowKept(how)
      \/ /\ row' = row /\ op' \in BuildOp(how) /\ op'.kind = "collect" /\ op'.pc \in {"release", "cron"}
         /\ op'.pc = "release" => op'.lease \in how.slots /\ pod[op'.lease] \in Build(how)!Final \union {"none"}
         /\ op'.jobs = Build(how)!Idle.jobs
         /\ \A s \in how.slots : pod[s] # "none" /\ job[s].rev # None => job[s].rev \in op'.used
  <2>1. CASE Build(how)!Fails
    BY <2>1, BuildFails DEF BuildInv
  <2>2. CASE ~Build(how)!Fails
    <3> DEFINE used == ({op.jobs[s].rev : s \in how.slots} \union
                          {job[s].rev : s \in {t \in how.slots : pod[t] # "none"}}) \ {None}
               pc == IF Build(how)!Abandoned THEN "release" ELSE "cron"
               holder == IF Build(how)!Abandoned THEN op.lease ELSE None
    <3>1. row' = row /\ op' = [op EXCEPT !.pc = pc, !.jobs = Build(how)!Idle.jobs, !.lease = holder, !.used = used]
      BY <2>2 DEF Build!Record
    <3>2. \A s \in how.slots : job[s] \in BuildJob(how) /\ op.jobs[s] \in BuildJob(how)
      BY <1>a DEF BuildOp
    <3>3. used \in SUBSET Build(how)!Rev
      BY <3>2 DEF BuildJob
    <3>4. Build(how)!Idle.jobs \in [how.slots -> BuildJob(how)]
      BY BuildIdle DEF BuildOp
    <3>5. pc \in BuildPc /\ pc \in {"release", "cron"} /\ holder \in how.slots \union {None}
      BY <1>a DEF BuildPc, BuildOp
    <3>6. pc = "release" => holder \in how.slots /\ pod[holder] \in Build(how)!Final \union {"none"}
      BY <1>a DEF Build!Abandoned, BuildOp
    <3>7. \A s \in how.slots : pod[s] # "none" /\ job[s].rev # None => job[s].rev \in used
      OBVIOUS
    <3> HIDE DEF used, pc, holder
    <3>8. /\ op' \in BuildOp(how) /\ op'.kind = op.kind /\ op'.pc = pc /\ op'.lease = holder /\ op'.used = used
          /\ op'.jobs = Build(how)!Idle.jobs
      BY <1>a, <3>1, <3>3, <3>4, <3>5 DEF BuildOp
    <3> QED
      BY <1>1, <3>1, <3>5, <3>6, <3>7, <3>8
  <2> QED
    BY <2>1, <2>2
<1>4. ASSUME NEW s \in how.slots, runs'[s] = "succeeded", job[s] # Build(how)!NoJob
      PROVE  job[s].st \in {"succeeded", "deleting"} /\ pod[s] \in {"succeeded", "none"}
  <2>1. CASE runs[s] = "succeeded"
    BY <1>4, <2>1 DEF BuildInv, SuccessKnown
  <2>2. CASE runs[s] # "succeeded"
    <3>1. runs'[s] = Build(how)!Recorded(s) /\ op.jobs[s] # Build(how)!NoJob /\ Build(how)!Outcome(s) = "succeeded"
      BY <1>4, <2>2 DEF Build!Record, Build!Recorded
    <3>2. op.jobs[s].st = "succeeded" /\ pod[s] = "succeeded"
      BY <3>1 DEF Build!Outcome
    <3> QED
      BY <1>4, <3>1, <3>2 DEF BuildInv, SuccessKnown
  <2> QED
    BY <2>1, <2>2
<1>t1. BuildTyped(how)'
  BY <1>a, <1>b, <1>c, BuildIdle, <1>1, <1>2, <1>3, <1>4
     DEF Build!Idle, Build!NoJob, BuildTyped, InCourse, RowKept
<1>t2. TakenDown(how)'
  BY <1>a, <1>b, <1>c, BuildIdle, <1>1, <1>2, <1>3, <1>4, <1>t1
     DEF Build!NoJob, BuildInv, TakenDown, BuildGone, RowKept
<1>t3. BuildMarked(how)'
  BY <1>a, <1>b, <1>c, BuildIdle, <1>1, <1>2, <1>3, <1>4, <1>t1
     DEF Build!NoJob, BuildInv, BuildMarked, RowKept
<1>t4. LeaseHeld(how)'
  BY <1>a, <1>b, <1>c, BuildIdle, <1>1, <1>2, <1>3, <1>4, <1>t1
     DEF Build!NoJob, BuildInv, LeaseHeld, Build!Final, RowKept
<1>t5. StaysPaused(how)'
  BY <1>a, <1>b, <1>c, BuildIdle, <1>1, <1>2, <1>3, <1>4, <1>t1
     DEF Build!NoJob, BuildInv, StaysPaused, Build!PausedStaysPaused, BuildSuspended, RowKept
<1>t6. RevisionsInOrder(how)'
  BY <1>a, <1>b, <1>c, BuildIdle, <1>1, <1>2, <1>3, <1>4, <1>t1
     DEF Build!NoJob, BuildInv, RevisionsInOrder, RowKept
<1>t7. SecretsKept(how)'
  BY <1>a, <1>b, <1>c, BuildIdle, <1>1, <1>2, <1>3, <1>4, <1>t1, <1>t3
     DEF Build!Idle, Build!NoJob, BuildInv, SecretsKept, SeenStands, BuildMarked, Build!SecretIsThere, JobWaits, RowKept
<1>t8. SuccessKnown(how)'
  BY <1>a, <1>b, <1>c, <1>d, BuildIdle, <1>1, <1>2, <1>3, <1>4, <1>t1, <1>t3
     DEF Build!NoJob, BuildInv, SuccessKnown, BuildMarked, RowKept
<1> QED
  BY <1>t1, <1>t2, <1>t3, <1>t4, <1>t5, <1>t6, <1>t7, <1>t8 DEF BuildInv

\* The Lease of a pod that ended is released.
LEMMA ReleaseKeeps ==
  ASSUME NEW how, BuildSorts(how), BuildInv(how), Build(how)!Release
  PROVE  BuildInv(how)'
<1>a. /\ row \in BuildRow(how) \union {None} /\ made \in [Build(how)!Rev -> 0..how.drifts \union {None}]
      /\ secrets \subseteq Build(how)!Rev /\ overtaken \subseteq Build(how)!Rev
      /\ runs \in [how.slots -> Build(how)!Final \union {"none", "pending", "unknown"}]
      /\ cron \in CronJob(how) \union {None} /\ seen \in CronJob(how) \union {None}
      /\ job \in [how.slots -> BuildJob(how)] /\ pod \in [how.slots -> PodState(how)]
      /\ lease \in how.slots \union {None} /\ cred \in 0..how.drifts
      /\ op \in BuildOp(how) /\ InCourse(how, op)
      /\ row = None => op.kind \in {"idle", "save"} /\ op.pc \in {"idle", "write"}
  BY DEF BuildInv, BuildTyped
<1>b. None \notin BuildRow(how) /\ None \notin CronJob(how) /\ None \notin how.slots /\ None \notin Build(how)!Rev /\ Build(how)!Rev \subseteq Nat
  BY DEF BuildSorts, Build!Rev
<1>c. /\ cron # None => cron.rev \in Build(how)!Rev
      /\ seen # None => seen.rev \in Build(how)!Rev
      /\ row # None => /\ row.rev \in Build(how)!Rev \union {None} /\ row.enabled \in BOOLEAN
                       /\ row.deleting \in BOOLEAN /\ row.quiet \in BOOLEAN
      /\ op.rev \in Build(how)!Rev \union {None}
  BY <1>a DEF CronJob, BuildRow, BuildOp
<1>d. op.kind # "collect" => \A t \in how.slots : op.jobs[t] = Build(how)!NoJob
  BY DEF BuildInv, SuccessKnown
<1>1. /\ op.pc = "release" /\ op.kind = "collect" /\ row # None
      /\ UNCHANGED <<made, overtaken, runs, cron, seen, job, pod, secrets, cred>>
  BY BuildCourse DEF Build!Release, BuildInv
<1>2. lease' \in how.slots \union {None} /\ (lease = None => lease' = None)
  BY <1>a DEF Build!Release
<1>3. \/ op' = Build(how)!Idle /\ RowKept(how)
      \/ /\ row' = row /\ op' \in BuildOp(how) /\ op'.kind = "collect" /\ op'.pc = "cron"
         /\ op'.used = op.used /\ op'.jobs = op.jobs
  <2>1. CASE Build(how)!Fails
    BY <2>1, BuildFails DEF BuildInv
  <2>2. CASE op' = [op EXCEPT !.pc = "cron", !.lease = None] /\ row' = row
    BY <1>1, <1>a, <2>2 DEF BuildOp, BuildPc
  <2> QED
    BY <2>1, <2>2 DEF Build!Release
<1>4. \A s \in how.slots : pod[s] = "publishing" => lease' = s
  <2>1. op.lease \in how.slots /\ pod[op.lease] \in Build(how)!Final \union {"none"}
    BY <1>1 DEF BuildInv, LeaseHeld
  <2>2. \A s \in how.slots : pod[s] = "publishing" => lease = s /\ s # op.lease
    BY <2>1 DEF BuildInv, LeaseHeld, Build!Final
  <2> QED
    BY <2>2 DEF Build!Release
<1>t1. BuildTyped(how)'
  BY <1>a, <1>b, <1>c, BuildIdle, <1>1, <1>2, <1>3, <1>4
     DEF Build!Idle, Build!NoJob, BuildTyped, InCourse, RowKept
<1>t2. TakenDown(how)'
  BY <1>a, <1>b, <1>c, BuildIdle, <1>1, <1>2, <1>3, <1>4, <1>t1
     DEF Build!NoJob, BuildInv, TakenDown, BuildGone, RowKept
<1>t3. BuildMarked(how)'
  BY <1>a, <1>b, <1>c, BuildIdle, <1>1, <1>2, <1>3, <1>4, <1>t1
     DEF Build!NoJob, BuildInv, BuildMarked, RowKept
<1>t4. LeaseHeld(how)'
  BY <1>a, <1>b, <1>c, BuildIdle, <1>1, <1>2, <1>3, <1>4, <1>t1
     DEF Build!NoJob, BuildInv, LeaseHeld, Build!Final, RowKept
<1>t5. StaysPaused(how)'
  BY <1>a, <1>b, <1>c, BuildIdle, <1>1, <1>2, <1>3, <1>4, <1>t1
     DEF Build!NoJob, BuildInv, StaysPaused, Build!PausedStaysPaused, BuildSuspended, RowKept
<1>t6. RevisionsInOrder(how)'
  BY <1>a, <1>b, <1>c, BuildIdle, <1>1, <1>2, <1>3, <1>4, <1>t1
     DEF Build!NoJob, BuildInv, RevisionsInOrder, RowKept
<1>t7. SecretsKept(how)'
  BY <1>a, <1>b, <1>c, BuildIdle, <1>1, <1>2, <1>3, <1>4, <1>t1, <1>t3
     DEF Build!NoJob, BuildInv, SecretsKept, SeenStands, BuildMarked, Build!SecretIsThere, JobWaits, RowKept
<1>t8. SuccessKnown(how)'
  BY <1>a, <1>b, <1>c, <1>d, BuildIdle, <1>1, <1>2, <1>3, <1>4, <1>t1, <1>t3
     DEF Build!NoJob, BuildInv, SuccessKnown, BuildMarked, RowKept
<1> QED
  BY <1>t1, <1>t2, <1>t3, <1>t4, <1>t5, <1>t6, <1>t7, <1>t8 DEF BuildInv

\* The CronJob is read.
LEMMA ReadCronKeeps ==
  ASSUME NEW how, BuildSorts(how), BuildInv(how), Build(how)!ReadCron
  PROVE  BuildInv(how)'
<1>a. /\ row \in BuildRow(how) \union {None} /\ made \in [Build(how)!Rev -> 0..how.drifts \union {None}]
      /\ secrets \subseteq Build(how)!Rev /\ overtaken \subseteq Build(how)!Rev
      /\ runs \in [how.slots -> Build(how)!Final \union {"none", "pending", "unknown"}]
      /\ cron \in CronJob(how) \union {None} /\ seen \in CronJob(how) \union {None}
      /\ job \in [how.slots -> BuildJob(how)] /\ pod \in [how.slots -> PodState(how)]
      /\ lease \in how.slots \union {None} /\ cred \in 0..how.drifts
      /\ op \in BuildOp(how) /\ InCourse(how, op)
      /\ row = None => op.kind \in {"idle", "save"} /\ op.pc \in {"idle", "write"}
  BY DEF BuildInv, BuildTyped
<1>b. None \notin BuildRow(how) /\ None \notin CronJob(how) /\ None \notin how.slots /\ None \notin Build(how)!Rev /\ Build(how)!Rev \subseteq Nat
  BY DEF BuildSorts, Build!Rev
<1>c. /\ cron # None => cron.rev \in Build(how)!Rev
      /\ seen # None => seen.rev \in Build(how)!Rev
      /\ row # None => /\ row.rev \in Build(how)!Rev \union {None} /\ row.enabled \in BOOLEAN
                       /\ row.deleting \in BOOLEAN /\ row.quiet \in BOOLEAN
      /\ op.rev \in Build(how)!Rev \union {None}
  BY <1>a DEF CronJob, BuildRow, BuildOp
<1>d. op.kind # "collect" => \A t \in how.slots : op.jobs[t] = Build(how)!NoJob
  BY DEF BuildInv, SuccessKnown
<1>1. /\ op.pc = "cron" /\ op.kind = "collect" /\ row # None
      /\ UNCHANGED <<made, overtaken, runs, cron, seen, job, pod, lease, secrets, cred>>
  BY BuildCourse DEF Build!ReadCron, BuildInv, Build!cluster
<1>2. RowKept(how)
  <2>1. CASE cron = None
    <3>1. row \in BuildRow(how) /\ row' = [row EXCEPT !.applied = FALSE]
      BY <1>1, <1>a, <2>1 DEF Build!ReadCron
    <3>2. /\ row' \in BuildRow(how) /\ row'.deleting = row.deleting /\ row'.enabled = row.enabled
          /\ row'.quiet = row.quiet /\ row'.rev = row.rev /\ ~row'.applied
      BY <3>1 DEF BuildRow
    <3> QED
      BY <1>1, <1>b, <3>2 DEF RowKept
  <2>2. CASE cron # None
    BY <1>a, <2>2 DEF Build!ReadCron, RowKept
  <2> QED
    BY <2>1, <2>2
<1>3. /\ op' \in BuildOp(how) /\ op'.kind = "collect" /\ op'.pc = "sweep" /\ op'.used = op.used
      /\ op'.jobs = op.jobs
      /\ op'.live = IF cron = None THEN None ELSE cron.rev
  <2> DEFINE live == IF cron = None THEN None ELSE cron.rev
  <2>1. live \in Build(how)!Rev \union {None}
    BY <1>c
  <2>2. op' = [op EXCEPT !.pc = "sweep", !.live = live]
    BY DEF Build!ReadCron
  <2> HIDE DEF live
  <2>3. /\ op' \in BuildOp(how) /\ op'.kind = op.kind /\ op'.pc = "sweep" /\ op'.used = op.used
        /\ op'.live = live /\ op'.jobs = op.jobs
    BY <1>a, <2>1, <2>2 DEF BuildOp, BuildPc
  <2> QED
    BY <1>1, <2>3 DEF live
<1>t1. BuildTyped(how)'
  BY <1>a, <1>b, <1>c, BuildIdle, <1>1, <1>2, <1>3
     DEF BuildTyped, InCourse, RowKept
<1>t2. TakenDown(how)'
  BY <1>a, <1>b, <1>c, BuildIdle, <1>1, <1>2, <1>3, <1>t1
     DEF Build!NoJob, BuildInv, TakenDown, BuildGone, RowKept
<1>t3. BuildMarked(how)'
  BY <1>a, <1>b, <1>c, BuildIdle, <1>1, <1>2, <1>3, <1>t1
     DEF Build!NoJob, BuildInv, BuildMarked, RowKept
<1>t4. LeaseHeld(how)'
  BY <1>a, <1>b, <1>c, BuildIdle, <1>1, <1>2, <1>3, <1>t1
     DEF Build!NoJob, BuildInv, LeaseHeld, Build!Final, RowKept
<1>t5. StaysPaused(how)'
  BY <1>a, <1>b, <1>c, BuildIdle, <1>1, <1>2, <1>3, <1>t1
     DEF Build!NoJob, BuildInv, StaysPaused, Build!PausedStaysPaused, BuildSuspended, RowKept
<1>t6. RevisionsInOrder(how)'
  BY <1>a, <1>b, <1>c, BuildIdle, <1>1, <1>2, <1>3, <1>t1
     DEF Build!NoJob, BuildInv, RevisionsInOrder, RowKept
<1>t7. SecretsKept(how)'
  BY <1>a, <1>b, <1>c, BuildIdle, <1>1, <1>2, <1>3, <1>t1, <1>t3
     DEF Build!NoJob, BuildInv, SecretsKept, SeenStands, BuildMarked, Build!SecretIsThere, JobWaits, RowKept
<1>t8. SuccessKnown(how)'
  BY <1>a, <1>b, <1>c, <1>d, BuildIdle, <1>1, <1>2, <1>3, <1>t1, <1>t3
     DEF Build!NoJob, BuildInv, SuccessKnown, BuildMarked, RowKept
<1> QED
  BY <1>t1, <1>t2, <1>t3, <1>t4, <1>t5, <1>t6, <1>t7, <1>t8 DEF BuildInv

\* The Secrets nobody refers to are removed.
LEMMA SweepKeeps ==
  ASSUME NEW how, BuildSorts(how), BuildInv(how), Build(how)!Sweep
  PROVE  BuildInv(how)'
<1>a. /\ row \in BuildRow(how) \union {None} /\ made \in [Build(how)!Rev -> 0..how.drifts \union {None}]
      /\ secrets \subseteq Build(how)!Rev /\ overtaken \subseteq Build(how)!Rev
      /\ runs \in [how.slots -> Build(how)!Final \union {"none", "pending", "unknown"}]
      /\ cron \in CronJob(how) \union {None} /\ seen \in CronJob(how) \union {None}
      /\ job \in [how.slots -> BuildJob(how)] /\ pod \in [how.slots -> PodState(how)]
      /\ lease \in how.slots \union {None} /\ cred \in 0..how.drifts
      /\ op \in BuildOp(how) /\ InCourse(how, op)
      /\ row = None => op.kind \in {"idle", "save"} /\ op.pc \in {"idle", "write"}
  BY DEF BuildInv, BuildTyped
<1>b. None \notin BuildRow(how) /\ None \notin CronJob(how) /\ None \notin how.slots /\ None \notin Build(how)!Rev /\ Build(how)!Rev \subseteq Nat
  BY DEF BuildSorts, Build!Rev
<1>c. /\ cron # None => cron.rev \in Build(how)!Rev
      /\ seen # None => seen.rev \in Build(how)!Rev
      /\ row # None => /\ row.rev \in Build(how)!Rev \union {None} /\ row.enabled \in BOOLEAN
                       /\ row.deleting \in BOOLEAN /\ row.quiet \in BOOLEAN
      /\ op.rev \in Build(how)!Rev \union {None}
  BY <1>a DEF CronJob, BuildRow, BuildOp
<1>d. op.kind # "collect" => \A t \in how.slots : op.jobs[t] = Build(how)!NoJob
  BY DEF BuildInv, SuccessKnown
<1>1. /\ op.pc = "sweep" /\ op.kind = "collect" /\ row # None /\ op' = Build(how)!Idle
      /\ UNCHANGED <<row, made, overtaken, runs, cron, seen, job, pod, lease, cred>>
  BY BuildCourse DEF Build!Sweep, BuildInv
<1>2. /\ secrets' \subseteq secrets
      /\ ~row.quiet => secrets' = secrets
      /\ row.quiet => \A r \in secrets : Build(how)!InUse(r) => r \in secrets'
  BY DEF Build!Sweep
<1>t1. BuildTyped(how)'
  BY <1>a, <1>b, <1>c, BuildIdle, <1>1, <1>2
     DEF BuildTyped, InCourse, RowKept, Onward
<1>t2. TakenDown(how)'
  BY <1>a, <1>b, <1>c, BuildIdle, <1>1, <1>2, <1>t1
     DEF Build!NoJob, BuildInv, TakenDown, BuildGone, RowKept, Onward
<1>t3. BuildMarked(how)'
  BY <1>a, <1>b, <1>c, BuildIdle, <1>1, <1>2, <1>t1
     DEF Build!NoJob, BuildInv, BuildMarked, RowKept, Onward
<1>t4. LeaseHeld(how)'
  BY <1>a, <1>b, <1>c, BuildIdle, <1>1, <1>2, <1>t1
     DEF Build!NoJob, BuildInv, LeaseHeld, Build!Final, RowKept, Onward
<1>t5. StaysPaused(how)'
  BY <1>a, <1>b, <1>c, BuildIdle, <1>1, <1>2, <1>t1
     DEF Build!NoJob, BuildInv, StaysPaused, Build!PausedStaysPaused, BuildSuspended, RowKept, Onward
<1>t6. RevisionsInOrder(how)'
  BY <1>a, <1>b, <1>c, BuildIdle, <1>1, <1>2, <1>t1
     DEF Build!NoJob, BuildInv, RevisionsInOrder, RowKept, Onward
<1>t7. SecretsKept(how)'
  <2>1. op.live = IF cron = None THEN None ELSE cron.rev
    BY <1>1 DEF BuildInv, SecretsKept
  <2>2. /\ cron # None => cron.rev \in secrets'
        /\ ~row.deleting /\ row.rev # None => row.rev \in secrets'
    BY <1>1, <1>2, <2>1 DEF BuildInv, SecretsKept, Build!InUse
  <2>3. seen # None => seen.rev \in secrets' \union overtaken
    <3>1. CASE row.quiet /\ seen # None
      <4>1. cron # None /\ row.rev # None /\ ~row.deleting
        BY <1>1, <3>1 DEF BuildInv, RevisionsInOrder, TakenDown, BuildMarked
      <4>2. seen.rev = row.rev \/ seen.rev = cron.rev \/ seen.rev \in overtaken
        BY <1>1, <3>1 DEF BuildInv, SecretsKept, SeenStands
      <4> QED
        BY <2>2, <4>1, <4>2
    <3>2. CASE ~row.quiet
      BY <1>2, <3>2 DEF BuildInv, SecretsKept
    <3> QED
      BY <3>1, <3>2
  <2>4. Build(how)!SecretIsThere'
    <3> SUFFICES ASSUME NEW s \in how.slots, JobWaits(how, s)
                 PROVE  job[s].rev \in secrets' \union overtaken
      BY <1>1 DEF Build!SecretIsThere, JobWaits
    <3>1. job[s].rev \in secrets \union overtaken
      BY DEF BuildInv, SecretsKept, Build!SecretIsThere, JobWaits
    <3>2. CASE row.quiet
      BY <1>1, <1>2, <2>1, <3>1, <3>2 DEF BuildInv, SecretsKept, Build!InUse
    <3> QED
      BY <1>2, <3>1, <3>2
  <2>5. SeenStands(how)'
    BY <1>1 DEF BuildInv, SecretsKept, SeenStands
  <2> QED
    BY <1>1, <2>2, <2>3, <2>4, <2>5, BuildIdle DEF BuildInv, SecretsKept
<1>t8. SuccessKnown(how)'
  BY <1>a, <1>b, <1>c, <1>d, BuildIdle, <1>1, <1>2, <1>t1, <1>t3
     DEF Build!NoJob, BuildInv, SuccessKnown, BuildMarked, RowKept, Onward
<1> QED
  BY <1>t1, <1>t2, <1>t3, <1>t4, <1>t5, <1>t6, <1>t7, <1>t8 DEF BuildInv

\* The cache of the controller catches up.
LEMMA ControllerSeesKeeps ==
  ASSUME NEW how, BuildSorts(how), BuildInv(how), Build(how)!ControllerSees
  PROVE  BuildInv(how)'
<1>a. /\ row \in BuildRow(how) \union {None} /\ made \in [Build(how)!Rev -> 0..how.drifts \union {None}]
      /\ secrets \subseteq Build(how)!Rev /\ overtaken \subseteq Build(how)!Rev
      /\ runs \in [how.slots -> Build(how)!Final \union {"none", "pending", "unknown"}]
      /\ cron \in CronJob(how) \union {None} /\ seen \in CronJob(how) \union {None}
      /\ job \in [how.slots -> BuildJob(how)] /\ pod \in [how.slots -> PodState(how)]
      /\ lease \in how.slots \union {None} /\ cred \in 0..how.drifts
      /\ op \in BuildOp(how) /\ InCourse(how, op)
      /\ row = None => op.kind \in {"idle", "save"} /\ op.pc \in {"idle", "write"}
  BY DEF BuildInv, BuildTyped
<1>b. None \notin BuildRow(how) /\ None \notin CronJob(how) /\ None \notin how.slots /\ None \notin Build(how)!Rev /\ Build(how)!Rev \subseteq Nat
  BY DEF BuildSorts, Build!Rev
<1>c. /\ cron # None => cron.rev \in Build(how)!Rev
      /\ seen # None => seen.rev \in Build(how)!Rev
      /\ row # None => /\ row.rev \in Build(how)!Rev \union {None} /\ row.enabled \in BOOLEAN
                       /\ row.deleting \in BOOLEAN /\ row.quiet \in BOOLEAN
      /\ op.rev \in Build(how)!Rev \union {None}
  BY <1>a DEF CronJob, BuildRow, BuildOp
<1>d. op.kind # "collect" => \A t \in how.slots : op.jobs[t] = Build(how)!NoJob
  BY DEF BuildInv, SuccessKnown
<1>1. seen' = cron /\ UNCHANGED <<row, made, overtaken, runs, cron, job, pod, lease, secrets, cred, op>>
  BY DEF Build!ControllerSees, Build!Kube
<1>2. cron # None => cron.rev \in Nat
  BY <1>b, <1>c
<1>t1. BuildTyped(how)'
  BY <1>a, <1>b, <1>c, BuildIdle, <1>1, <1>2
     DEF BuildTyped, InCourse
<1>t2. TakenDown(how)'
  BY <1>a, <1>b, <1>c, BuildIdle, <1>1, <1>2, <1>t1
     DEF Build!NoJob, BuildInv, TakenDown, BuildGone
<1>t3. BuildMarked(how)'
  BY <1>a, <1>b, <1>c, BuildIdle, <1>1, <1>2, <1>t1
     DEF Build!NoJob, BuildInv, BuildMarked
<1>t4. LeaseHeld(how)'
  BY <1>a, <1>b, <1>c, BuildIdle, <1>1, <1>2, <1>t1
     DEF Build!NoJob, BuildInv, LeaseHeld, Build!Final
<1>t5. StaysPaused(how)'
  BY <1>a, <1>b, <1>c, BuildIdle, <1>1, <1>2, <1>t1
     DEF Build!NoJob, BuildInv, StaysPaused, Build!PausedStaysPaused, BuildSuspended
<1>t6. RevisionsInOrder(how)'
  BY <1>a, <1>b, <1>c, BuildIdle, <1>1, <1>2, <1>t1
     DEF Build!NoJob, BuildInv, RevisionsInOrder
<1>t7. SecretsKept(how)'
  BY <1>a, <1>b, <1>c, BuildIdle, <1>1, <1>2, <1>t1, <1>t3
     DEF Build!NoJob, BuildInv, SecretsKept, SeenStands, BuildMarked, Build!SecretIsThere, JobWaits
<1>t8. SuccessKnown(how)'
  BY <1>a, <1>b, <1>c, <1>d, BuildIdle, <1>1, <1>2, <1>t1, <1>t3
     DEF Build!NoJob, BuildInv, SuccessKnown, BuildMarked
<1> QED
  BY <1>t1, <1>t2, <1>t3, <1>t4, <1>t5, <1>t6, <1>t7, <1>t8 DEF BuildInv

\* The schedule comes round.
LEMMA CronFiresKeeps ==
  ASSUME NEW how, BuildSorts(how), BuildInv(how), NEW s \in how.slots, Build(how)!CronFires(s)
  PROVE  BuildInv(how)'
<1>a. /\ row \in BuildRow(how) \union {None} /\ made \in [Build(how)!Rev -> 0..how.drifts \union {None}]
      /\ secrets \subseteq Build(how)!Rev /\ overtaken \subseteq Build(how)!Rev
      /\ runs \in [how.slots -> Build(how)!Final \union {"none", "pending", "unknown"}]
      /\ cron \in CronJob(how) \union {None} /\ seen \in CronJob(how) \union {None}
      /\ job \in [how.slots -> BuildJob(how)] /\ pod \in [how.slots -> PodState(how)]
      /\ lease \in how.slots \union {None} /\ cred \in 0..how.drifts
      /\ op \in BuildOp(how) /\ InCourse(how, op)
      /\ row = None => op.kind \in {"idle", "save"} /\ op.pc \in {"idle", "write"}
  BY DEF BuildInv, BuildTyped
<1>b. None \notin BuildRow(how) /\ None \notin CronJob(how) /\ None \notin how.slots /\ None \notin Build(how)!Rev /\ Build(how)!Rev \subseteq Nat
  BY DEF BuildSorts, Build!Rev
<1>c. /\ cron # None => cron.rev \in Build(how)!Rev
      /\ seen # None => seen.rev \in Build(how)!Rev
      /\ row # None => /\ row.rev \in Build(how)!Rev \union {None} /\ row.enabled \in BOOLEAN
                       /\ row.deleting \in BOOLEAN /\ row.quiet \in BOOLEAN
      /\ op.rev \in Build(how)!Rev \union {None}
  BY <1>a DEF CronJob, BuildRow, BuildOp
<1>d. op.kind # "collect" => \A t \in how.slots : op.jobs[t] = Build(how)!NoJob
  BY DEF BuildInv, SuccessKnown
<1>1. /\ seen # None /\ Build(how)!Free(s) /\ UNCHANGED <<row, made, overtaken, cron, seen, lease, secrets, cred, op>>
  BY DEF Build!CronFires, Build!Kube
<1>2. /\ job' \in [how.slots -> BuildJob(how)] /\ pod' \in [how.slots -> PodState(how)]
      /\ job'[s].rev = seen.rev /\ job'[s].st = "active" /\ pod'[s] = "pending"
      /\ \A t \in how.slots \ {s} : job'[t] = job[t] /\ pod'[t] = pod[t]
  <2>1. PICK j : j = [st |-> "active", rev |-> seen.rev]
    OBVIOUS
  <2>2. j \in BuildJob(how) /\ j.rev = seen.rev /\ j.st = "active"
    BY <1>1, <1>c, <2>1 DEF BuildJob
  <2>3. "pending" \in PodState(how)
    BY DEF PodState
  <2>4. job' = [job EXCEPT ![s] = j] /\ pod' = [pod EXCEPT ![s] = "pending"]
    BY <2>1 DEF Build!CronFires
  <2> QED
    BY <1>a, <2>2, <2>3, <2>4
<1>3. /\ runs' \in [how.slots -> Build(how)!Final \union {"none", "pending", "unknown"}]
      /\ runs'[s] = "none" /\ \A t \in how.slots \ {s} : runs'[t] = runs[t]
  BY <1>a DEF Build!CronFires
<1>4. /\ row # None /\ cron # None
      /\ op.pc \notin {"unjob", "check", "unsecret", "unlease", "forget"}
  BY <1>1 DEF BuildInv, TakenDown, BuildGone
<1>5. s # op.lease /\ s # lease /\ op.jobs[s] = Build(how)!NoJob
  BY <1>1 DEF Build!Free
<1>6. row.quiet => seen.rev = row.rev \/ seen.rev \in overtaken \/ seen.rev = cron.rev
  BY <1>1, <1>4 DEF BuildInv, SecretsKept, SeenStands
<1>7. seen.rev \in secrets \union overtaken
  BY <1>1 DEF BuildInv, SecretsKept
<1>t1. BuildTyped(how)'
  BY <1>a, <1>b, <1>c, BuildIdle, <1>1, <1>2, <1>3, <1>4, <1>5, <1>6, <1>7
     DEF BuildTyped, InCourse
<1>t2. TakenDown(how)'
  BY <1>a, <1>b, <1>c, BuildIdle, <1>1, <1>2, <1>3, <1>4, <1>5, <1>6, <1>7, <1>t1
     DEF Build!NoJob, BuildInv, TakenDown, BuildGone
<1>t3. BuildMarked(how)'
  BY <1>a, <1>b, <1>c, BuildIdle, <1>1, <1>2, <1>3, <1>4, <1>5, <1>6, <1>7, <1>t1
     DEF Build!NoJob, BuildInv, BuildMarked
<1>t4. LeaseHeld(how)'
  BY <1>a, <1>b, <1>c, BuildIdle, <1>1, <1>2, <1>3, <1>4, <1>5, <1>6, <1>7, <1>t1
     DEF Build!NoJob, BuildInv, LeaseHeld, Build!Final
<1>t5. StaysPaused(how)'
  BY <1>a, <1>b, <1>c, BuildIdle, <1>1, <1>2, <1>3, <1>4, <1>5, <1>6, <1>7, <1>t1
     DEF Build!NoJob, BuildInv, StaysPaused, Build!PausedStaysPaused, BuildSuspended
<1>t6. RevisionsInOrder(how)'
  BY <1>a, <1>b, <1>c, BuildIdle, <1>1, <1>2, <1>3, <1>4, <1>5, <1>6, <1>7, <1>t1
     DEF Build!NoJob, BuildInv, RevisionsInOrder
<1>t7. SecretsKept(how)'
  BY <1>a, <1>b, <1>c, BuildIdle, <1>1, <1>2, <1>3, <1>4, <1>5, <1>6, <1>7, <1>t1, <1>t3
     DEF Build!Idle, Build!NoJob, BuildInv, SecretsKept, SeenStands, BuildMarked, Build!SecretIsThere, JobWaits
<1>t8. SuccessKnown(how)'
  BY <1>a, <1>b, <1>c, <1>d, BuildIdle, <1>1, <1>2, <1>3, <1>4, <1>5, <1>6, <1>7, <1>t1, <1>t3
     DEF Build!Idle, Build!NoJob, BuildInv, SuccessKnown, BuildMarked
<1> QED
  BY <1>t1, <1>t2, <1>t3, <1>t4, <1>t5, <1>t6, <1>t7, <1>t8 DEF BuildInv

\* A pod starts, and claims the Lease.
LEMMA ClaimKeeps ==
  ASSUME NEW how, BuildSorts(how), BuildInv(how), NEW s \in how.slots, Build(how)!Claim(s)
  PROVE  BuildInv(how)'
<1>a. /\ row \in BuildRow(how) \union {None} /\ made \in [Build(how)!Rev -> 0..how.drifts \union {None}]
      /\ secrets \subseteq Build(how)!Rev /\ overtaken \subseteq Build(how)!Rev
      /\ runs \in [how.slots -> Build(how)!Final \union {"none", "pending", "unknown"}]
      /\ cron \in CronJob(how) \union {None} /\ seen \in CronJob(how) \union {None}
      /\ job \in [how.slots -> BuildJob(how)] /\ pod \in [how.slots -> PodState(how)]
      /\ lease \in how.slots \union {None} /\ cred \in 0..how.drifts
      /\ op \in BuildOp(how) /\ InCourse(how, op)
      /\ row = None => op.kind \in {"idle", "save"} /\ op.pc \in {"idle", "write"}
  BY DEF BuildInv, BuildTyped
<1>b. None \notin BuildRow(how) /\ None \notin CronJob(how) /\ None \notin how.slots /\ None \notin Build(how)!Rev /\ Build(how)!Rev \subseteq Nat
  BY DEF BuildSorts, Build!Rev
<1>c. /\ cron # None => cron.rev \in Build(how)!Rev
      /\ seen # None => seen.rev \in Build(how)!Rev
      /\ row # None => /\ row.rev \in Build(how)!Rev \union {None} /\ row.enabled \in BOOLEAN
                       /\ row.deleting \in BOOLEAN /\ row.quiet \in BOOLEAN
      /\ op.rev \in Build(how)!Rev \union {None}
  BY <1>a DEF CronJob, BuildRow, BuildOp
<1>d. op.kind # "collect" => \A t \in how.slots : op.jobs[t] = Build(how)!NoJob
  BY DEF BuildInv, SuccessKnown
<1>1. /\ pod[s] = "pending" /\ job[s].rev \in secrets
      /\ UNCHANGED <<row, made, overtaken, runs, cron, seen, job, secrets, cred, op>>
  BY DEF Build!Claim, Build!Kube
<1>2. /\ pod' \in [how.slots -> PodState(how)] /\ \A t \in how.slots \ {s} : pod'[t] = pod[t]
      /\ \/ lease = None /\ pod'[s] = "publishing" /\ lease' = s
         \/ lease # None /\ pod'[s] = "skipped" /\ lease' = lease
  BY <1>a DEF Build!Claim, PodState, Build!Final
<1>3. /\ row # None /\ op.pc \notin {"unsecret", "unlease", "forget"}
      /\ op.pc = "release" => s # op.lease
  BY <1>1 DEF BuildInv, TakenDown, BuildGone, LeaseHeld, Build!Final
<1>t1. BuildTyped(how)'
  BY <1>a, <1>b, <1>c, BuildIdle, <1>1, <1>2, <1>3
     DEF BuildTyped, InCourse
<1>t2. TakenDown(how)'
  BY <1>a, <1>b, <1>c, BuildIdle, <1>1, <1>2, <1>3, <1>t1
     DEF Build!NoJob, BuildInv, TakenDown, BuildGone
<1>t3. BuildMarked(how)'
  BY <1>a, <1>b, <1>c, BuildIdle, <1>1, <1>2, <1>3, <1>t1
     DEF Build!NoJob, BuildInv, BuildMarked
<1>t4. LeaseHeld(how)'
  BY <1>a, <1>b, <1>c, BuildIdle, <1>1, <1>2, <1>3, <1>t1
     DEF Build!NoJob, BuildInv, LeaseHeld, Build!Final
<1>t5. StaysPaused(how)'
  BY <1>a, <1>b, <1>c, BuildIdle, <1>1, <1>2, <1>3, <1>t1
     DEF Build!NoJob, BuildInv, StaysPaused, Build!PausedStaysPaused, BuildSuspended
<1>t6. RevisionsInOrder(how)'
  BY <1>a, <1>b, <1>c, BuildIdle, <1>1, <1>2, <1>3, <1>t1
     DEF Build!NoJob, BuildInv, RevisionsInOrder
<1>t7. SecretsKept(how)'
  BY <1>a, <1>b, <1>c, BuildIdle, <1>1, <1>2, <1>3, <1>t1, <1>t3
     DEF Build!NoJob, BuildInv, SecretsKept, SeenStands, BuildMarked, Build!SecretIsThere, JobWaits
<1>t8. SuccessKnown(how)'
  BY <1>a, <1>b, <1>c, <1>d, BuildIdle, <1>1, <1>2, <1>3, <1>t1, <1>t3
     DEF Build!NoJob, BuildInv, SuccessKnown, BuildMarked
<1> QED
  BY <1>t1, <1>t2, <1>t3, <1>t4, <1>t5, <1>t6, <1>t7, <1>t8 DEF BuildInv

\* A pod ends.
LEMMA PodEndsKeeps ==
  ASSUME NEW how, BuildSorts(how), BuildInv(how), NEW s \in how.slots, Build(how)!PodEnds(s)
  PROVE  BuildInv(how)'
<1>a. /\ row \in BuildRow(how) \union {None} /\ made \in [Build(how)!Rev -> 0..how.drifts \union {None}]
      /\ secrets \subseteq Build(how)!Rev /\ overtaken \subseteq Build(how)!Rev
      /\ runs \in [how.slots -> Build(how)!Final \union {"none", "pending", "unknown"}]
      /\ cron \in CronJob(how) \union {None} /\ seen \in CronJob(how) \union {None}
      /\ job \in [how.slots -> BuildJob(how)] /\ pod \in [how.slots -> PodState(how)]
      /\ lease \in how.slots \union {None} /\ cred \in 0..how.drifts
      /\ op \in BuildOp(how) /\ InCourse(how, op)
      /\ row = None => op.kind \in {"idle", "save"} /\ op.pc \in {"idle", "write"}
  BY DEF BuildInv, BuildTyped
<1>b. None \notin BuildRow(how) /\ None \notin CronJob(how) /\ None \notin how.slots /\ None \notin Build(how)!Rev /\ Build(how)!Rev \subseteq Nat
  BY DEF BuildSorts, Build!Rev
<1>c. /\ cron # None => cron.rev \in Build(how)!Rev
      /\ seen # None => seen.rev \in Build(how)!Rev
      /\ row # None => /\ row.rev \in Build(how)!Rev \union {None} /\ row.enabled \in BOOLEAN
                       /\ row.deleting \in BOOLEAN /\ row.quiet \in BOOLEAN
      /\ op.rev \in Build(how)!Rev \union {None}
  BY <1>a DEF CronJob, BuildRow, BuildOp
<1>d. op.kind # "collect" => \A t \in how.slots : op.jobs[t] = Build(how)!NoJob
  BY DEF BuildInv, SuccessKnown
<1>1. /\ pod[s] \in {"publishing", "pending"}
      /\ UNCHANGED <<row, made, overtaken, runs, cron, seen, job, lease, secrets, cred, op>>
  BY DEF Build!PodEnds, Build!Kube
<1>2. /\ pod' \in [how.slots -> PodState(how)] /\ \A t \in how.slots \ {s} : pod'[t] = pod[t]
      /\ pod'[s] \in {"succeeded", "failed"}
  BY <1>a DEF Build!PodEnds, PodState, Build!Final
<1>3. /\ row # None /\ op.pc \notin {"unsecret", "unlease", "forget"}
      /\ op.pc = "release" => s # op.lease
  BY <1>1 DEF BuildInv, TakenDown, BuildGone, LeaseHeld, Build!Final
<1>t1. BuildTyped(how)'
  BY <1>a, <1>b, <1>c, BuildIdle, <1>1, <1>2, <1>3
     DEF BuildTyped, InCourse
<1>t2. TakenDown(how)'
  BY <1>a, <1>b, <1>c, BuildIdle, <1>1, <1>2, <1>3, <1>t1
     DEF Build!NoJob, BuildInv, TakenDown, BuildGone
<1>t3. BuildMarked(how)'
  BY <1>a, <1>b, <1>c, BuildIdle, <1>1, <1>2, <1>3, <1>t1
     DEF Build!NoJob, BuildInv, BuildMarked
<1>t4. LeaseHeld(how)'
  BY <1>a, <1>b, <1>c, BuildIdle, <1>1, <1>2, <1>3, <1>t1
     DEF Build!NoJob, BuildInv, LeaseHeld, Build!Final
<1>t5. StaysPaused(how)'
  BY <1>a, <1>b, <1>c, BuildIdle, <1>1, <1>2, <1>3, <1>t1
     DEF Build!NoJob, BuildInv, StaysPaused, Build!PausedStaysPaused, BuildSuspended
<1>t6. RevisionsInOrder(how)'
  BY <1>a, <1>b, <1>c, BuildIdle, <1>1, <1>2, <1>3, <1>t1
     DEF Build!NoJob, BuildInv, RevisionsInOrder
<1>t7. SecretsKept(how)'
  BY <1>a, <1>b, <1>c, BuildIdle, <1>1, <1>2, <1>3, <1>t1, <1>t3
     DEF Build!NoJob, BuildInv, SecretsKept, SeenStands, BuildMarked, Build!SecretIsThere, JobWaits
<1>t8. SuccessKnown(how)'
  BY <1>a, <1>b, <1>c, <1>d, BuildIdle, <1>1, <1>2, <1>3, <1>t1, <1>t3
     DEF Build!NoJob, BuildInv, SuccessKnown, BuildMarked
<1> QED
  BY <1>t1, <1>t2, <1>t3, <1>t4, <1>t5, <1>t6, <1>t7, <1>t8 DEF BuildInv

\* A Job ends.
LEMMA JobEndsKeeps ==
  ASSUME NEW how, BuildSorts(how), BuildInv(how), NEW s \in how.slots, Build(how)!JobEnds(s)
  PROVE  BuildInv(how)'
<1>a. /\ row \in BuildRow(how) \union {None} /\ made \in [Build(how)!Rev -> 0..how.drifts \union {None}]
      /\ secrets \subseteq Build(how)!Rev /\ overtaken \subseteq Build(how)!Rev
      /\ runs \in [how.slots -> Build(how)!Final \union {"none", "pending", "unknown"}]
      /\ cron \in CronJob(how) \union {None} /\ seen \in CronJob(how) \union {None}
      /\ job \in [how.slots -> BuildJob(how)] /\ pod \in [how.slots -> PodState(how)]
      /\ lease \in how.slots \union {None} /\ cred \in 0..how.drifts
      /\ op \in BuildOp(how) /\ InCourse(how, op)
      /\ row = None => op.kind \in {"idle", "save"} /\ op.pc \in {"idle", "write"}
  BY DEF BuildInv, BuildTyped
<1>b. None \notin BuildRow(how) /\ None \notin CronJob(how) /\ None \notin how.slots /\ None \notin Build(how)!Rev /\ Build(how)!Rev \subseteq Nat
  BY DEF BuildSorts, Build!Rev
<1>c. /\ cron # None => cron.rev \in Build(how)!Rev
      /\ seen # None => seen.rev \in Build(how)!Rev
      /\ row # None => /\ row.rev \in Build(how)!Rev \union {None} /\ row.enabled \in BOOLEAN
                       /\ row.deleting \in BOOLEAN /\ row.quiet \in BOOLEAN
      /\ op.rev \in Build(how)!Rev \union {None}
  BY <1>a DEF CronJob, BuildRow, BuildOp
<1>d. op.kind # "collect" => \A t \in how.slots : op.jobs[t] = Build(how)!NoJob
  BY DEF BuildInv, SuccessKnown
<1>1. /\ job[s].st = "active"
      /\ UNCHANGED <<row, made, overtaken, runs, cron, seen, pod, lease, secrets, cred, op>>
  BY DEF Build!JobEnds, Build!Kube
<1>2. /\ job' \in [how.slots -> BuildJob(how)] /\ \A t \in how.slots \ {s} : job'[t] = job[t]
      /\ job'[s].st \in {"succeeded", "failed"}
  <2>1. PICK end \in {"succeeded", "failed"} : job' = [job EXCEPT ![s].st = end]
    BY DEF Build!JobEnds
  <2>2. /\ [job[s] EXCEPT !.st = end] \in BuildJob(how) /\ [job[s] EXCEPT !.st = end].st = end
    BY <1>a DEF BuildJob
  <2>3. job' = [job EXCEPT ![s] = [job[s] EXCEPT !.st = end]]
    BY <2>1
  <2> QED
    BY <1>a, <2>2, <2>3
<1>3. row # None /\ op.pc \notin {"unsecret", "unlease", "forget"}
  BY <1>1, BuildIdle DEF BuildInv, TakenDown, BuildGone
<1>t1. BuildTyped(how)'
  BY <1>a, <1>b, <1>c, BuildIdle, <1>1, <1>2, <1>3
     DEF BuildTyped, InCourse
<1>t2. TakenDown(how)'
  BY <1>a, <1>b, <1>c, BuildIdle, <1>1, <1>2, <1>3, <1>t1
     DEF Build!NoJob, BuildInv, TakenDown, BuildGone
<1>t3. BuildMarked(how)'
  BY <1>a, <1>b, <1>c, BuildIdle, <1>1, <1>2, <1>3, <1>t1
     DEF Build!NoJob, BuildInv, BuildMarked
<1>t4. LeaseHeld(how)'
  BY <1>a, <1>b, <1>c, BuildIdle, <1>1, <1>2, <1>3, <1>t1
     DEF Build!NoJob, BuildInv, LeaseHeld, Build!Final
<1>t5. StaysPaused(how)'
  BY <1>a, <1>b, <1>c, BuildIdle, <1>1, <1>2, <1>3, <1>t1
     DEF Build!NoJob, BuildInv, StaysPaused, Build!PausedStaysPaused, BuildSuspended
<1>t6. RevisionsInOrder(how)'
  BY <1>a, <1>b, <1>c, BuildIdle, <1>1, <1>2, <1>3, <1>t1
     DEF Build!NoJob, BuildInv, RevisionsInOrder
<1>t7. SecretsKept(how)'
  <2>1. \A t \in how.slots : job'[t].st = "active" /\ pod'[t] = "pending"
          => job[t].st = "active" /\ pod[t] = "pending" /\ job'[t] = job[t]
    BY <1>1, <1>2
  <2>2. Build(how)!SecretIsThere'
    BY <1>1, <2>1 DEF BuildInv, SecretsKept, Build!SecretIsThere
  <2> QED
    BY <1>1, <2>1, <2>2 DEF BuildInv, SecretsKept, SeenStands, JobWaits
<1>t8. SuccessKnown(how)'
  <2>1. job[s] # Build(how)!NoJob /\ job'[s] # Build(how)!NoJob /\ job'[s].st # "active"
    BY <1>1, <1>2 DEF Build!NoJob
  <2>2. runs[s] # "succeeded"
    BY <1>1, <2>1 DEF BuildInv, SuccessKnown
  <2>3. ASSUME NEW t \in how.slots, runs'[t] = "succeeded", job'[t] # Build(how)!NoJob
        PROVE  job'[t].st \in {"succeeded", "deleting"} /\ pod'[t] \in {"succeeded", "none"}
    <3>1. t # s /\ job'[t] = job[t] /\ runs[t] = "succeeded" /\ pod'[t] = pod[t]
      BY <1>1, <1>2, <2>2, <2>3
    <3> QED
      BY <2>3, <3>1 DEF BuildInv, SuccessKnown
  <2>4. ASSUME NEW t \in how.slots, op'.jobs[t] # Build(how)!NoJob
        PROVE  /\ op'.kind = "collect"
               /\ \/ job'[t] = Build(how)!NoJob
                  \/ op'.jobs[t].st # "active" => job'[t].st = op'.jobs[t].st
               /\ runs'[t] = "succeeded" /\ job'[t] # Build(how)!NoJob => op'.jobs[t].st # "active"
    <3>1. /\ op.kind = "collect"
          /\ job[t] = Build(how)!NoJob \/ (op.jobs[t].st # "active" => job[t].st = op.jobs[t].st)
          /\ runs[t] = "succeeded" /\ job[t] # Build(how)!NoJob => op.jobs[t].st # "active"
      BY <1>1, <2>4 DEF BuildInv, SuccessKnown
    <3>2. CASE t = s
      BY <1>1, <2>1, <2>2, <3>1, <3>2
    <3>3. CASE t # s
      BY <1>1, <1>2, <3>1, <3>3
    <3> QED
      BY <3>2, <3>3
  <2> QED
    BY <2>3, <2>4 DEF SuccessKnown
<1> QED
  BY <1>t1, <1>t2, <1>t3, <1>t4, <1>t5, <1>t6, <1>t7, <1>t8 DEF BuildInv

\* A pod, or a Job, expires.
LEMMA ExpiresKeeps ==
  ASSUME NEW how, BuildSorts(how), BuildInv(how), NEW s \in how.slots, Build(how)!Expires(s)
  PROVE  BuildInv(how)'
<1>a. /\ row \in BuildRow(how) \union {None} /\ made \in [Build(how)!Rev -> 0..how.drifts \union {None}]
      /\ secrets \subseteq Build(how)!Rev /\ overtaken \subseteq Build(how)!Rev
      /\ runs \in [how.slots -> Build(how)!Final \union {"none", "pending", "unknown"}]
      /\ cron \in CronJob(how) \union {None} /\ seen \in CronJob(how) \union {None}
      /\ job \in [how.slots -> BuildJob(how)] /\ pod \in [how.slots -> PodState(how)]
      /\ lease \in how.slots \union {None} /\ cred \in 0..how.drifts
      /\ op \in BuildOp(how) /\ InCourse(how, op)
      /\ row = None => op.kind \in {"idle", "save"} /\ op.pc \in {"idle", "write"}
  BY DEF BuildInv, BuildTyped
<1>b. None \notin BuildRow(how) /\ None \notin CronJob(how) /\ None \notin how.slots /\ None \notin Build(how)!Rev /\ Build(how)!Rev \subseteq Nat
  BY DEF BuildSorts, Build!Rev
<1>c. /\ cron # None => cron.rev \in Build(how)!Rev
      /\ seen # None => seen.rev \in Build(how)!Rev
      /\ row # None => /\ row.rev \in Build(how)!Rev \union {None} /\ row.enabled \in BOOLEAN
                       /\ row.deleting \in BOOLEAN /\ row.quiet \in BOOLEAN
      /\ op.rev \in Build(how)!Rev \union {None}
  BY <1>a DEF CronJob, BuildRow, BuildOp
<1>d. op.kind # "collect" => \A t \in how.slots : op.jobs[t] = Build(how)!NoJob
  BY DEF BuildInv, SuccessKnown
<1>1. /\ job[s].st # "active" /\ UNCHANGED <<row, made, overtaken, runs, cron, seen, lease, secrets, cred, op>>
  BY DEF Build!Expires, Build!Kube
<1>2. /\ pod' \in [how.slots -> PodState(how)] /\ \A t \in how.slots \ {s} : pod'[t] = pod[t] /\ job'[t] = job[t]
      /\ job' \in [how.slots -> BuildJob(how)] /\ (pod'[s] = pod[s] \/ pod'[s] = "none")
      /\ job'[s].st # "active" /\ (job'[s] = job[s] \/ job'[s] = Build(how)!NoJob)
  BY <1>1, <1>a, BuildIdle DEF Build!Expires, PodState
<1>t1. BuildTyped(how)'
  BY <1>a, <1>b, <1>c, BuildIdle, <1>1, <1>2
     DEF BuildTyped, InCourse
<1>t2. TakenDown(how)'
  BY <1>a, <1>b, <1>c, BuildIdle, <1>1, <1>2, <1>t1
     DEF Build!NoJob, BuildInv, TakenDown, BuildGone
<1>t3. BuildMarked(how)'
  BY <1>a, <1>b, <1>c, BuildIdle, <1>1, <1>2, <1>t1
     DEF Build!NoJob, BuildInv, BuildMarked
<1>t4. LeaseHeld(how)'
  BY <1>a, <1>b, <1>c, BuildIdle, <1>1, <1>2, <1>t1
     DEF Build!NoJob, BuildInv, LeaseHeld, Build!Final
<1>t5. StaysPaused(how)'
  BY <1>a, <1>b, <1>c, BuildIdle, <1>1, <1>2, <1>t1
     DEF Build!NoJob, BuildInv, StaysPaused, Build!PausedStaysPaused, BuildSuspended
<1>t6. RevisionsInOrder(how)'
  BY <1>a, <1>b, <1>c, BuildIdle, <1>1, <1>2, <1>t1
     DEF Build!NoJob, BuildInv, RevisionsInOrder
<1>t7. SecretsKept(how)'
  BY <1>a, <1>b, <1>c, BuildIdle, <1>1, <1>2, <1>t1, <1>t3
     DEF Build!Idle, Build!NoJob, BuildInv, SecretsKept, SeenStands, BuildMarked, Build!SecretIsThere, JobWaits
<1>t8. SuccessKnown(how)'
  BY <1>a, <1>b, <1>c, <1>d, BuildIdle, <1>1, <1>2, <1>t1, <1>t3
     DEF Build!Idle, Build!NoJob, BuildInv, SuccessKnown, BuildMarked
<1> QED
  BY <1>t1, <1>t2, <1>t3, <1>t4, <1>t5, <1>t6, <1>t7, <1>t8 DEF BuildInv

\* The build has been applied for long.
LEMMA QuietKeeps ==
  ASSUME NEW how, BuildSorts(how), BuildInv(how), Build(how)!Quiet
  PROVE  BuildInv(how)'
<1>a. /\ row \in BuildRow(how) \union {None} /\ made \in [Build(how)!Rev -> 0..how.drifts \union {None}]
      /\ secrets \subseteq Build(how)!Rev /\ overtaken \subseteq Build(how)!Rev
      /\ runs \in [how.slots -> Build(how)!Final \union {"none", "pending", "unknown"}]
      /\ cron \in CronJob(how) \union {None} /\ seen \in CronJob(how) \union {None}
      /\ job \in [how.slots -> BuildJob(how)] /\ pod \in [how.slots -> PodState(how)]
      /\ lease \in how.slots \union {None} /\ cred \in 0..how.drifts
      /\ op \in BuildOp(how) /\ InCourse(how, op)
      /\ row = None => op.kind \in {"idle", "save"} /\ op.pc \in {"idle", "write"}
  BY DEF BuildInv, BuildTyped
<1>b. None \notin BuildRow(how) /\ None \notin CronJob(how) /\ None \notin how.slots /\ None \notin Build(how)!Rev /\ Build(how)!Rev \subseteq Nat
  BY DEF BuildSorts, Build!Rev
<1>c. /\ cron # None => cron.rev \in Build(how)!Rev
      /\ seen # None => seen.rev \in Build(how)!Rev
      /\ row # None => /\ row.rev \in Build(how)!Rev \union {None} /\ row.enabled \in BOOLEAN
                       /\ row.deleting \in BOOLEAN /\ row.quiet \in BOOLEAN
      /\ op.rev \in Build(how)!Rev \union {None}
  BY <1>a DEF CronJob, BuildRow, BuildOp
<1>d. op.kind # "collect" => \A t \in how.slots : op.jobs[t] = Build(how)!NoJob
  BY DEF BuildInv, SuccessKnown
<1>1. /\ row # None /\ row.rev # None /\ seen = cron /\ op = Build(how)!Idle /\ op.pc = "idle" /\ op.kind = "idle"
      /\ UNCHANGED <<made, overtaken, runs, cron, seen, job, pod, lease, secrets, cred, op>>
  BY BuildIdle DEF Build!Quiet, Build!cluster
<1>2. /\ row' \in BuildRow(how) /\ row' # None /\ row'.deleting = row.deleting /\ row'.enabled = row.enabled
      /\ row'.rev = row.rev /\ row'.applied = row.applied /\ row'.quiet
  <2>1. row \in BuildRow(how) /\ row' = [row EXCEPT !.quiet = TRUE]
    BY <1>1, <1>a DEF Build!Quiet
  <2> QED
    BY <2>1, <1>b DEF BuildRow
<1>t1. BuildTyped(how)'
  BY <1>a, <1>b, <1>c, BuildIdle, <1>1, <1>2
     DEF BuildTyped, InCourse
<1>t2. TakenDown(how)'
  BY <1>a, <1>b, <1>c, BuildIdle, <1>1, <1>2, <1>t1
     DEF Build!NoJob, BuildInv, TakenDown, BuildGone
<1>t3. BuildMarked(how)'
  BY <1>a, <1>b, <1>c, BuildIdle, <1>1, <1>2, <1>t1
     DEF Build!NoJob, BuildInv, BuildMarked
<1>t4. LeaseHeld(how)'
  BY <1>a, <1>b, <1>c, BuildIdle, <1>1, <1>2, <1>t1
     DEF Build!NoJob, BuildInv, LeaseHeld, Build!Final
<1>t5. StaysPaused(how)'
  BY <1>a, <1>b, <1>c, BuildIdle, <1>1, <1>2, <1>t1
     DEF Build!NoJob, BuildInv, StaysPaused, Build!PausedStaysPaused, BuildSuspended
<1>t6. RevisionsInOrder(how)'
  BY <1>a, <1>b, <1>c, BuildIdle, <1>1, <1>2, <1>t1
     DEF Build!NoJob, BuildInv, RevisionsInOrder
<1>t7. SecretsKept(how)'
  BY <1>a, <1>b, <1>c, BuildIdle, <1>1, <1>2, <1>t1, <1>t3
     DEF Build!NoJob, BuildInv, SecretsKept, SeenStands, BuildMarked, Build!SecretIsThere, JobWaits
<1>t8. SuccessKnown(how)'
  BY <1>a, <1>b, <1>c, <1>d, BuildIdle, <1>1, <1>2, <1>t1, <1>t3
     DEF Build!NoJob, BuildInv, SuccessKnown, BuildMarked
<1> QED
  BY <1>t1, <1>t2, <1>t3, <1>t4, <1>t5, <1>t6, <1>t7, <1>t8 DEF BuildInv

\* The credentials move.
LEMMA DriftKeeps ==
  ASSUME NEW how, BuildSorts(how), BuildInv(how), Build(how)!Drift \/ Build(how)!Heal
  PROVE  BuildInv(how)'
<1>a. /\ row \in BuildRow(how) \union {None} /\ made \in [Build(how)!Rev -> 0..how.drifts \union {None}]
      /\ secrets \subseteq Build(how)!Rev /\ overtaken \subseteq Build(how)!Rev
      /\ runs \in [how.slots -> Build(how)!Final \union {"none", "pending", "unknown"}]
      /\ cron \in CronJob(how) \union {None} /\ seen \in CronJob(how) \union {None}
      /\ job \in [how.slots -> BuildJob(how)] /\ pod \in [how.slots -> PodState(how)]
      /\ lease \in how.slots \union {None} /\ cred \in 0..how.drifts
      /\ op \in BuildOp(how) /\ InCourse(how, op)
      /\ row = None => op.kind \in {"idle", "save"} /\ op.pc \in {"idle", "write"}
  BY DEF BuildInv, BuildTyped
<1>b. None \notin BuildRow(how) /\ None \notin CronJob(how) /\ None \notin how.slots /\ None \notin Build(how)!Rev /\ Build(how)!Rev \subseteq Nat
  BY DEF BuildSorts, Build!Rev
<1>c. /\ cron # None => cron.rev \in Build(how)!Rev
      /\ seen # None => seen.rev \in Build(how)!Rev
      /\ row # None => /\ row.rev \in Build(how)!Rev \union {None} /\ row.enabled \in BOOLEAN
                       /\ row.deleting \in BOOLEAN /\ row.quiet \in BOOLEAN
      /\ op.rev \in Build(how)!Rev \union {None}
  BY <1>a DEF CronJob, BuildRow, BuildOp
<1>d. op.kind # "collect" => \A t \in how.slots : op.jobs[t] = Build(how)!NoJob
  BY DEF BuildInv, SuccessKnown
<1>1. /\ UNCHANGED <<row, made, overtaken, runs, cron, seen, job, pod, lease, secrets, op>>
      /\ cred' \in 0..how.drifts
  BY <1>a DEF Build!Drift, Build!Heal, Build!cluster, BuildSorts
<1>t1. BuildTyped(how)'
  BY <1>a, <1>b, <1>c, BuildIdle, <1>1
     DEF BuildTyped, InCourse
<1>t2. TakenDown(how)'
  BY <1>a, <1>b, <1>c, BuildIdle, <1>1, <1>t1
     DEF Build!NoJob, BuildInv, TakenDown, BuildGone
<1>t3. BuildMarked(how)'
  BY <1>a, <1>b, <1>c, BuildIdle, <1>1, <1>t1
     DEF Build!NoJob, BuildInv, BuildMarked
<1>t4. LeaseHeld(how)'
  BY <1>a, <1>b, <1>c, BuildIdle, <1>1, <1>t1
     DEF Build!NoJob, BuildInv, LeaseHeld, Build!Final
<1>t5. StaysPaused(how)'
  BY <1>a, <1>b, <1>c, BuildIdle, <1>1, <1>t1
     DEF Build!NoJob, BuildInv, StaysPaused, Build!PausedStaysPaused, BuildSuspended
<1>t6. RevisionsInOrder(how)'
  BY <1>a, <1>b, <1>c, BuildIdle, <1>1, <1>t1
     DEF Build!NoJob, BuildInv, RevisionsInOrder
<1>t7. SecretsKept(how)'
  BY <1>a, <1>b, <1>c, BuildIdle, <1>1, <1>t1, <1>t3
     DEF Build!NoJob, BuildInv, SecretsKept, SeenStands, BuildMarked, Build!SecretIsThere, JobWaits
<1>t8. SuccessKnown(how)'
  BY <1>a, <1>b, <1>c, <1>d, BuildIdle, <1>1, <1>t1, <1>t3
     DEF Build!NoJob, BuildInv, SuccessKnown, BuildMarked
<1> QED
  BY <1>t1, <1>t2, <1>t3, <1>t4, <1>t5, <1>t6, <1>t7, <1>t8 DEF BuildInv


\* What is true at first.
LEMMA BuildStarts == ASSUME NEW how, BuildSorts(how), Build(how)!Init PROVE BuildInv(how)
<1>1. Build(how)!NoJob \in BuildJob(how) /\ Build(how)!Idle \in BuildOp(how) /\ InCourse(how, Build(how)!Idle) /\ Build(how)!Idle.kind = "idle" /\ Build(how)!Idle.pc = "idle"
      /\ Build(how)!NoJob.st = "none"
  BY BuildIdle
<1>2. BuildTyped(how)
  BY <1>1 DEF Build!Init, BuildTyped, BuildSorts, PodState
<1>3. TakenDown(how)
  BY <1>1 DEF Build!Init, TakenDown, BuildGone
<1>4. LeaseHeld(how)
  BY <1>1 DEF Build!Init, LeaseHeld
<1>5. StaysPaused(how)
  BY <1>1 DEF Build!Init, StaysPaused, Build!PausedStaysPaused
<1>6. RevisionsInOrder(how)
  BY <1>1 DEF Build!Init, RevisionsInOrder, BuildSorts
<1>7. SecretsKept(how)
  BY <1>1 DEF Build!Init, SecretsKept, SeenStands, Build!SecretIsThere, BuildSorts, JobWaits
<1>8. BuildMarked(how) /\ SuccessKnown(how)
  BY <1>1, BuildIdle DEF Build!Init, BuildMarked, SuccessKnown
<1> QED
  BY <1>2, <1>3, <1>4, <1>5, <1>6, <1>7, <1>8 DEF BuildInv

\* The actions keep the invariant.
LEMMA BuildSteps ==
  ASSUME NEW how, BuildSorts(how), BuildInv(how), Build(how)!Next
  PROVE  BuildInv(how)'
<1>0. BuildTyped(how)
  BY DEF BuildInv
<1>1. ASSUME NEW on \in BOOLEAN, Build(how)!StartSave(on) PROVE BuildInv(how)'
  <2> DEFINE pc == IF row = None THEN "write" ELSE "suspend"
  <2>1. /\ Build(how)!Begin("save", pc, on) /\ UNCHANGED <<row, made, overtaken, runs, Build(how)!cluster, cred>>
        /\ row # None => ~row.deleting
    BY <1>1 DEF Build!StartSave
  <2>2. pc \in BuildPc /\ (pc = IF row = None THEN "write" ELSE "suspend")
    BY DEF BuildPc
  <2> HIDE DEF pc
  <2>3. op = Build(how)!Idle /\ op' \in BuildOp(how) /\ op'.kind = "save" /\ op'.pc = pc /\ op'.jobs = Build(how)!Idle.jobs
    BY <1>0, <2>1, <2>2, BuildTakesUp
  <2> QED
    BY <2>1, <2>2, <2>3, BuildBegins
<1>2. ASSUME NEW act \in {"pause", "apply", "invalidate"}, Build(how)!Begin(act, "suspend", FALSE),
             row # None,
             UNCHANGED <<row, made, overtaken, runs, Build(how)!cluster, cred>>
      PROVE  BuildInv(how)'
  <2>1. op = Build(how)!Idle /\ op' \in BuildOp(how) /\ op'.kind = act /\ op'.pc = "suspend" /\ op'.jobs = Build(how)!Idle.jobs
    BY <1>0, <1>2, BuildTakesUp DEF BuildPc
  <2> QED
    BY <1>2, <2>1, BuildBegins
<1>3. CASE Build(how)!StartPause
  BY <1>2, <1>3 DEF Build!StartPause
<1>4. CASE Build(how)!StartApply
  BY <1>2, <1>4 DEF Build!StartApply
<1>5. CASE Build(how)!StartInvalidate
  BY <1>2, <1>5 DEF Build!StartInvalidate
<1>6. CASE Build(how)!StartRun
  <2>1. row # None /\ ~row.deleting /\ row.applied /\ UNCHANGED <<row, made, overtaken, runs, Build(how)!cluster, cred>>
    BY <1>6 DEF Build!StartRun
  <2>2. CASE Build(how)!Begin("run", "post", FALSE)
    <3>1. op = Build(how)!Idle /\ op' \in BuildOp(how) /\ op'.kind = "run" /\ op'.pc = "post" /\ op'.jobs = Build(how)!Idle.jobs
      BY <1>0, <2>2, BuildTakesUp DEF BuildPc
    <3> QED
      BY <2>1, <3>1, BuildBegins
  <2>3. CASE Build(how)!Begin("invalidate", "suspend", FALSE)
    BY <1>2, <2>1, <2>3
  <2> QED
    BY <1>6, <2>2, <2>3 DEF Build!StartRun
<1>7. CASE Build(how)!StartDelete
  <2>1. op = Build(how)!Idle /\ op' \in BuildOp(how) /\ op'.kind = "delete" /\ op'.pc = "suspend" /\ op'.jobs = Build(how)!Idle.jobs
    BY <1>0, <1>7, BuildTakesUp DEF Build!StartDelete, BuildPc
  <2>2. /\ row # None /\ row' = [row EXCEPT !.deleting = TRUE, !.enabled = FALSE]
        /\ UNCHANGED <<made, overtaken, runs, Build(how)!cluster, cred>>
    BY <1>7 DEF Build!StartDelete
  <2> QED
    BY <2>1, <2>2, BuildBegins
<1>8. CASE Build(how)!StartCollect
  <2>1. row # None /\ UNCHANGED <<row, made, overtaken, runs, Build(how)!cluster, cred>>
    BY <1>8 DEF Build!StartCollect
  <2>2. CASE row.deleting
    <3>1. op = Build(how)!Idle /\ op' \in BuildOp(how) /\ op'.kind = "delete" /\ op'.pc = "suspend" /\ op'.jobs = Build(how)!Idle.jobs
      BY <1>0, <1>8, <2>2, BuildTakesUp DEF Build!StartCollect, BuildPc
    <3> QED
      BY <2>1, <2>2, <3>1, BuildBegins
  <2>3. CASE ~row.deleting
    <3>1. PICK pc \in {"jobs", "suspend"} : Build(how)!Begin("collect", pc, FALSE)
      BY <1>8, <2>3 DEF Build!StartCollect
    <3>2. op = Build(how)!Idle /\ op' \in BuildOp(how) /\ op'.kind = "collect" /\ op'.pc = pc /\ op'.jobs = Build(how)!Idle.jobs
      BY <1>0, <3>1, BuildTakesUp DEF BuildPc
    <3> QED
      BY <2>1, <2>3, <3>2, BuildBegins
  <2> QED
    BY <2>2, <2>3
<1>9. CASE Build(how)!CallFails
  <2>1. op' = Build(how)!Idle /\ RowKept(how) /\ UNCHANGED <<made, overtaken, runs, Build(how)!cluster, cred>>
    BY <1>0, <1>9, BuildFails DEF Build!CallFails
  <2> QED
    BY <2>1, BuildEnds
<1>10. CASE Build(how)!Operate
  BY <1>9, <1>10, SuspendKeeps, WriteKeeps, ReviseKeeps, CreateSecretKeeps, InstallKeeps,
     FinishKeeps,
     PostKeeps, RemoveCronKeeps, RemoveJobsKeeps, CheckGoneKeeps, RemoveSecretsKeeps, RemoveLeaseKeeps,
     ForgetKeeps, LookKeeps, RecordKeeps, ReleaseKeeps, ReadCronKeeps, SweepKeeps
     DEF Build!Operate
<1>11. ASSUME NEW s \in how.slots, Build(how)!CronFires(s) \/ Build(how)!Runs(s)
       PROVE  BuildInv(how)'
  BY <1>11, CronFiresKeeps, ClaimKeeps, PodEndsKeeps, JobEndsKeeps, ExpiresKeeps DEF Build!Runs
<1>12. CASE Build(how)!Crash
  <2>1. op' = Build(how)!Idle /\ RowKept(how) /\ UNCHANGED <<made, overtaken, runs, Build(how)!cluster, cred>>
    BY <1>0, <1>12 DEF Build!Crash, RowKept, BuildTyped
  <2> QED
    BY <2>1, BuildEnds
<1> QED
  BY <1>1, <1>3, <1>4, <1>5, <1>6, <1>7, <1>8, <1>10, <1>11, <1>12, ControllerSeesKeeps, QuietKeeps,
     DriftKeeps
     DEF Build!Next

LEMMA BuildStutters == ASSUME NEW how, BuildInv(how), UNCHANGED Build(how)!vars PROVE BuildInv(how)'
  BY DEF Build!vars, Build!cluster, BuildInv, BuildTyped, TakenDown, BuildGone, LeaseHeld,
     StaysPaused, Build!PausedStaysPaused,
     BuildSuspended, RevisionsInOrder, SecretsKept, SeenStands, JobWaits, Build!SecretIsThere, BuildMarked, SuccessKnown

LEMMA BuildShows ==
  ASSUME NEW how, BuildSorts(how), BuildInv(how)
  PROVE  /\ Build(how)!OnePublisher /\ Build(how)!NothingLeft /\ Build(how)!PausedStaysPaused /\ Build(how)!TypeOK
         /\ Build(how)!SecretIsThere
<1>1. Build(how)!OnePublisher
  BY DEF BuildInv, LeaseHeld, Build!OnePublisher
<1>2. Build(how)!NothingLeft
  BY DEF BuildInv, TakenDown, BuildGone, Build!NothingLeft
<1>3. Build(how)!PausedStaysPaused
  BY DEF BuildInv, StaysPaused
<1>4. Build(how)!TypeOK
  BY DEF BuildInv, BuildTyped, Build!TypeOK, BuildRow, CronJob, BuildJob, PodState, BuildOp
<1>5. Build(how)!SecretIsThere
  BY DEF BuildInv, SecretsKept, SeenStands
<1> QED
  BY <1>1, <1>2, <1>3, <1>4, <1>5

\* A success that was recorded is recorded again, whatever expires.
LEMMA SuccessStays ==
  ASSUME NEW how, BuildSorts(how), BuildInv(how), [Build(how)!Next]_(Build(how)!vars),
         NEW s \in how.slots, runs[s] = "succeeded", job[s] # Build(how)!NoJob,
         row' # None
  PROVE  runs'[s] = "succeeded"
<1>0. runs \in [how.slots -> Build(how)!Final \union {"none", "pending", "unknown"}]
  BY DEF BuildInv, BuildTyped
<1>1. CASE runs' = runs
  BY <1>1
<1>2. CASE Build(how)!Post
  BY <1>0, <1>2 DEF Build!Post, Build!Free
<1>3. CASE Build(how)!Forget
  BY <1>3 DEF Build!Forget
<1>4. CASE Build(how)!Record
  <2>1. CASE runs' = runs
    BY <2>1
  <2>2. CASE runs' # runs
    <3>1. runs'[s] = Build(how)!Recorded(s) /\ op.pc = "pods"
      BY <1>4, <2>2 DEF Build!Record
    <3>2. op.kind = "collect" /\ row # None
      BY <3>1, BuildCourse DEF BuildInv
    <3>3. /\ job[s].st \in {"succeeded", "deleting"} /\ pod[s] \in {"succeeded", "none"}
          /\ job[s].st # "deleting"
      BY <3>2 DEF BuildInv, SuccessKnown, BuildMarked
    <3>4. CASE op.jobs[s] = Build(how)!NoJob
      BY <3>1, <3>4 DEF Build!Recorded
    <3>5. CASE op.jobs[s] # Build(how)!NoJob
      <4>1. op.jobs[s].st = "succeeded"
        BY <3>3, <3>5 DEF BuildInv, SuccessKnown
      <4>2. Build(how)!Outcome(s) \in {"succeeded", "unknown"}
        BY <3>3, <4>1 DEF Build!Outcome
      <4> QED
        BY <3>1, <3>5, <4>2 DEF Build!Recorded, Build!Final
    <3> QED
      BY <3>4, <3>5
  <2> QED
    BY <2>1, <2>2
<1>5. ASSUME NEW t \in how.slots, Build(how)!CronFires(t) PROVE runs'[s] = "succeeded"
  BY <1>0, <1>5 DEF Build!CronFires, Build!Free
<1>6. CASE UNCHANGED Build(how)!vars
  BY <1>1, <1>6 DEF Build!vars
<1>7. ASSUME NEW on \in BOOLEAN, Build(how)!StartSave(on) PROVE runs' = runs
  BY <1>7 DEF Build!StartSave
<1>8. Build(how)!StartPause \/ Build(how)!StartApply \/ Build(how)!StartInvalidate \/ Build(how)!StartRun \/ Build(how)!StartDelete \/ Build(how)!StartCollect => runs' = runs
  BY DEF Build!StartPause, Build!StartApply, Build!StartInvalidate, Build!StartRun,
     Build!StartDelete, Build!StartCollect
<1>9. Build(how)!CallFails \/ Build(how)!Suspend \/ Build(how)!Write \/ Build(how)!Revise \/ Build(how)!CreateSecret \/ Build(how)!Install \/ Build(how)!Finish => runs' = runs
  BY DEF Build!CallFails, Build!Suspend, Build!Write, Build!Revise, Build!CreateSecret,
     Build!Install, Build!Finish
<1>10. Build(how)!RemoveCron \/ Build(how)!RemoveJobs \/ Build(how)!CheckGone \/ Build(how)!RemoveSecrets \/ Build(how)!RemoveLease => runs' = runs
  BY DEF Build!RemoveCron, Build!RemoveJobs, Build!CheckGone, Build!RemoveSecrets, Build!RemoveLease
<1>11. Build(how)!Look \/ Build(how)!Release \/ Build(how)!ReadCron \/ Build(how)!Sweep => runs' = runs
  BY DEF Build!Look, Build!Release, Build!ReadCron, Build!Sweep
<1>12. ASSUME NEW t \in how.slots, Build(how)!Runs(t) PROVE runs' = runs
  BY <1>12 DEF Build!Runs, Build!Claim, Build!PodEnds, Build!JobEnds, Build!Expires
<1>13. Build(how)!ControllerSees \/ Build(how)!Quiet \/ Build(how)!Drift \/ Build(how)!Crash \/ Build(how)!Heal => runs' = runs
  BY DEF Build!ControllerSees, Build!Quiet, Build!Drift, Build!Crash, Build!Heal
<1>14. CASE Build(how)!Operate
  BY <1>1, <1>2, <1>3, <1>4, <1>9, <1>10, <1>11, <1>14 DEF Build!Operate
<1> QED
  BY <1>1, <1>5, <1>6, <1>7, <1>8, <1>12, <1>13, <1>14 DEF Build!Next

\* Any step of a build keeps its invariant.
LEMMA BuildNext ==
  ASSUME NEW how, BuildSorts(how), BuildInv(how), [Build(how)!Next]_(Build(how)!vars)
  PROVE  BuildInv(how)'
<1>1. CASE Build(how)!Next
  BY <1>1, BuildSteps
<1>2. CASE UNCHANGED Build(how)!vars
  BY <1>2, BuildStutters
<1> QED
  BY <1>1, <1>2

\* For any number of revisions, of runs, of changed credentials and of requests, whatever
\* call fails or loses its answer: two pods of a build never publish at the same time, a
\* build that is gone has left nothing, one shown as paused is suspended, and no Job waits
\* for a Secret that is not there, unless its revision was installed, shown as not applied
\* and overtaken by a later one.
THEOREM BuildHolds ==
  ASSUME NEW how, BuildSorts(how)
  PROVE  Build(how)!Spec =>
           []( /\ Build(how)!TypeOK /\ Build(how)!OnePublisher /\ Build(how)!NothingLeft
               /\ Build(how)!PausedStaysPaused /\ Build(how)!SecretIsThere )
<1> DEFINE Shown == /\ Build(how)!TypeOK /\ Build(how)!OnePublisher /\ Build(how)!NothingLeft
                    /\ Build(how)!PausedStaysPaused /\ Build(how)!SecretIsThere
<1>1. Build(how)!Init => BuildInv(how)
  BY BuildStarts
<1>2. BuildInv(how) /\ [Build(how)!Next]_(Build(how)!vars) => BuildInv(how)'
  BY BuildNext
<1>3. BuildInv(how) => Shown
  BY BuildShows
<1> HIDE DEF Shown
<1>4. Build(how)!Spec => []Shown
  BY <1>1, <1>2, <1>3, PTL DEF Build!Spec
<1> QED
  BY <1>4 DEF Shown

\* A publication that was seen to succeed stays so, whatever expires and whatever the
\* collector read before it did, for any number of runs.
THEOREM SuccessHolds ==
  ASSUME NEW how, BuildSorts(how)
  PROVE  Build(how)!Spec => Build(how)!SuccessIsKept
<1> DEFINE Kept ==
      \A s \in how.slots : runs[s] = "succeeded" /\ job[s] # Build(how)!NoJob /\ row' # None
        => runs'[s] = "succeeded"
<1>1. Build(how)!Init => BuildInv(how)
  BY BuildStarts
<1>2. BuildInv(how) /\ [Build(how)!Next]_(Build(how)!vars) => BuildInv(how)'
  BY BuildNext
<1>3. BuildInv(how) /\ [Build(how)!Next]_(Build(how)!vars) => [Kept]_(Build(how)!vars)
  BY SuccessStays
<1>4. Build(how)!Spec => [][Kept]_(Build(how)!vars)
  <2> HIDE DEF Kept
  <2> QED
    BY <1>1, <1>2, <1>3, PTL DEF Build!Spec
<1> QED
  BY <1>4 DEF Build!SuccessIsKept

-----------------------------------------------------------------------------
(* A schedule: the next run shown is the first that fires.                 *)

\* What the constants have to be: sizes; an answer that is no instant; schedules that keep
\* to the bounds of their fields; and dates that do, for as many days as are tried.
ClockSorts(how) ==
  /\ how.instants \subseteq Nat
  /\ how.minutes \in Nat \ {0} /\ how.hours \in Nat \ {0} /\ how.week \in Nat \ {0}
  /\ how.month \in Nat \ {0}
  /\ how.window \in Nat \ {0}
  /\ Star \notin Nat /\ None \notin Nat /\ Never \notin Nat /\ None # Never
  /\ \A s \in how.schedules :
       /\ Clock(how)!Values(s.minute, 0, how.minutes - 1) \subseteq 0..(how.minutes - 1)
       /\ Clock(how)!Values(s.hour, 0, how.hours - 1) \subseteq 0..(how.hours - 1)
       /\ Clock(how)!Values(s.dow, 0, how.week) \subseteq 0..how.week
  /\ \A now \in how.instants, d \in 0..(how.window - 1) :
       LET date == how.calendar[Clock(how)!DayOf(now + 1) + d]
       IN  date.dom \in 1..how.month /\ date.dow \in 0..(how.week - 1)

\* Products grow with their factors.
LEMMA Grows ==
  ASSUME NEW a \in Nat, NEW b \in Nat, NEW n \in Nat, a <= b
  PROVE  a * n <= b * n
<1>1. PICK c \in Nat : b = a + c
  <2>1. b - a \in Nat /\ b = a + (b - a)
    OBVIOUS
  <2> QED
    BY <2>1
<1>2. b * n = a * n + c * n
  BY <1>1
<1>3. a * n \in Int /\ c * n \in Int /\ c * n >= 0
  BY <1>1
<1> QED
  BY <1>2, <1>3

LEMMA GrowsMore ==
  ASSUME NEW a \in Nat, NEW b \in Nat, NEW n \in Nat, a < b
  PROVE  a * n + n <= b * n /\ a * n \in Nat /\ b * n \in Nat
<1>1. (a + 1) * n <= b * n
  BY Grows
<1>2. (a + 1) * n = a * n + n
  OBVIOUS
<1> QED
  BY <1>1, <1>2

\* What a division leaves.
LEMMA Parts ==
  ASSUME NEW n \in Nat \ {0}, NEW a \in Nat, NEW b \in 0..(n - 1), NEW x, x = a * n + b
  PROVE  x \in Nat /\ x \div n = a /\ x % n = b
<1>1. a * n \in Nat
  BY SMT
<1>2. x \in Nat
  BY <1>1
<1> DEFINE q == x \div n
           r == x % n
<1>3. q \in Nat /\ r \in 0..(n - 1) /\ x = q * n + r
  BY <1>2, SMT
<1> HIDE DEF q, r
<1>4. ~(q < a)
  <2> SUFFICES ASSUME q < a PROVE FALSE
    OBVIOUS
  <2>1. q * n + n <= a * n
    BY <1>3, GrowsMore
  <2>2. q * n \in Nat
    BY <1>3
  <2> QED
    BY <1>1, <1>3, <2>1, <2>2
<1>5. ~(a < q)
  <2> SUFFICES ASSUME a < q PROVE FALSE
    OBVIOUS
  <2>1. a * n + n <= q * n
    BY <1>3, GrowsMore
  <2>2. q * n \in Nat
    BY <1>3
  <2> QED
    BY <1>1, <1>3, <2>1, <2>2
<1>6. q = a
  BY <1>3, <1>4, <1>5
<1>7. r = b
  BY <1>1, <1>3, <1>6
<1> QED
  BY <1>2, <1>6, <1>7 DEF q, r

\* What the division of x is.
LEMMA Divides ==
  ASSUME NEW n \in Nat \ {0}, NEW x \in Nat
  PROVE  x \div n \in Nat /\ x % n \in 0..(n - 1) /\ x = (x \div n) * n + (x % n)
  BY SMT

\* An instant is a day, an hour and a minute.
LEMMA InstantOf ==
  ASSUME NEW how, ClockSorts(how), NEW d \in Nat, NEW h \in 0..(how.hours - 1),
         NEW m \in 0..(how.minutes - 1),
         NEW t, t = Clock(how)!DayBegin(d) + h * how.minutes + m
  PROVE  t \in Nat /\ Clock(how)!DayOf(t) = d /\ Clock(how)!HourOf(t) = h /\ Clock(how)!MinuteOf(t) = m
<1>0. how.minutes \in Nat \ {0} /\ how.hours \in Nat \ {0} /\ h \in Nat /\ m \in Nat
  BY DEF ClockSorts
<1> DEFINE u == d * how.hours + h
           n == how.minutes * how.hours
           r == h * how.minutes + m
<1>1. u \in Nat /\ u \div how.hours = d /\ u % how.hours = h
  BY <1>0, Parts
<1>2. t = u * how.minutes + m
  <2>1. Clock(how)!DayBegin(d) = (d * how.hours) * how.minutes
    BY <1>0 DEF Clock!DayBegin
  <2>2. u * how.minutes = (d * how.hours) * how.minutes + h * how.minutes
    BY <1>0
  <2> QED
    BY <1>0, <2>1, <2>2
<1>3. t \in Nat /\ t \div how.minutes = u /\ t % how.minutes = m
  <2> HIDE DEF u
  <2>1. u \in Nat
    BY <1>1
  <2> QED
    BY <2>1, <1>0, <1>2, Parts
<1>4. n \in Nat \ {0} /\ r \in 0..(n - 1)
  <2>1. h * how.minutes + how.minutes <= how.hours * how.minutes /\ h * how.minutes \in Nat /\ how.hours * how.minutes \in Nat
    BY <1>0, GrowsMore
  <2>2. how.hours * how.minutes = n
    BY <1>0
  <2> HIDE DEF n
  <2> QED
    BY <1>0, <2>1, <2>2
<1>5. t = d * n + r
  <2>1. Clock(how)!DayBegin(d) = d * n
    BY <1>0 DEF Clock!DayBegin
  <2> QED
    BY <1>0, <2>1
<1>6. t \div n = d
  <2> HIDE DEF n, r
  <2> QED
    BY <1>4, <1>5, Parts
<1> QED
  BY <1>1, <1>3, <1>6 DEF Clock!DayOf, Clock!HourOf, Clock!MinuteOf

LEMMA InstantIs ==
  ASSUME NEW how, ClockSorts(how), NEW t \in Nat
  PROVE  /\ Clock(how)!DayOf(t) \in Nat /\ Clock(how)!HourOf(t) \in 0..(how.hours - 1) /\ Clock(how)!MinuteOf(t) \in 0..(how.minutes - 1)
         /\ t = Clock(how)!DayBegin(Clock(how)!DayOf(t)) + Clock(how)!HourOf(t) * how.minutes + Clock(how)!MinuteOf(t)
<1>0. how.minutes \in Nat \ {0} /\ how.hours \in Nat \ {0}
  BY DEF ClockSorts
<1> DEFINE u == t \div how.minutes
           m == t % how.minutes
           d == u \div how.hours
           h == u % how.hours
<1>1. u \in Nat /\ m \in 0..(how.minutes - 1) /\ t = u * how.minutes + m
  BY <1>0, Divides
<1>2. d \in Nat /\ h \in 0..(how.hours - 1) /\ u = d * how.hours + h
  <2> HIDE DEF u
  <2> QED
    BY <1>0, <1>1, Divides
<1>3. t = Clock(how)!DayBegin(d) + h * how.minutes + m
  <2> HIDE DEF u, m, d, h
  <2>1. Clock(how)!DayBegin(d) = (d * how.hours) * how.minutes
    BY <1>0, <1>2 DEF Clock!DayBegin
  <2>2. u * how.minutes = (d * how.hours) * how.minutes + h * how.minutes
    BY <1>0, <1>2
  <2> QED
    BY <1>0, <1>1, <1>2, <2>1, <2>2
<1>4. Clock(how)!DayOf(t) = d /\ Clock(how)!HourOf(t) = h /\ Clock(how)!MinuteOf(t) = m
  <2> HIDE DEF u, m, d, h
  <2> QED
    BY <1>1, <1>2, <1>3, InstantOf
<1> HIDE DEF u, m, d, h
<1> QED
  BY <1>1, <1>2, <1>3, <1>4

\* A day is over when the next one begins.
LEMMA DayOver ==
  ASSUME NEW how, ClockSorts(how), NEW t \in Nat, NEW k \in Nat
  PROVE  (t < Clock(how)!DayBegin(k)) <=> (Clock(how)!DayOf(t) < k)
<1>0. how.minutes \in Nat \ {0} /\ how.hours \in Nat \ {0}
  BY DEF ClockSorts
<1> DEFINE n == how.minutes * how.hours
           d == Clock(how)!DayOf(t)
<1>1. n \in Nat \ {0} /\ Clock(how)!DayBegin(k) = k * n
  BY <1>0 DEF Clock!DayBegin
<1>2. d = t \div n
  BY DEF Clock!DayOf
<1> HIDE DEF n, d
<1>3. d \in Nat /\ t % n \in 0..(n - 1) /\ t = d * n + (t % n)
  BY <1>1, <1>2, Divides
<1>4. d * n \in Nat /\ k * n \in Nat
  BY <1>1, <1>3
<1>5. CASE d < k
  <2>1. d * n + n <= k * n
    BY <1>1, <1>3, <1>5, GrowsMore
  <2> QED
    BY <1>1, <1>3, <1>4, <1>5, <2>1 DEF d
<1>6. CASE ~(d < k)
  <2>1. k * n <= d * n
    BY <1>1, <1>3, <1>6, Grows
  <2> QED
    BY <1>1, <1>3, <1>4, <1>6, <2>1 DEF d
<1> QED
  BY <1>5, <1>6

\* A field that is "*" takes all its values.
LEMMA WildcardTakesAll ==
  ASSUME NEW how, ClockSorts(how), NEW field, Clock(how)!Wildcard(field), NEW min \in Nat,
         NEW max \in Nat
  PROVE  min..max \subseteq Clock(how)!Values(field, min, max)
<1> DEFINE whole == [first |-> Star, last |-> None, step |-> None]
<1>1. field = <<whole>> /\ DOMAIN field = {1} /\ field[1] = whole
  BY DEF Clock!Wildcard
<1>2. Clock(how)!PartValues(whole, min, max) = {v \in min..max : (v - min) % 1 = 0}
  BY DEF Clock!PartValues
<1>3. \A v \in min..max : (v - min) % 1 = 0
  BY SMT
<1>4. min..max \subseteq Clock(how)!PartValues(whole, min, max)
  BY <1>2, <1>3
<1> HIDE DEF whole
<1> QED
  BY <1>1, <1>4 DEF Clock!Values

\* The days a schedule is tried on are those it fires on.
LEMMA DayFires ==
  ASSUME NEW how, ClockSorts(how), NEW s \in how.schedules, NEW t \in Nat,
         how.calendar[Clock(how)!DayOf(t)].dom \in 1..how.month, how.calendar[Clock(how)!DayOf(t)].dow \in 0..(how.week - 1)
  PROVE  Clock(how)!Fires(s, t) <=> /\ Clock(how)!MinuteOf(t) \in Clock(how)!Values(s.minute, 0, how.minutes - 1)
                                    /\ Clock(how)!HourOf(t) \in Clock(how)!Values(s.hour, 0, how.hours - 1)
                                    /\ Clock(how)!DayMatches(s, Clock(how)!DayOf(t))
<1> DEFINE date == how.calendar[Clock(how)!DayOf(t)]
           dom == date.dom \in Clock(how)!Values(s.dom, 1, how.month)
           dow == date.dow \in Clock(how)!Weekdays(s)
<1>0. how.week \in Nat \ {0} /\ how.month \in Nat \ {0} /\ Clock(how)!Values(s.dow, 0, how.week) \subseteq 0..how.week
  BY DEF ClockSorts
<1>1. Clock(how)!Wildcard(s.dom) => dom
  BY <1>0, WildcardTakesAll
<1>2. Clock(how)!Wildcard(s.dow) => dow
  <2>1. Clock(how)!Wildcard(s.dow) => 0..how.week \subseteq Clock(how)!Values(s.dow, 0, how.week)
    BY <1>0, WildcardTakesAll
  <2>2. date.dow \in 0..how.week
    BY <1>0
  <2> QED
    BY <2>1, <2>2 DEF Clock!Weekdays
<1>3. dow <=> \E v \in Clock(how)!Values(s.dow, 0, how.week) : v % how.week = date.dow
  <2> DEFINE all == Clock(how)!Values(s.dow, 0, how.week)
  <2>1. \A v \in 0..how.week : v % how.week = IF v = how.week THEN 0 ELSE v
    BY <1>0, SMT
  <2>2. date.dow \in Nat /\ date.dow # how.week /\ date.dow \in 0..how.week
    BY <1>0
  <2>3. dow <=> date.dow \in all \/ (how.week \in all /\ date.dow = 0)
    BY DEF Clock!Weekdays
  <2>4. all \subseteq 0..how.week
    BY <1>0
  <2> HIDE DEF all
  <2>5. ASSUME dow PROVE \E v \in all : v % how.week = date.dow
    BY <2>1, <2>2, <2>3, <2>4, <2>5, <1>0
  <2>6. ASSUME NEW v \in all, v % how.week = date.dow PROVE dow
    BY <2>1, <2>2, <2>3, <2>4, <2>6, <1>0
  <2> QED
    BY <2>5, <2>6 DEF all
<1>4. Clock(how)!Fires(s, t) <=> /\ Clock(how)!MinuteOf(t) \in Clock(how)!Values(s.minute, 0, how.minutes - 1)
                                 /\ Clock(how)!HourOf(t) \in Clock(how)!Values(s.hour, 0, how.hours - 1)
                                 /\ date.month \in Clock(how)!Values(s.month, 1, how.months)
                                 /\ IF Clock(how)!Wildcard(s.dom) \/ Clock(how)!Wildcard(s.dow) THEN dom /\ dow ELSE dom \/ dow
  BY <1>3 DEF Clock!Fires
<1>5. Clock(how)!DayMatches(s, Clock(how)!DayOf(t)) <=>
        /\ date.month \in Clock(how)!Values(s.month, 1, how.months)
        /\ IF Clock(how)!Wildcard(s.dom) /\ Clock(how)!Wildcard(s.dow) THEN TRUE
           ELSE IF Clock(how)!Wildcard(s.dom) THEN dow
           ELSE IF Clock(how)!Wildcard(s.dow) THEN dom
           ELSE dom \/ dow
  BY DEF Clock!DayMatches
<1> HIDE DEF date, dom, dow
<1> QED
  BY <1>1, <1>2, <1>4, <1>5

\* What holds while the days are tried.
ClockInv(how) ==
  /\ schedule \in how.schedules /\ \E now \in how.instants : cursor = now + 1
  /\ day \in 0..how.window /\ next \in Nat \union {None, Never}
  /\ next = None => /\ day < how.window
                    /\ \A t \in Nat : cursor <= t /\ Clock(how)!DayOf(t) < Clock(how)!DayOf(cursor) + day => ~Clock(how)!Fires(schedule, t)
  /\ next \in Nat => /\ cursor <= next /\ Clock(how)!Fires(schedule, next)
                     /\ \A t \in Nat : cursor <= t /\ t < next => ~Clock(how)!Fires(schedule, t)
  /\ next = Never => \A t \in Nat : cursor <= t /\ Clock(how)!DayOf(t) < Clock(how)!DayOf(cursor) + how.window => ~Clock(how)!Fires(schedule, t)

\* The times of the day that is tried.
LEMMA TimesOf ==
  ASSUME NEW how, ClockSorts(how), ClockInv(how), NEW t
  PROVE  t \in Clock(how)!Times <=>
           /\ t \in Nat /\ cursor <= t /\ Clock(how)!DayOf(t) = Clock(how)!DayOf(cursor) + day
           /\ Clock(how)!MinuteOf(t) \in Clock(how)!Values(schedule.minute, 0, how.minutes - 1)
           /\ Clock(how)!HourOf(t) \in Clock(how)!Values(schedule.hour, 0, how.hours - 1)
<1> DEFINE ms == Clock(how)!Values(schedule.minute, 0, how.minutes - 1)
           hs == Clock(how)!Values(schedule.hour, 0, how.hours - 1)
           today == Clock(how)!DayOf(cursor) + day
           hour == IF day = 0 THEN Clock(how)!HourOf(cursor) ELSE 0
           minute == IF day = 0 THEN Clock(how)!MinuteOf(cursor) ELSE 0
           To(h, m) == Clock(how)!DayBegin(today) + h * how.minutes + m
           Ahead(h, m) == h >= hour /\ ~(h = hour /\ m < minute)
<1>0. /\ how.minutes \in Nat \ {0} /\ how.hours \in Nat \ {0} /\ cursor \in Nat /\ day \in Nat
      /\ ms \subseteq 0..(how.minutes - 1) /\ hs \subseteq 0..(how.hours - 1)
  BY DEF ClockSorts, ClockInv
<1>1. t \in Clock(how)!Times <=> \E h \in hs, m \in ms : Ahead(h, m) /\ t = To(h, m)
  <2>1. Clock(how)!Times = {Clock(how)!DayBegin(today) + at[1] * how.minutes + at[2] :
                   at \in {hm \in hs \X ms : hm[1] >= hour /\ ~(hm[1] = hour /\ hm[2] < minute)}}
    BY DEF Clock!Times
  <2>2. ASSUME t \in Clock(how)!Times PROVE \E h \in hs, m \in ms : Ahead(h, m) /\ t = To(h, m)
    <3>1. PICK at \in hs \X ms : /\ at[1] >= hour /\ ~(at[1] = hour /\ at[2] < minute)
                                 /\ t = Clock(how)!DayBegin(today) + at[1] * how.minutes + at[2]
      BY <2>1, <2>2
    <3>2. at[1] \in hs /\ at[2] \in ms
      OBVIOUS
    <3> QED
      BY <3>1, <3>2
  <2>3. ASSUME NEW h \in hs, NEW m \in ms, Ahead(h, m), t = To(h, m) PROVE t \in Clock(how)!Times
    <3>1. <<h, m>> \in {hm \in hs \X ms : hm[1] >= hour /\ ~(hm[1] = hour /\ hm[2] < minute)}
      BY <2>3
    <3> QED
      BY <2>1, <2>3, <3>1
  <2> QED
    BY <2>2, <2>3
<1>2. Clock(how)!DayOf(cursor) \in Nat /\ Clock(how)!HourOf(cursor) \in 0..(how.hours - 1) /\ Clock(how)!MinuteOf(cursor) \in 0..(how.minutes - 1)
      /\ cursor = Clock(how)!DayBegin(Clock(how)!DayOf(cursor)) + Clock(how)!HourOf(cursor) * how.minutes + Clock(how)!MinuteOf(cursor)
  BY <1>0, InstantIs
<1>3. ASSUME NEW h \in 0..(how.hours - 1), NEW m \in 0..(how.minutes - 1)
      PROVE  /\ To(h, m) \in Nat /\ Clock(how)!DayOf(To(h, m)) = today /\ Clock(how)!HourOf(To(h, m)) = h
             /\ Clock(how)!MinuteOf(To(h, m)) = m
             /\ Ahead(h, m) <=> cursor <= To(h, m)
  <2>1. today \in Nat
    BY <1>0, <1>2
  <2>2. /\ To(h, m) \in Nat /\ Clock(how)!DayOf(To(h, m)) = today /\ Clock(how)!HourOf(To(h, m)) = h
        /\ Clock(how)!MinuteOf(To(h, m)) = m
    BY <2>1, InstantOf
  <2>3. CASE day = 0
    <3>1. To(h, m) = Clock(how)!DayBegin(Clock(how)!DayOf(cursor)) + h * how.minutes + m
      BY <1>2, <2>3
    <3>2. hour = Clock(how)!HourOf(cursor) /\ minute = Clock(how)!MinuteOf(cursor)
      BY <2>3
    <3> DEFINE b == Clock(how)!DayBegin(Clock(how)!DayOf(cursor))
               x == Clock(how)!HourOf(cursor)
               y == Clock(how)!MinuteOf(cursor)
    <3>3. b \in Nat /\ x \in Nat /\ y \in 0..(how.minutes - 1) /\ cursor = b + x * how.minutes + y /\ h \in Nat
      BY <1>0, <1>2 DEF Clock!DayBegin
    <3>8. Ahead(h, m) <=> h >= x /\ ~(h = x /\ m < y)
      BY <3>2
    <3>9. (cursor <= To(h, m)) <=> (b + x * how.minutes + y <= b + h * how.minutes + m)
      BY <3>1, <3>3
    <3> HIDE DEF b, x, y, To, Ahead
    <3>4. x * how.minutes \in Nat /\ h * how.minutes \in Nat
      BY <1>0, <3>3
    <3>5. CASE h > x
      <4>1. x * how.minutes + how.minutes <= h * how.minutes
        BY <1>0, <3>3, <3>5, GrowsMore
      <4>2. b + x * how.minutes + y <= b + h * how.minutes + m
        BY <1>0, <3>3, <3>4, <4>1
      <4> QED
        BY <1>0, <2>2, <3>3, <3>5, <3>8, <3>9, <4>2
    <3>6. CASE h = x
      <4>1. (b + x * how.minutes + y <= b + h * how.minutes + m) <=> y <= m
        BY <1>0, <3>3, <3>4, <3>6
      <4> QED
        BY <1>0, <2>2, <3>3, <3>6, <3>8, <3>9, <4>1
    <3>7. CASE h < x
      <4>1. h * how.minutes + how.minutes <= x * how.minutes
        BY <1>0, <3>3, <3>7, GrowsMore
      <4>2. ~(b + x * how.minutes + y <= b + h * how.minutes + m)
        BY <1>0, <3>3, <3>4, <4>1
      <4> QED
        BY <1>0, <2>2, <3>3, <3>7, <3>8, <3>9, <4>2
    <3> QED
      BY <2>2, <3>3, <3>5, <3>6, <3>7
  <2>4. CASE day # 0
    <3>1. Ahead(h, m)
      BY <2>4
    <3>2. Clock(how)!DayOf(cursor) < today
      BY <1>0, <1>2, <2>4
    <3>3. cursor < Clock(how)!DayBegin(today)
      BY <1>0, <2>1, <3>2, DayOver
    <3>4. Clock(how)!DayBegin(today) \in Nat /\ h * how.minutes \in Nat /\ m \in Nat
      BY <1>0, <2>1 DEF Clock!DayBegin
    <3>5. \A a, b, c, d \in Nat : a < b => a <= b + c + d
      OBVIOUS
    <3>6. cursor <= To(h, m)
      BY <1>0, <3>3, <3>4, <3>5
    <3> QED
      BY <2>2, <3>1, <3>6
  <2> QED
    BY <2>2, <2>3, <2>4
<1>4. ASSUME t \in Nat, Clock(how)!DayOf(t) = today
      PROVE  /\ Clock(how)!HourOf(t) \in 0..(how.hours - 1) /\ Clock(how)!MinuteOf(t) \in 0..(how.minutes - 1)
             /\ t = To(Clock(how)!HourOf(t), Clock(how)!MinuteOf(t))
  BY <1>4, InstantIs
<1> HIDE DEF To, Ahead, today, ms, hs
<1>5. ASSUME NEW h \in hs, NEW m \in ms, Ahead(h, m), t = To(h, m)
      PROVE  t \in Nat /\ cursor <= t /\ Clock(how)!DayOf(t) = today /\ Clock(how)!MinuteOf(t) \in ms /\ Clock(how)!HourOf(t) \in hs
  BY <1>0, <1>3, <1>5
<1>6. ASSUME t \in Nat,
             cursor <= t, Clock(how)!DayOf(t) = today, Clock(how)!MinuteOf(t) \in ms, Clock(how)!HourOf(t) \in hs
      PROVE  \E h \in hs, m \in ms : Ahead(h, m) /\ t = To(h, m)
  BY <1>3, <1>4, <1>6
<1>7. t \in Clock(how)!Times <=> t \in Nat /\ cursor <= t /\ Clock(how)!DayOf(t) = today /\ Clock(how)!MinuteOf(t) \in ms /\ Clock(how)!HourOf(t) \in hs
  BY <1>1, <1>5, <1>6
<1> QED
  BY <1>7 DEF today, ms, hs

LEMMA ClockStarts == ASSUME NEW how, ClockSorts(how), Clock(how)!Init PROVE ClockInv(how)
<1>1. PICK now \in how.instants : cursor = now + 1
  BY DEF Clock!Init
<1>2. cursor \in Nat /\ Clock(how)!DayOf(cursor) \in Nat
  BY <1>1, InstantIs DEF ClockSorts
<1>3. \A t \in Nat : cursor <= t => ~(Clock(how)!DayOf(t) < Clock(how)!DayOf(cursor))
  <2> SUFFICES ASSUME NEW t \in Nat, cursor <= t, Clock(how)!DayOf(t) < Clock(how)!DayOf(cursor) PROVE FALSE
    OBVIOUS
  <2>1. t < Clock(how)!DayBegin(Clock(how)!DayOf(cursor)) /\ ~(cursor < Clock(how)!DayBegin(Clock(how)!DayOf(cursor)))
    BY <1>2, DayOver
  <2>2. Clock(how)!DayBegin(Clock(how)!DayOf(cursor)) \in Nat
    BY <1>2 DEF Clock!DayBegin, ClockSorts
  <2> QED
    BY <1>2, <2>1, <2>2
<1> QED
  BY <1>1, <1>2, <1>3 DEF Clock!Init, ClockInv, ClockSorts

\* The day that is tried is one of the Window days there is a date for.
LEMMA DayTried ==
  ASSUME NEW how, ClockSorts(how), ClockInv(how), NEW t \in Nat,
         Clock(how)!DayOf(t) = Clock(how)!DayOf(cursor) + day, day < how.window
  PROVE  Clock(how)!Fires(schedule, t) <=> /\ Clock(how)!MinuteOf(t) \in Clock(how)!Values(schedule.minute, 0, how.minutes - 1)
                                           /\ Clock(how)!HourOf(t) \in Clock(how)!Values(schedule.hour, 0, how.hours - 1)
                                           /\ Clock(how)!DayMatches(schedule, Clock(how)!DayOf(t))
<1>1. PICK now \in how.instants : cursor = now + 1
  BY DEF ClockInv
<1>2. day \in 0..(how.window - 1)
  BY DEF ClockInv, ClockSorts
<1>3. how.calendar[Clock(how)!DayOf(t)].dom \in 1..how.month /\ how.calendar[Clock(how)!DayOf(t)].dow \in 0..(how.week - 1)
  BY <1>1, <1>2 DEF ClockSorts
<1> QED
  BY <1>3, DayFires DEF ClockInv

LEMMA AnswerKeeps ==
  ASSUME NEW how, ClockSorts(how), ClockInv(how), NEW t, Clock(how)!Answer(t)
  PROVE  ClockInv(how)'
<1>1. /\ next = None /\ day < how.window /\ Clock(how)!DayMatches(schedule, Clock(how)!DayOf(cursor) + day)
      /\ t \in Clock(how)!Times /\ (\A other \in Clock(how)!Times : t <= other)
      /\ next' = t /\ UNCHANGED <<schedule, cursor, day>>
  BY DEF Clock!Answer, Clock!Trying
<1>2. /\ t \in Nat /\ cursor <= t /\ Clock(how)!DayOf(t) = Clock(how)!DayOf(cursor) + day
      /\ Clock(how)!MinuteOf(t) \in Clock(how)!Values(schedule.minute, 0, how.minutes - 1)
      /\ Clock(how)!HourOf(t) \in Clock(how)!Values(schedule.hour, 0, how.hours - 1)
  BY <1>1, TimesOf
<1>3. Clock(how)!Fires(schedule, t)
  BY <1>1, <1>2, DayTried
<1>4. ASSUME NEW u \in Nat, cursor <= u, u < t PROVE ~Clock(how)!Fires(schedule, u)
  <2>1. Clock(how)!DayOf(u) \in Nat /\ Clock(how)!DayOf(t) \in Nat
    BY <1>2, InstantIs
  <2>2. Clock(how)!DayOf(u) <= Clock(how)!DayOf(t)
    <3>1. t < Clock(how)!DayBegin(Clock(how)!DayOf(t) + 1)
      BY <1>2, <2>1, DayOver
    <3>2. Clock(how)!DayBegin(Clock(how)!DayOf(t) + 1) \in Nat
      BY <2>1 DEF Clock!DayBegin, ClockSorts
    <3>3. u < Clock(how)!DayBegin(Clock(how)!DayOf(t) + 1)
      BY <1>2, <1>4, <3>1, <3>2
    <3>4. Clock(how)!DayOf(u) < Clock(how)!DayOf(t) + 1
      BY <2>1, <3>3, DayOver
    <3> QED
      BY <2>1, <3>4
  <2>3. CASE Clock(how)!DayOf(u) < Clock(how)!DayOf(cursor) + day
    BY <1>1, <1>4, <2>3 DEF ClockInv
  <2>4. CASE Clock(how)!DayOf(u) = Clock(how)!DayOf(cursor) + day
    <3>1. u \notin Clock(how)!Times
      BY <1>1, <1>2, <1>4
    <3> QED
      BY <1>1, <1>4, <2>4, <3>1, TimesOf, DayTried
  <2> QED
    BY <1>2, <2>1, <2>2, <2>3, <2>4
<1>5. t # None /\ t # Never
  BY <1>2 DEF ClockSorts
<1>6. Clock(how)!Fires(schedule, next)' <=> Clock(how)!Fires(schedule, t)
  BY <1>1
<1>7. \A u : Clock(how)!Fires(schedule, u)' <=> Clock(how)!Fires(schedule, u)
  BY <1>1
<1> QED
  BY <1>1, <1>2, <1>3, <1>4, <1>5, <1>6, <1>7 DEF ClockInv

LEMMA NextDayKeeps ==
  ASSUME NEW how, ClockSorts(how), ClockInv(how), Clock(how)!NextDay
  PROVE  ClockInv(how)'
<1>1. /\ next = None /\ day < how.window /\ (Clock(how)!DayMatches(schedule, Clock(how)!DayOf(cursor) + day) => Clock(how)!Times = {})
      /\ day' = day + 1 /\ next' = (IF day' = how.window THEN Never ELSE next)
      /\ UNCHANGED <<schedule, cursor>>
  BY DEF Clock!NextDay, Clock!Trying
<1>2. day \in Nat /\ how.window \in Nat /\ cursor \in Nat /\ Clock(how)!DayOf(cursor) \in Nat
  BY InstantIs DEF ClockInv, ClockSorts
<1>3. ASSUME NEW t \in Nat, cursor <= t, Clock(how)!DayOf(t) < Clock(how)!DayOf(cursor) + (day + 1)
      PROVE  ~Clock(how)!Fires(schedule, t)
  <2>1. Clock(how)!DayOf(t) \in Nat
    BY InstantIs
  <2>2. CASE Clock(how)!DayOf(t) < Clock(how)!DayOf(cursor) + day
    BY <1>1, <1>3, <2>2 DEF ClockInv
  <2>3. CASE Clock(how)!DayOf(t) = Clock(how)!DayOf(cursor) + day
    BY <1>1, <1>3, <2>3, TimesOf, DayTried
  <2> QED
    BY <1>2, <1>3, <2>1, <2>2, <2>3
<1>4. CASE day + 1 = how.window
  BY <1>1, <1>2, <1>3, <1>4 DEF ClockInv, ClockSorts
<1>5. CASE day + 1 # how.window
  BY <1>1, <1>2, <1>3, <1>5 DEF ClockInv, ClockSorts
<1> QED
  BY <1>4, <1>5

LEMMA ClockNext ==
  ASSUME NEW how, ClockSorts(how), ClockInv(how), [Clock(how)!Next]_(Clock(how)!vars)
  PROVE  ClockInv(how)'
<1>1. CASE UNCHANGED Clock(how)!vars
  BY <1>1 DEF Clock!vars, ClockInv
<1>2. CASE Clock(how)!Next
  BY <1>2, AnswerKeeps, NextDayKeeps DEF Clock!Next
<1> QED
  BY <1>1, <1>2

LEMMA FirstShown == ASSUME NEW how, ClockSorts(how), ClockInv(how) PROVE Clock(how)!NextIsFirst
<1>0. cursor \in Nat /\ Clock(how)!DayOf(cursor) \in Nat /\ how.window \in Nat \ {0}
  BY InstantIs DEF ClockInv, ClockSorts
<1>1. ASSUME next \in Nat
      PROVE  /\ next >= cursor /\ Clock(how)!Fires(schedule, next)
             /\ \A t \in cursor..(next - 1) : ~Clock(how)!Fires(schedule, t)
  BY <1>0, <1>1 DEF ClockInv
<1>2. ASSUME next = Never,
             NEW t \in cursor..(cursor + (how.window - 1) * how.minutes * how.hours - 1)
      PROVE  ~Clock(how)!Fires(schedule, t)
  <2> DEFINE n == how.minutes * how.hours
             d == Clock(how)!DayOf(cursor)
             w == (how.window - 1) * n
  <2>1. n \in Nat /\ how.minutes \in Nat /\ how.hours \in Nat
    BY DEF ClockSorts
  <2>2. w \in Nat /\ (how.window - 1) * how.minutes * how.hours = w
    BY <1>0, <2>1
  <2>3. t \in Nat /\ t < cursor + w /\ cursor <= t
    BY <1>0, <1>2, <2>2
  <2>4. cursor < Clock(how)!DayBegin(d + 1) /\ Clock(how)!DayBegin(d + 1) \in Nat
    <3>1. Clock(how)!DayBegin(d + 1) \in Nat /\ d + 1 \in Nat /\ Clock(how)!DayOf(cursor) < d + 1
      BY <1>0, <2>1 DEF Clock!DayBegin
    <3> QED
      BY <1>0, <3>1, DayOver
  <2>5. Clock(how)!DayBegin(d + how.window) = Clock(how)!DayBegin(d + 1) + w
    <3>1. Clock(how)!DayBegin(d + how.window) = (d + how.window) * n /\ Clock(how)!DayBegin(d + 1) = (d + 1) * n
      BY <1>0, <2>1 DEF Clock!DayBegin
    <3>2. (d + how.window) * n = (d + 1) * n + (how.window - 1) * n
      BY <1>0, <2>1
    <3> QED
      BY <3>1, <3>2
  <2>6. t < Clock(how)!DayBegin(d + how.window)
    BY <1>0, <2>2, <2>3, <2>4, <2>5
  <2>7. Clock(how)!DayOf(t) < Clock(how)!DayOf(cursor) + how.window
    BY <1>0, <2>3, <2>6, DayOver
  <2> QED
    BY <1>2, <2>3, <2>7 DEF ClockInv
<1> QED
  BY <1>1, <1>2 DEF Clock!NextIsFirst

\* The next run shown is the first time the schedule fires, and none is shown only if it
\* does not fire within the days tried, for any schedules, instants and calendar.
THEOREM NextRunHolds ==
  ASSUME NEW how, ClockSorts(how)
  PROVE  Clock(how)!Spec => [](Clock(how)!TypeOK /\ Clock(how)!NextIsFirst)
<1> DEFINE Shown == Clock(how)!TypeOK /\ Clock(how)!NextIsFirst
<1>1. Clock(how)!Init => ClockInv(how)
  BY ClockStarts
<1>2. ClockInv(how) /\ [Clock(how)!Next]_(Clock(how)!vars) => ClockInv(how)'
  BY ClockNext
<1>3. ClockInv(how) => Shown
  BY FirstShown DEF ClockInv, Clock!TypeOK
<1> HIDE DEF Shown
<1>4. Clock(how)!Spec => []Shown
  BY <1>1, <1>2, <1>3, PTL DEF Clock!Spec
<1> QED
  BY <1>4 DEF Shown

\* What the calendar of short years needs of the values that stand for no instant.
LEMMA ShortSorts ==
  ASSUME Star \notin Nat, None \notin Nat, Never \notin Nat, None # Never
  PROVE  ClockSorts(ShortYears)
<1> DEFINE how == ShortYears
<1>0. /\ how.schedules = ShortSchedules /\ how.instants = 0..35 /\ how.minutes = 2 /\ how.hours = 2
      /\ how.week = 2 /\ how.months = 2 /\ how.month = 3 /\ how.window = 5
      /\ how.calendar = [d \in 0..14 |-> Date(d)]
  BY DEF ShortYears
<1>1. Star # 0 /\ \A v \in Nat : v # Star /\ v # None
  OBVIOUS
<1>2. ASSUME NEW v \in Nat, NEW max \in Nat, v <= max
      PROVE  Clock(how)!Values(Only(v), 0, max) \subseteq 0..max
  <2>1. Only(v) = <<P(v, None, None)>> /\ DOMAIN Only(v) = {1} /\ Only(v)[1] = P(v, None, None)
    BY DEF Only
  <2>2. Clock(how)!PartValues(P(v, None, None), 0, max) = {w \in v..v : (w - v) % 1 = 0}
    BY <1>1 DEF Clock!PartValues, P
  <2> QED
    BY <1>2, <2>1, <2>2 DEF Clock!Values
<1>3. ASSUME NEW max \in Nat
      PROVE  Clock(how)!Values(All, 0, max) \subseteq 0..max
  <2>1. All = <<P(Star, None, None)>> /\ DOMAIN All = {1} /\ All[1] = P(Star, None, None)
    BY DEF All
  <2>2. Clock(how)!PartValues(P(Star, None, None), 0, max) = {w \in 0..max : (w - 0) % 1 = 0}
    BY <1>1 DEF Clock!PartValues, P
  <2> QED
    BY <2>1, <2>2 DEF Clock!Values
<1>4. Clock(how)!Values(<<P(0, 1, None)>>, 0, 2) \subseteq 0..2
  <2> DEFINE f == <<P(0, 1, None)>>
  <2>1. DOMAIN f = {1} /\ f[1] = P(0, 1, None)
    OBVIOUS
  <2>2. Clock(how)!PartValues(P(0, 1, None), 0, 2) = {w \in 0..1 : (w - 0) % 1 = 0}
    BY <1>1 DEF Clock!PartValues, P
  <2> HIDE DEF f
  <2>3. Clock(how)!Values(f, 0, 2) \subseteq 0..2
    BY <2>1, <2>2 DEF Clock!Values
  <2> QED
    BY <2>3 DEF f
<1>5. ASSUME NEW s \in ShortSchedules
      PROVE  /\ Clock(how)!Values(s.minute, 0, 1) \subseteq 0..1
             /\ Clock(how)!Values(s.hour, 0, 1) \subseteq 0..1
             /\ Clock(how)!Values(s.dow, 0, 2) \subseteq 0..2
  <2>1. s.minute \in {All, Only(1)} /\ s.hour \in {Only(0)} /\ s.dow \in {All, Only(1), Only(2), <<P(0, 1, None)>>}
    BY DEF ShortSchedules
  <2> QED
    BY <2>1, <1>2, <1>3, <1>4
<1>6. ASSUME NEW now \in 0..35, NEW d \in 0..4
      PROVE  /\ how.calendar[Clock(how)!DayOf(now + 1) + d].dom \in 1..3
             /\ how.calendar[Clock(how)!DayOf(now + 1) + d].dow \in 0..1
  <2>1. Clock(how)!DayOf(now + 1) = (now + 1) \div 4
    BY <1>0 DEF Clock!DayOf
  <2>2. PICK x : x = Clock(how)!DayOf(now + 1) + d
    OBVIOUS
  <2>3. x \in 0..14
    BY <2>1, <2>2
  <2>4. how.calendar[x] = Date(x)
    BY <1>0, <2>3
  <2>5. Date(x).dom \in 1..3 /\ Date(x).dow \in 0..1
    BY <2>3 DEF Date
  <2> QED
    BY <2>2, <2>4, <2>5
<1>7. /\ how.minutes \in Nat \ {0} /\ how.hours \in Nat \ {0} /\ how.week \in Nat \ {0}
      /\ how.month \in Nat \ {0} /\ how.window \in Nat \ {0} /\ how.instants \subseteq Nat
  BY <1>0
<1>8. ASSUME NEW s \in how.schedules
      PROVE  /\ Clock(how)!Values(s.minute, 0, how.minutes - 1) \subseteq 0..(how.minutes - 1)
             /\ Clock(how)!Values(s.hour, 0, how.hours - 1) \subseteq 0..(how.hours - 1)
             /\ Clock(how)!Values(s.dow, 0, how.week) \subseteq 0..how.week
  <2>1. how.minutes - 1 = 1 /\ how.hours - 1 = 1 /\ how.week = 2
    BY <1>0
  <2>2. s \in ShortSchedules
    BY <1>0, <1>8
  <2> QED
    BY <2>1, <2>2, <1>5
<1>9. ASSUME NEW now \in how.instants, NEW d \in 0..(how.window - 1)
      PROVE  /\ how.calendar[Clock(how)!DayOf(now + 1) + d].dom \in 1..how.month
             /\ how.calendar[Clock(how)!DayOf(now + 1) + d].dow \in 0..(how.week - 1)
  <2>1. how.window - 1 = 4 /\ how.month = 3 /\ how.week - 1 = 1 /\ how.instants = 0..35
    BY <1>0
  <2> QED
    BY <2>1, <1>6
<1> HIDE DEF how
<1> QED
  BY <1>7, <1>8, <1>9 DEF ClockSorts, how

-----------------------------------------------------------------------------
(* The components side by side: a behaviour of MCComponents follows one of *)
(* them, chosen at first, so what holds of that component holds of it.     *)

\* The setting of a project, as its own theorems speak of it.
SettingProof == INSTANCE SettingSync_proofs WITH
  Initial <- v0, Refused <- Strict \X Outsize, Apart <- TRUE, AnswersLost <- TRUE

\* They speak of the same steps and the same properties.
LEMMA SameSetting ==
  /\ Setting!Init <=> SettingProof!Init
  /\ Setting!Next <=> SettingProof!Next
  /\ Setting!vars = SettingProof!vars
  /\ Setting!TypeOK <=> SettingProof!TypeOK
  /\ Setting!ValueIsOwed <=> SettingProof!ValueIsOwed
  /\ Setting!OneRowPerHarbor <=> SettingProof!OneRowPerHarbor
  BY DEF Setting!Cardinality, SettingProof!Cardinality,
     Setting!Accepts, SettingProof!Accepts, Setting!Answer, SettingProof!Answer,
     Setting!Change, SettingProof!Change, Setting!ChangeDone, SettingProof!ChangeDone,
     Setting!EnqueueGrant, SettingProof!EnqueueGrant, Setting!EnqueueOnce,
     SettingProof!EnqueueOnce, Setting!EnqueueRead, SettingProof!EnqueueRead,
     Setting!EnqueueRemoval, SettingProof!EnqueueRemoval, Setting!EnqueueWrite,
     SettingProof!EnqueueWrite, Setting!FanOutFailed, SettingProof!FanOutFailed,
     Setting!FanOutReached, SettingProof!FanOutReached, Setting!FanOutRefused,
     SettingProof!FanOutRefused, Setting!FannedOut, SettingProof!FannedOut, Setting!Hand,
     SettingProof!Hand, Setting!Handler, SettingProof!Handler, Setting!IdleHand,
     SettingProof!IdleHand, Setting!IdlePass, SettingProof!IdlePass, Setting!Init,
     SettingProof!Init, Setting!IsOldest, SettingProof!IsOldest, Setting!Kind,
     SettingProof!Kind, Setting!Next, SettingProof!Next, Setting!OneRowPerHarbor,
     SettingProof!OneRowPerHarbor, Setting!Op, SettingProof!Op, Setting!Owed,
     SettingProof!Owed, Setting!Pass, SettingProof!Pass, Setting!PassCall,
     SettingProof!PassCall, Setting!PassDelete, SettingProof!PassDelete, Setting!PassEnds,
     SettingProof!PassEnds, Setting!PassPush, SettingProof!PassPush, Setting!PassPushFails,
     SettingProof!PassPushFails, Setting!PassStart, SettingProof!PassStart,
     Setting!PassTake, SettingProof!PassTake, Setting!Record, SettingProof!Record,
     Setting!Recorded, SettingProof!Recorded, Setting!Refuses, SettingProof!Refuses,
     Setting!Replay, SettingProof!Replay, Setting!Retains, SettingProof!Retains,
     Setting!RollBack, SettingProof!RollBack, Setting!RollsBack, SettingProof!RollsBack,
     Setting!Row, SettingProof!Row, Setting!Serving, SettingProof!Serving, Setting!Setting,
     SettingProof!Setting, Setting!Subject, SettingProof!Subject, Setting!TypeOK,
     SettingProof!TypeOK, Setting!Unmanaged, SettingProof!Unmanaged, Setting!ValueIsOwed,
     SettingProof!ValueIsOwed, Setting!vars, SettingProof!vars

\* What the constants of the components have to be.
Sorts ==
  /\ SettingProof!Sorts /\ CopySorts /\ MirrorSorts
  /\ RequestSorts(Decide) /\ RequestSorts(Race)
  /\ BuildSorts(Publish) /\ BuildSorts(Revise) /\ BuildSorts(Realign)
  /\ Star \notin Nat /\ None \notin Nat /\ Never \notin Nat /\ None # Never

Components ==
  {"setting", "copies", "publish", "revise", "realign", "decide", "race", "mirror", "clock"}

\* The component a behaviour follows stays the same, and moves as it does on its own.
LEMMA Follows ==
  ASSUME [Next]_vars
  PROVE  /\ part' = part
         /\ part = "setting" => [SettingProof!Next]_(SettingProof!vars)
         /\ part = "copies" => [Copies!Next]_(Copies!vars)
         /\ part = "decide" => [Review(Decide)!Next]_(Review(Decide)!vars)
         /\ part = "race" => [Review(Race)!Next]_(Review(Race)!vars)
         /\ part = "mirror" => [Mirror!Next]_(Mirror!vars)
         /\ part = "publish" => [Build(Publish)!Next]_(Build(Publish)!vars)
         /\ part = "revise" => [Build(Revise)!Next]_(Build(Revise)!vars)
         /\ part = "realign" => [Build(Realign)!Next]_(Build(Realign)!vars)
         /\ part = "clock" => [Clock(ShortYears)!Next]_(Clock(ShortYears)!vars)
<1>1. CASE UNCHANGED vars
  BY <1>1 DEF vars, settingVars, copyVars, requestVars, mirrorVars, buildVars, clockVars,
     SettingProof!vars, Copies!vars, Review!vars, Mirror!vars, Build!vars, Build!cluster, Clock!vars
<1>2. CASE Next
  <2>1. CASE SettingStep
    BY <2>1, SameSetting DEF SettingStep
  <2>2. CASE CopyStep(Copies!Next)
    BY <2>2 DEF CopyStep
  <2>3. CASE BuildStep(Build(Publish)!Next, Build(Revise)!Next /\ ~healthy', Build(Realign)!Next)
    BY <2>3 DEF BuildStep
  <2>4. CASE RequestStep
    BY <2>4 DEF RequestStep
  <2>5. CASE MirrorStep
    BY <2>5 DEF MirrorStep
  <2>6. CASE ClockStep
    BY <2>6 DEF ClockStep
  <2> QED
    BY <1>2, <2>1, <2>2, <2>3, <2>4, <2>5, <2>6 DEF Next
<1> QED
  BY <1>1, <1>2

\* A behaviour begins as that of one component.
LEMMA Begins ==
  ASSUME Init
  PROVE  /\ part = "setting" => SettingProof!Init
         /\ part = "copies" => Copies!Init
         /\ part = "decide" => Review(Decide)!Init
         /\ part = "race" => Review(Race)!Init
         /\ part = "mirror" => Mirror!Init
         /\ part = "publish" => Build(Publish)!Init
         /\ part = "revise" => Build(Revise)!Init
         /\ part = "realign" => Build(Realign)!Init
         /\ part = "clock" => Clock(ShortYears)!Init
  BY SameSetting DEF Init

\* A Harbor that does not enforce the setting shown is owed it, once, or refused it: for
\* any Harbors, values and number of changes.
THEOREM SettingIsOwedHolds == ASSUME Sorts PROVE FairSpec => []SettingIsOwed
<1>1. Init /\ part = "setting" => SettingProof!Init
  BY Begins
<1>2. [Next]_vars /\ part = "setting" => (part = "setting")' /\ [SettingProof!Next]_(SettingProof!vars)
  BY Follows
<1>3. [Next]_vars /\ ~(part = "setting") => ~(part = "setting")'
  BY Follows
<1>4. SettingProof!Spec => []SettingProof!ValueIsOwed
  BY SettingProof!ValueHolds DEF Sorts
<1>5. SettingProof!Spec => []SettingProof!OneRowPerHarbor
  BY SettingProof!OneRowHolds DEF Sorts
<1>6. SettingProof!ValueIsOwed /\ SettingProof!OneRowPerHarbor => SettingIsOwed
  BY SameSetting DEF SettingIsOwed
<1>7. ~(part = "setting") => SettingIsOwed
  BY DEF SettingIsOwed
<1> QED
  BY <1>1, <1>2, <1>3, <1>4, <1>5, <1>6, <1>7, PTL DEF FairSpec, SettingProof!Spec

\* The worker has one copy of the policy under way, for any number of executions.
THEOREM OneCopyAtATimeHolds == ASSUME Sorts PROVE FairSpec => []OneCopyAtATime
<1>1. Init /\ part = "copies" => Copies!Init
  BY Begins
<1>2. [Next]_vars /\ part = "copies" => (part = "copies")' /\ [Copies!Next]_(Copies!vars)
  BY Follows
<1>3. [Next]_vars /\ ~(part = "copies") => ~(part = "copies")'
  BY Follows
<1>4. Copies!Spec => []Copies!OneCopyAtATime
  BY OneCopyHolds DEF Sorts
<1>5. Copies!OneCopyAtATime \/ ~(part = "copies") => OneCopyAtATime
  BY DEF OneCopyAtATime
<1> QED
  BY <1>1, <1>2, <1>3, <1>4, <1>5, PTL DEF FairSpec, Copies!Spec

\* A catch-up request that is no longer recorded was met, whatever fails.
THEOREM CopyIsOwedHolds == ASSUME Sorts PROVE FairSpec => []CopyIsOwed
<1>1. Init /\ part = "copies" => Copies!Init
  BY Begins
<1>2. [Next]_vars /\ part = "copies" => (part = "copies")' /\ [Copies!Next]_(Copies!vars)
  BY Follows
<1>3. [Next]_vars /\ ~(part = "copies") => ~(part = "copies")'
  BY Follows
<1>4. Copies!Spec => []Copies!CopyIsOwed
  BY CopyHolds DEF Sorts
<1>5. Copies!CopyIsOwed \/ ~(part = "copies") => CopyIsOwed
  BY DEF CopyIsOwed
<1> QED
  BY <1>1, <1>2, <1>3, <1>4, <1>5, PTL DEF FairSpec, Copies!Spec

\* What is shown as approved was carried out, whatever overlaps; what is shown as rejected
\* was not, and one request of a kind is shown, when decisions are kept apart: for any
\* number of people, of requests and of handlers that die.
THEOREM DecisionsHold == ASSUME Sorts PROVE FairSpec => []DecisionsAreTrue
<1> DEFINE Decided == Review(Decide)!ApprovedIsDone /\ Review(Decide)!RejectedIsNotDone
                      /\ Review(Decide)!OnePending
           DecidedInv == ApprovedInv(Decide) /\ ApartInv(Decide)
           Raced == Review(Race)!ApprovedIsDone
<1>1. /\ Init /\ part = "decide" => Review(Decide)!Init
      /\ Init /\ part = "race" => Review(Race)!Init
  BY Begins
<1>2. [Next]_vars /\ part = "decide" => (part = "decide")' /\ [Review(Decide)!Next]_(Review(Decide)!vars)
  BY Follows
<1>3. [Next]_vars /\ part = "race" => (part = "race")' /\ [Review(Race)!Next]_(Review(Race)!vars)
  BY Follows
<1>4. /\ [Next]_vars /\ ~(part = "decide") => ~(part = "decide")'
      /\ [Next]_vars /\ ~(part = "race") => ~(part = "race")'
  BY Follows
<1>5. /\ Review(Decide)!Init => DecidedInv
      /\ DecidedInv /\ [Review(Decide)!Next]_(Review(Decide)!vars) => DecidedInv'
      /\ DecidedInv => Decided
  <2>1. RequestSorts(Decide) /\ Decide.apart
    BY DEF Sorts, Decide
  <2>2. Review(Decide)!Init => DecidedInv
    BY <2>1, ApprovedInit, ApartInit
  <2>3. DecidedInv /\ [Review(Decide)!Next]_(Review(Decide)!vars) => DecidedInv'
    BY <2>1, ApprovedNext, ApartNext
  <2>4. DecidedInv => Decided
    BY <2>1, ApprovedShown, RejectedShown, OneShown
  <2> QED
    BY <2>2, <2>3, <2>4
<1>6. /\ Review(Race)!Init => ApprovedInv(Race)
      /\ ApprovedInv(Race) /\ [Review(Race)!Next]_(Review(Race)!vars) => ApprovedInv(Race)'
      /\ ApprovedInv(Race) => Raced
  <2>1. RequestSorts(Race)
    BY DEF Sorts
  <2>2. Review(Race)!Init => ApprovedInv(Race)
    BY <2>1, ApprovedInit
  <2>3. ApprovedInv(Race) /\ [Review(Race)!Next]_(Review(Race)!vars) => ApprovedInv(Race)'
    BY <2>1, ApprovedNext
  <2>4. ApprovedInv(Race) => Raced
    BY <2>1, ApprovedShown
  <2> QED
    BY <2>2, <2>3, <2>4
<1>7. (part = "decide" => Decided) /\ (part = "race" => Raced) => DecisionsAreTrue
  BY DEF DecisionsAreTrue
<1>8. FairSpec => [](part = "decide" => Decided)
  <2> HIDE DEF Decided, DecidedInv
  <2> QED
    BY <1>1, <1>2, <1>4, <1>5, PTL DEF FairSpec
<1>9. FairSpec => [](part = "race" => Raced)
  <2> HIDE DEF Raced
  <2> QED
    BY <1>1, <1>3, <1>4, <1>6, PTL DEF FairSpec
<1> QED
  BY <1>7, <1>8, <1>9, PTL

\* The builds that are followed are builds, and the calendar is one.
LEMMA BuildParts ==
  /\ Sorts => /\ BuildSorts(Publish) /\ BuildSorts(Revise) /\ BuildSorts(Realign)
              /\ ClockSorts(ShortYears)
  /\ Publish.slots = 1..2
  BY ShortSorts DEF Sorts, Publish

\* Two pods of a build never publish at the same time, whatever the collector, the
\* controllers and the pods do in between.
THEOREM OnePublisherHolds == ASSUME Sorts PROVE FairSpec => []OnePublisher
<1> DEFINE Inv == BuildInv(Publish)
<1>1. Init /\ part = "publish" => Inv
  BY Begins, BuildStarts, BuildParts
<1>2. [Next]_vars /\ part = "publish" /\ Inv => (part = "publish")' /\ Inv'
  BY Follows, BuildNext, BuildParts
<1>3. [Next]_vars /\ ~(part = "publish") => ~(part = "publish")'
  BY Follows
<1>4. (part = "publish" => Inv) => OnePublisher
  BY BuildShows, BuildParts DEF OnePublisher
<1> QED
  <2> HIDE DEF Inv
  <2> QED
    BY <1>1, <1>2, <1>3, <1>4, PTL DEF FairSpec

\* A publication that was seen to succeed stays so.
THEOREM SuccessIsKeptHolds == ASSUME Sorts PROVE FairSpec => SuccessIsKept
<1> DEFINE Inv == BuildInv(Publish)
           Kept == part = "publish" =>
             \A s \in 1..2 : runs[s] = "succeeded" /\ job[s] # Build(Publish)!NoJob /\ row' # None
               => runs'[s] = "succeeded"
<1>1. Init /\ part = "publish" => Inv
  BY Begins, BuildStarts, BuildParts
<1>2. [Next]_vars /\ part = "publish" /\ Inv => (part = "publish")' /\ Inv'
  BY Follows, BuildNext, BuildParts
<1>3. [Next]_vars /\ ~(part = "publish") => ~(part = "publish")'
  BY Follows
<1>4. [Next]_vars /\ (part = "publish" => Inv) => [Kept]_vars
  <2> SUFFICES ASSUME [Next]_vars, Inv, part = "publish", NEW s \in 1..2, runs[s] = "succeeded",
                      job[s] # Build(Publish)!NoJob, row' # None
               PROVE  runs'[s] = "succeeded"
    OBVIOUS
  <2>1. [Build(Publish)!Next]_(Build(Publish)!vars)
    BY Follows
  <2> QED
    BY <2>1, SuccessStays, BuildParts
<1>5. FairSpec => [][Kept]_vars
  <2> HIDE DEF Inv, Kept
  <2> QED
    BY <1>1, <1>2, <1>3, <1>4, PTL DEF FairSpec
<1> QED
  BY <1>5 DEF SuccessIsKept

\* A build that is applied again keeps its invariant.
LEMMA RevisedHolds == ASSUME Sorts PROVE FairSpec => [](part = "revise" => BuildInv(Revise))
<1> DEFINE Inv == BuildInv(Revise)
<1>1. Init /\ part = "revise" => Inv
  BY Begins, BuildStarts, BuildParts
<1>2. [Next]_vars /\ part = "revise" /\ Inv => (part = "revise")' /\ Inv'
  BY Follows, BuildNext, BuildParts
<1>3. [Next]_vars /\ ~(part = "revise") => ~(part = "revise")'
  BY Follows
<1>4. FairSpec => [](part = "revise" => Inv)
  <2> HIDE DEF Inv
  <2> QED
    BY <1>1, <1>2, <1>3, PTL DEF FairSpec
<1> QED
  BY <1>4

\* No Job waits for a Secret that was collected or removed, unless its revision was
\* installed, shown as not applied and overtaken by a later one.
THEOREM SecretIsThereHolds == ASSUME Sorts PROVE FairSpec => []SecretIsThere
<1>1. (part = "revise" => BuildInv(Revise)) => SecretIsThere
  BY BuildShows, BuildParts DEF SecretIsThere
<1> QED
  BY <1>1, RevisedHolds, PTL

\* A build that is gone has left nothing in the cluster.
THEOREM NothingLeftHolds == ASSUME Sorts PROVE FairSpec => []NothingLeft
<1>1. (part = "revise" => BuildInv(Revise)) => NothingLeft
  BY BuildShows, BuildParts DEF NothingLeft
<1> QED
  BY <1>1, RevisedHolds, PTL

\* The mirror of a behaviour keeps what its own theorems say of it.
LEMMA MirrorFollowed ==
  ASSUME Sorts
  PROVE  FairSpec => [](part = "mirror" => Mirror!TypeOK /\ Mirror!OneSchedule /\ Mirror!AppliedIsInstalled)
<1>1. Init /\ part = "mirror" => Mirror!Init
  BY Begins
<1>2. [Next]_vars /\ part = "mirror" => (part = "mirror")' /\ [Mirror!Next]_(Mirror!vars)
  BY Follows
<1>3. [Next]_vars /\ ~(part = "mirror") => ~(part = "mirror")'
  BY Follows
<1>4. /\ Mirror!Spec => []Mirror!TypeOK
      /\ Mirror!Spec => []Mirror!OneSchedule
      /\ Mirror!Spec => []Mirror!AppliedIsInstalled
  BY MirrorTypes, OneScheduleHolds, AppliedHolds DEF Sorts
<1> QED
  BY <1>1, <1>2, <1>3, <1>4, PTL DEF FairSpec, Mirror!Spec

\* The clock of a behaviour keeps its invariant.
LEMMA ClockFollowed == ASSUME Sorts PROVE FairSpec => [](part = "clock" => ClockInv(ShortYears))
<1> DEFINE Inv == ClockInv(ShortYears)
<1>1. Init /\ part = "clock" => Inv
  BY Begins, ClockStarts, BuildParts
<1>2. [Next]_vars /\ part = "clock" /\ Inv => (part = "clock")' /\ Inv'
  BY Follows, ClockNext, BuildParts
<1>3. [Next]_vars /\ ~(part = "clock") => ~(part = "clock")'
  BY Follows
<1>4. FairSpec => [](part = "clock" => Inv)
  <2> HIDE DEF Inv
  <2> QED
    BY <1>1, <1>2, <1>3, PTL DEF FairSpec
<1> QED
  BY <1>4

\* The schedule shown is the one that fires: of a mirror, but for what overlapping requests
\* have left, of a build that was paused, and the next run that is shown.
THEOREM ScheduleIsTrueHolds == ASSUME Sorts PROVE FairSpec => []ScheduleIsTrue
<1>1. /\ part = "mirror" => Mirror!TypeOK /\ Mirror!OneSchedule /\ Mirror!AppliedIsInstalled
      /\ part = "revise" => BuildInv(Revise)
      /\ part = "clock" => ClockInv(ShortYears)
      => ScheduleIsTrue
  BY BuildShows, FirstShown, BuildParts DEF ScheduleIsTrue
<1> QED
  BY <1>1, MirrorFollowed, RevisedHolds, ClockFollowed, PTL

\* Each component's variables stay in their ranges.
THEOREM TypesHold == ASSUME Sorts PROVE FairSpec => []TypeOK
<1> DEFINE Builds1 == /\ part = "publish" => BuildInv(Publish)
                      /\ part = "realign" => BuildInv(Realign)
           Decided == part = "decide" => RequestTypeInv(Decide)
           Raced == part = "race" => RequestTypeInv(Race)
<1>1. Init => Builds1 /\ Decided /\ Raced
  <2>1. RequestSorts(Decide) /\ RequestSorts(Race)
    BY DEF Sorts
  <2> QED
    BY <2>1, Begins, BuildStarts, BuildParts, RequestTypeInit
<1>2. [Next]_vars /\ Builds1 /\ Decided /\ Raced => Builds1' /\ Decided' /\ Raced'
  <2> SUFFICES ASSUME [Next]_vars, Builds1, Decided, Raced
               PROVE  Builds1' /\ Decided' /\ Raced'
    OBVIOUS
  <2>1. RequestSorts(Decide) /\ RequestSorts(Race)
    BY DEF Sorts
  <2>2. Builds1'
    BY Follows, BuildNext, BuildParts
  <2>3. Decided' /\ Raced'
    BY <2>1, Follows, RequestTypeNext
  <2> QED
    BY <2>2, <2>3
<1>3. FairSpec => [](Builds1 /\ Decided /\ Raced)
  <2> HIDE DEF Builds1, Decided, Raced
  <2> QED
    BY <1>1, <1>2, PTL DEF FairSpec
<1>4. FairSpec => [](part = "setting" => Setting!TypeOK)
  <2>1. Init /\ part = "setting" => SettingProof!Init
    BY Begins
  <2>2. [Next]_vars /\ part = "setting" => (part = "setting")' /\ [SettingProof!Next]_(SettingProof!vars)
    BY Follows
  <2>3. [Next]_vars /\ ~(part = "setting") => ~(part = "setting")'
    BY Follows
  <2>4. SettingProof!Spec => []SettingProof!TypeOK
    BY SettingProof!TypeCorrect DEF Sorts
  <2>5. SettingProof!TypeOK => Setting!TypeOK
    BY SameSetting
  <2> QED
    BY <2>1, <2>2, <2>3, <2>4, <2>5, PTL DEF FairSpec, SettingProof!Spec
<1>5. FairSpec => [](part = "copies" => Copies!TypeOK)
  <2>1. Init /\ part = "copies" => Copies!Init
    BY Begins
  <2>2. [Next]_vars /\ part = "copies" => (part = "copies")' /\ [Copies!Next]_(Copies!vars)
    BY Follows
  <2>3. [Next]_vars /\ ~(part = "copies") => ~(part = "copies")'
    BY Follows
  <2>4. Copies!Spec => []Copies!TypeOK
    BY CopyTypes DEF Sorts
  <2> QED
    BY <2>1, <2>2, <2>3, <2>4, PTL DEF FairSpec, Copies!Spec
<1>6. FairSpec => [](part \in Components)
  <2>1. Init => part \in Components
    BY DEF Init, Components
  <2>2. [Next]_vars /\ part \in Components => (part \in Components)'
    BY Follows
  <2> QED
    BY <2>1, <2>2, PTL DEF FairSpec
<1>7. /\ Builds1 /\ Decided /\ Raced
      /\ part = "setting" => Setting!TypeOK
      /\ part = "copies" => Copies!TypeOK
      /\ part = "mirror" => Mirror!TypeOK /\ Mirror!OneSchedule /\ Mirror!AppliedIsInstalled
      /\ part = "revise" => BuildInv(Revise)
      /\ part = "clock" => ClockInv(ShortYears)
      /\ part \in Components
      => TypeOK
  <2> SUFFICES ASSUME Builds1, Decided, Raced,
                      part = "setting" => Setting!TypeOK, part = "copies" => Copies!TypeOK,
                      part = "mirror" => Mirror!TypeOK,
                      part = "revise" => BuildInv(Revise),
                      part = "clock" => ClockInv(ShortYears), part \in Components
               PROVE  TypeOK
    OBVIOUS
  <2>1. /\ part = "publish" => Build(Publish)!TypeOK
        /\ part = "realign" => Build(Realign)!TypeOK
    BY BuildShows, BuildParts
  <2>2. part = "revise" => Build(Revise)!TypeOK
    BY BuildShows, BuildParts
  <2>3. part = "decide" => Review(Decide)!TypeOK
    BY DEF RequestTypeInv, Review!TypeOK, RequestHand, Request, Statuses
  <2>4. part = "race" => Review(Race)!TypeOK
    BY DEF RequestTypeInv, Review!TypeOK, RequestHand, Request, Statuses
  <2>5. part = "clock" => Clock(ShortYears)!TypeOK
    BY DEF ClockInv, Clock!TypeOK
  <2> HIDE DEF Builds1, Decided, Raced
  <2> QED
    BY <2>1, <2>2, <2>3, <2>4, <2>5 DEF TypeOK, Components
<1> QED
  <2> HIDE DEF Builds1, Decided, Raced
  <2> QED
    BY <1>3, <1>4, <1>5, <1>6, <1>7, MirrorFollowed, RevisedHolds, ClockFollowed, PTL

=============================================================================
