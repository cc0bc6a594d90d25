--------------------------- MODULE TransferPromise ---------------------------
(***************************************************************************)
(* What a transfer request promises, whatever its handlers do: a decision  *)
(* is taken once, a rejected request never copies anything, and the result *)
(* recorded for a destination is final and is what the copy really did.    *)
(***************************************************************************)
CONSTANT Target

VARIABLES
  decision,   \* "open", "approved" or "rejected"
  result,     \* what is recorded of each destination
  delivered   \* whether the image has reached the destination

promiseVars == <<decision, result, delivered>>

PInit ==
  /\ decision = "open"
  /\ result = [t \in Target |-> "PENDING"]
  /\ delivered = [t \in Target |-> FALSE]

\* The launch answers for a destination: started, or failed at once.
Launch(t) ==
  /\ decision # "rejected" /\ result[t] = "PENDING"
  /\ \E r \in {"RUNNING", "FAILED"} :
       /\ r = "FAILED" => ~delivered[t]
       /\ result' = [result EXCEPT ![t] = r]
  /\ decision' = "approved"
  /\ UNCHANGED delivered

Reject ==
  /\ decision = "open" /\ \A t \in Target : ~delivered[t]
  /\ decision' = "rejected"
  /\ result' = [t \in Target |-> "REJECTED"]
  /\ UNCHANGED delivered

Deliver(t) ==
  /\ decision # "rejected" /\ result[t] \in {"PENDING", "RUNNING"}
  /\ delivered' = [delivered EXCEPT ![t] = TRUE]
  /\ UNCHANGED <<decision, result>>

Settle(t) ==
  /\ result[t] = "RUNNING"
  /\ result' = [result EXCEPT ![t] = IF delivered[t] THEN "SUCCEEDED" ELSE "FAILED"]
  /\ UNCHANGED <<decision, delivered>>

PNext ==
  \/ Reject
  \/ \E t \in Target : Launch(t) \/ Deliver(t) \/ Settle(t)

Promise == PInit /\ [][PNext]_promiseVars

=============================================================================
