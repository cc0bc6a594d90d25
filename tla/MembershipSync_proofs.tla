------------------------ MODULE MembershipSync_proofs ------------------------
(***************************************************************************)
(* What holds of the grants of a project for any number of Harbors, people *)
(* and handlers.                                                           *)
(***************************************************************************)
EXTENDS MembershipSync, FiniteSetTheorems, TLAPS

-----------------------------------------------------------------------------
(* Types.                                                                  *)

\* A row about a grant names a person; a row about the project names nobody.
GoodOp == {op \in Op : IF op.kind \in Grants THEN op.key \in User ELSE op.key = None}

\* What a handler knows at each of its steps.
HandOK(hd) ==
  /\ hd \in Hand
  /\ hd.pc = "idle" => hd = IdleHand
  /\ hd.pc # "idle" => hd.user \in User
  /\ hd.pc \in {"upsert", "load", "forget", "unrow"} => hd.kind = "MEMBER_ADD"
  /\ hd.pc = "upsert" => hd.role \in Role
  /\ hd.pc \in {"fanout", "enqueue"} =>
       IF hd.kind = "MEMBER_ADD" THEN hd.want \in Role ELSE hd.want = None
  /\ hd.pc = "enqueue" => hd.at \in Harbor
  /\ hd.pc # "enqueue" => hd.at = None /\ hd.seen = {}
  /\ hd.seen \subseteq GoodOp

\* What the pass knows at each of its steps.
PassOK(ps) ==
  /\ ps \in Pass
  /\ ps.pc # "idle" => ps.registry \in Harbor
  /\ ps.pc \in {"idle", "next"} => ps.at = None
  /\ ps.pc \in {"call", "members", "delete"} => ps.at \in ps.ops
  /\ \A op \in ps.ops : op \in GoodOp /\ op.registry = ps.registry
  /\ ps.pc = "call" => IF ps.at.kind = "MEMBER_ADD" THEN ps.want \in Role ELSE ps.want = None
  /\ ps.pc = "members" => ps.at.kind = "PROJECT_CREATE"

TypeInv ==
  /\ TypeOK
  /\ queue \subseteq GoodOp
  /\ \A m \in Manager : HandOK(hand[m])
  /\ PassOK(pass)

\* Nobody's and nothing's handler.
LEMMA IdleOK == HandOK(IdleHand)
  BY MembershipAssumption DEF HandOK, Hand, IdleHand, Grants

\* One handler moves.
LEMMA HandMoves ==
  ASSUME TypeInv, NEW m \in Manager, NEW hd, HandOK(hd), hand' = [hand EXCEPT ![m] = hd]
  PROVE  hand' \in [Manager -> Hand] /\ \A n \in Manager : HandOK(hand'[n])
  BY DEF TypeInv, TypeOK, HandOK

\* A handler that answers, or rolls a creation back.
LEMMA RollBackMoves ==
  ASSUME TypeInv, NEW m \in Manager, RollBackCreation(m), hand[m].kind = "MEMBER_ADD",
         hand[m].pc # "idle"
  PROVE  hand' \in [Manager -> Hand] /\ \A n \in Manager : HandOK(hand'[n])
<1> DEFINE hd == IF hand[m].had THEN IdleHand
                 ELSE [hand[m] EXCEPT !.pc = "forget", !.at = None, !.seen = {}]
<1>1. hand' = [hand EXCEPT ![m] = hd]
  BY DEF RollBackCreation
<1>2. HandOK(hand[m])
  BY DEF TypeInv
<1>3. HandOK(hd)
  BY <1>2, IdleOK DEF HandOK, Hand, IdleHand
<1> QED
  BY <1>1, <1>3, HandMoves

\* A handler's step keeps the types.
LEMMA TypeHandler ==
  ASSUME TypeInv, NEW m \in Manager,
         \/ \E u \in User : Remove(m, u) \/ \E r \in Role : Save(m, u, r)
         \/ Handler(m) \/ Crash(m)
  PROVE  TypeInv'
<1>a. HandOK(hand[m]) /\ hand \in [Manager -> Hand]
  BY DEF TypeInv, TypeOK
<1>c. /\ row \in [User -> Role \union {None}] /\ born \in [User -> Nat]
      /\ grant \in [Harbor -> [User -> Role \union {None}]]
      /\ queue \subseteq GoodOp /\ nextId \in Nat
      /\ requests \in 0..MaxRequests /\ crashes \in 0..MaxCrashes
  BY DEF TypeInv, TypeOK
<1>d. /\ hand[m].pc # "idle" => hand[m].user \in User
      /\ hand[m].pc = "upsert" => hand[m].role \in Role
      /\ hand[m].want \in Role \union {None}
  BY <1>a DEF HandOK, Hand
<1>b. SUFFICES /\ hand' \in [Manager -> Hand] /\ \A n \in Manager : HandOK(hand'[n])
               /\ queue' \subseteq GoodOp /\ nextId' \in Nat
               /\ row' \in [User -> Role \union {None}] /\ born' \in [User -> Nat]
               /\ grant' \in [Harbor -> [User -> Role \union {None}]]
               /\ UNCHANGED <<placed, pass>>
               /\ requests' \in 0..MaxRequests /\ crashes' \in 0..MaxCrashes
  BY DEF TypeInv, TypeOK, GoodOp
<1> USE MembershipAssumption
<1>1. ASSUME NEW u \in User, NEW r \in Role, Save(m, u, r) PROVE <1>b!1
  <2> DEFINE hd == [IdleHand EXCEPT !.pc = "upsert", !.user = u, !.role = r, !.had = row[u] # None]
  <2>1. hand' = [hand EXCEPT ![m] = hd]
    BY <1>1 DEF Save
  <2>2. HandOK(hd)
    BY <1>1, <1>a DEF Save, HandOK, Hand, IdleHand, Grants, Subject, TypeInv, TypeOK, GoodOp
  <2>3. hand' \in [Manager -> Hand] /\ \A x \in Manager : HandOK(hand'[x])
    BY <2>1, <2>2, HandMoves
  <2> HIDE DEF hd
  <2> QED
    <3>1. /\ UNCHANGED <<row, born, grant, placed, queue, nextId, pass, crashes>>
          /\ requests' = requests + 1 /\ requests + crashes < MaxRequests
      BY <1>1 DEF Save
    <3> QED
      BY <1>c, <2>3, <3>1
<1>2. ASSUME NEW u \in User, Remove(m, u) PROVE <1>b!1
  <2> DEFINE hd == [IdleHand EXCEPT !.pc = "fanout", !.user = u, !.kind = "MEMBER_REMOVE", !.todo = Harbor]
  <2>1. hand' = [hand EXCEPT ![m] = hd]
    BY <1>2 DEF Remove
  <2>2. HandOK(hd)
    BY <1>2, <1>a DEF Remove, HandOK, Hand, IdleHand, Grants, Subject, TypeInv, TypeOK, GoodOp
  <2>3. hand' \in [Manager -> Hand] /\ \A x \in Manager : HandOK(hand'[x])
    BY <2>1, <2>2, HandMoves
  <2> HIDE DEF hd
  <2> QED
    <3>1. /\ UNCHANGED <<row, born, grant, placed, queue, nextId, pass, crashes>>
          /\ requests' = requests + 1 /\ requests + crashes < MaxRequests
      BY <1>2 DEF Remove
    <3> QED
      BY <1>c, <2>3, <3>1
<1>3. CASE SaveUpsert(m)
  <2> DEFINE hd == [hand[m] EXCEPT !.pc = "load", !.mine = born'[hand[m].user]]
  <2>0. hand[m].user \in User /\ born'[hand[m].user] \in Nat
    BY <1>3, <1>c, <1>d DEF SaveUpsert
  <2>1. hand' = [hand EXCEPT ![m] = hd]
    <3>1. hand' = [hand EXCEPT ![m].pc = "load", ![m].mine = born'[hand[m].user]]
      BY <1>3 DEF SaveUpsert
    <3> QED
      BY <3>1, <1>a
  <2>2. HandOK(hd)
    <3>1. hand[m].pc = "upsert"
      BY <1>3 DEF SaveUpsert
    <3> QED
      BY <1>a, <2>0, <3>1 DEF HandOK, Hand, Grants
  <2>3. hand' \in [Manager -> Hand] /\ \A x \in Manager : HandOK(hand'[x])
    BY <2>1, <2>2, HandMoves
  <2> HIDE DEF hd
  <2> QED
    BY <1>3, <1>c, <1>d, <2>3 DEF SaveUpsert
<1>4. CASE SaveLoad(m)
  <2>1. CASE row[hand[m].user] = None
    BY <1>4, <1>a, <2>1, RollBackMoves DEF SaveLoad, TypeInv, TypeOK, HandOK
  <2>2. CASE row[hand[m].user] # None
    <3> DEFINE hd == [hand[m] EXCEPT !.pc = "fanout", !.want = row[hand[m].user], !.todo = Harbor]
    <3>1. hand' = [hand EXCEPT ![m] = hd]
      BY <1>4, <2>2 DEF SaveLoad
    <3>2. HandOK(hd)
      BY <1>4, <1>a, <2>2 DEF SaveLoad, HandOK, Hand, IdleHand, Grants, TypeInv, TypeOK
    <3> QED
      BY <1>4, <3>1, <3>2, HandMoves DEF SaveLoad, TypeInv, TypeOK
  <2> QED
    BY <2>1, <2>2
<1>5. ASSUME NEW h \in Harbor, FanOutReached(m, h) PROVE <1>b!1
  <2> DEFINE hd == [hand[m] EXCEPT !.todo = @ \ {h}, !.reached = TRUE]
  <2>1. hand' = [hand EXCEPT ![m] = hd]
    BY <1>5 DEF FanOutReached
  <2>2. HandOK(hd)
    BY <1>5, <1>a DEF FanOutReached, HandOK, Hand, IdleHand, Grants, Subject, TypeInv, TypeOK, GoodOp
  <2>3. hand' \in [Manager -> Hand] /\ \A x \in Manager : HandOK(hand'[x])
    BY <2>1, <2>2, HandMoves
  <2> HIDE DEF hd
  <2> QED
    BY <1>5, <1>c, <1>d, <2>3 DEF FanOutReached
<1>6. ASSUME NEW h \in Harbor, FanOutFailed(m, h) PROVE <1>b!1
  <2> DEFINE hd == [hand[m] EXCEPT !.todo = @ \ {h}, !.failed = @ \union {h}]
  <2>1. hand' = [hand EXCEPT ![m] = hd]
    BY <1>6 DEF FanOutFailed
  <2>2. HandOK(hd)
    BY <1>6, <1>a DEF FanOutFailed, HandOK, Hand, IdleHand, Grants, Subject, TypeInv, TypeOK, GoodOp
  <2>3. hand' \in [Manager -> Hand] /\ \A x \in Manager : HandOK(hand'[x])
    BY <2>1, <2>2, HandMoves
  <2> HIDE DEF hd
  <2> QED
    BY <1>6, <1>c, <1>d, <2>3 DEF FanOutFailed
<1>7. ASSUME NEW h \in Harbor, FanOutUnknown(m, h) PROVE <1>b!1
  <2> DEFINE hd == [hand[m] EXCEPT !.todo = @ \ {h}]
  <2>1. hand' = [hand EXCEPT ![m] = hd]
    BY <1>7 DEF FanOutUnknown
  <2>2. HandOK(hd)
    BY <1>7, <1>a DEF FanOutUnknown, HandOK, Hand, IdleHand, Grants, Subject, TypeInv, TypeOK, GoodOp
  <2>3. hand' \in [Manager -> Hand] /\ \A x \in Manager : HandOK(hand'[x])
    BY <2>1, <2>2, HandMoves
  <2> HIDE DEF hd
  <2> QED
    BY <1>7, <1>c, <1>d, <2>3 DEF FanOutUnknown
<1>8. ASSUME NEW h \in Harbor, EnqueueRead(m, h) PROVE <1>b!1
  <2> DEFINE hd == [hand[m] EXCEPT !.pc = "enqueue", !.at = h, !.failed = @ \ {h},
                                               !.seen = Subject(queue, h, Grants, hand[m].user)]
  <2>1. hand' = [hand EXCEPT ![m] = hd]
    BY <1>8 DEF EnqueueRead, FannedOut
  <2>2. HandOK(hd)
    BY <1>8, <1>a DEF EnqueueRead, HandOK, Hand, IdleHand, Grants, Subject, TypeInv, TypeOK, GoodOp
  <2>3. hand' \in [Manager -> Hand] /\ \A x \in Manager : HandOK(hand'[x])
    BY <2>1, <2>2, HandMoves
  <2> HIDE DEF hd
  <2> QED
    BY <1>8, <1>c, <1>d, <2>3 DEF EnqueueRead
<1>9. CASE EnqueueWrite(m)
  <2> DEFINE kept == {op \in hand[m].seen : op.kind = hand[m].kind /\ op.kind = "MEMBER_ADD"}
             hd == [hand[m] EXCEPT !.pc = "fanout", !.at = None, !.seen = {}]
  <2>1. hand' \in [Manager -> Hand] /\ \A x \in Manager : HandOK(hand'[x])
    <3>1. CASE kept \subseteq queue
      <4>1. hand' = [hand EXCEPT ![m] = hd]
        BY <1>9, <3>1 DEF EnqueueWrite
      <4>2. HandOK(hd)
        BY <1>9, <1>a DEF EnqueueWrite, HandOK, Hand, IdleHand
      <4> QED
        BY <4>1, <4>2, HandMoves
    <3>2. CASE ~(kept \subseteq queue)
      <4>1. hand[m].kind = "MEMBER_ADD"
        BY <3>2
      <4> QED
        BY <1>9, <3>2, <4>1, RollBackMoves DEF EnqueueWrite
    <3> QED
      BY <3>1, <3>2
  <2>2. Row(nextId, hand[m].at, hand[m].kind, hand[m].user) \in GoodOp
    BY <1>9, <1>a DEF EnqueueWrite, HandOK, Hand, Row, GoodOp, Op, Kind, Grants, TypeInv, TypeOK
  <2> QED
    BY <1>9, <2>1, <2>2 DEF EnqueueWrite, TypeInv, TypeOK
<1>10. CASE SaveDone(m)
  <2>1. CASE hand[m].reached
    BY <1>10, <2>1, IdleOK, HandMoves DEF SaveDone, Answer, TypeInv, TypeOK
  <2>2. CASE ~hand[m].reached
    BY <1>10, <2>2, RollBackMoves DEF SaveDone, FannedOut, TypeInv, TypeOK
  <2> QED
    BY <2>1, <2>2
<1>11. CASE Forget(m)
  <2> DEFINE hd == [hand[m] EXCEPT !.pc = "unrow"]
  <2>1. hand' = [hand EXCEPT ![m] = hd]
    BY <1>11 DEF Forget
  <2>2. HandOK(hd)
    BY <1>11, <1>a DEF Forget, HandOK, Hand, IdleHand, Grants, Subject, TypeInv, TypeOK, GoodOp
  <2>3. hand' \in [Manager -> Hand] /\ \A x \in Manager : HandOK(hand'[x])
    BY <2>1, <2>2, HandMoves
  <2> HIDE DEF hd
  <2> QED
    BY <1>11, <1>c, <1>d, <2>3 DEF Forget
<1>12. CASE Unrow(m)
  <2> DEFINE hd == IdleHand
  <2>1. hand' = [hand EXCEPT ![m] = hd]
    BY <1>12 DEF Unrow, Answer
  <2>2. HandOK(hd)
    BY IdleOK
  <2>3. hand' \in [Manager -> Hand] /\ \A x \in Manager : HandOK(hand'[x])
    BY <2>1, <2>2, HandMoves
  <2> HIDE DEF hd
  <2> QED
    BY <1>12, <1>c, <1>d, <2>3 DEF Unrow
<1>13. CASE RemoveDone(m)
  <2> DEFINE hd == IdleHand
  <2>1. hand' = [hand EXCEPT ![m] = hd]
    BY <1>13 DEF RemoveDone, Answer, FannedOut
  <2>2. HandOK(hd)
    BY IdleOK
  <2>3. hand' \in [Manager -> Hand] /\ \A x \in Manager : HandOK(hand'[x])
    BY <2>1, <2>2, HandMoves
  <2> HIDE DEF hd
  <2> QED
    BY <1>13, <1>c, <1>d, <2>3 DEF RemoveDone
<1>14. CASE Crash(m)
  <2> DEFINE hd == IdleHand
  <2>1. hand' = [hand EXCEPT ![m] = hd]
    BY <1>14 DEF Crash, Answer
  <2>2. HandOK(hd)
    BY IdleOK
  <2>3. hand' \in [Manager -> Hand] /\ \A x \in Manager : HandOK(hand'[x])
    BY <2>1, <2>2, HandMoves
  <2> HIDE DEF hd
  <2> QED
    BY <1>14, <1>c, <1>d, <2>3 DEF Crash
<1> QED
  BY <1>1, <1>2, <1>3, <1>4, <1>5, <1>6, <1>7, <1>8, <1>9, <1>10, <1>11, <1>12, <1>13, <1>14 DEF Handler

\* A step of the pass keeps the types.
LEMMA TypePass ==
  ASSUME TypeInv, (\E h \in Harbor : PassStart(h)) \/ Replay \/ PassEnds
  PROVE  TypeInv'
<1>a. PassOK(pass) /\ queue \subseteq GoodOp /\ nextId \in Nat
      /\ row \in [User -> Role \union {None}]
      /\ grant \in [Harbor -> [User -> Role \union {None}]]
      /\ placed \in [Harbor -> BOOLEAN]
  BY DEF TypeInv, TypeOK
<1>b. SUFFICES /\ PassOK(pass')
               /\ queue' \subseteq GoodOp /\ nextId' \in Nat
               /\ grant' \in [Harbor -> [User -> Role \union {None}]]
               /\ placed' \in [Harbor -> BOOLEAN]
               /\ UNCHANGED <<row, born, hand, requests, crashes>>
  BY DEF TypeInv, TypeOK, GoodOp, PassOK
<1> USE MembershipAssumption
<1>i. PassOK(IdlePass)
  BY DEF PassOK, Pass, IdlePass, NoRoles
<1>1. ASSUME NEW h \in Harbor, PassStart(h) PROVE <1>b!1
  <2>1. PassOK([IdlePass EXCEPT !.pc = "next", !.registry = h, !.ops = Owed(queue, h)])
    BY <1>a DEF PassOK, Pass, IdlePass, NoRoles, Owed, GoodOp
  <2> QED
    BY <1>1, <1>a, <2>1 DEF PassStart
<1>2. ASSUME NEW op \in pass.ops, PassTake(op) PROVE <1>b!1
  <2> DEFINE pc == IF op.kind = "MEMBER_ADD" /\ row[op.key] = None THEN "delete" ELSE "call"
             want == IF op.kind = "MEMBER_ADD" THEN row[op.key] ELSE None
  <2>1. op \in GoodOp /\ op.registry = pass.registry
    BY <1>a DEF PassOK
  <2>2. /\ want \in Role \union {None} /\ pc \in {"delete", "call"}
        /\ pc = "call" => IF op.kind = "MEMBER_ADD" THEN want \in Role ELSE want = None
    BY <1>a, <2>1 DEF GoodOp, Grants
  <2>3. pass' = [pass EXCEPT !.at = op, !.pc = pc, !.want = want] /\ pass.pc = "next"
    BY <1>2 DEF PassTake
  <2>4. PassOK(pass')
    <3> HIDE DEF pc, want
    <3> QED
      BY <1>a, <2>1, <2>2, <2>3 DEF PassOK, Pass, GoodOp
  <2> QED
    BY <1>2, <1>a, <2>4 DEF PassTake
<1>3. CASE PassCall
  <2>1. pass.pc = "call" /\ pass.registry \in Harbor /\ pass.at \in GoodOp
        /\ pass.want \in Role \union {None}
    BY <1>3, <1>a DEF PassCall, PassOK, Pass
  <2>2. CASE pass.at.kind = "PROJECT_CREATE"
    <3>1. pass' = [pass EXCEPT !.pc = "members", !.todo = row]
          /\ placed' = [placed EXCEPT ![pass.registry] = TRUE]
          /\ UNCHANGED <<grant, queue, nextId, row, born, hand, requests, crashes>>
      BY <1>3, <2>2 DEF PassCall
    <3>2. PassOK(pass')
      BY <1>a, <2>1, <2>2, <3>1 DEF PassOK, Pass, GoodOp
    <3> QED
      BY <1>a, <2>1, <3>1, <3>2
  <2>3. CASE pass.at.kind # "PROJECT_CREATE"
    <3>1. pass' = [pass EXCEPT !.pc = "delete"]
          /\ \/ grant' = [grant EXCEPT ![pass.registry][pass.at.key] = pass.want]
             \/ UNCHANGED grant
          /\ UNCHANGED <<placed, queue, nextId, row, born, hand, requests, crashes>>
      BY <1>3, <2>3 DEF PassCall
    <3>2. PassOK(pass')
      BY <1>a, <2>1, <2>3, <3>1 DEF PassOK, Pass, GoodOp
    <3>3. pass.at.key \in User
      BY <2>1, <2>3 DEF GoodOp, Op, Kind, Grants
    <3> QED
      BY <1>a, <2>1, <3>1, <3>2, <3>3
  <2> QED
    BY <2>2, <2>3
<1>4. CASE PassMembersDone
  <2>1. PassOK(pass')
    BY <1>4, <1>a DEF PassMembersDone, PassOK, Pass, GoodOp
  <2> QED
    BY <1>4, <1>a, <2>1 DEF PassMembersDone
<1>5. CASE PassDelete
  <2>1. PassOK([IdlePass EXCEPT !.pc = "next", !.registry = pass.registry,
                                !.ops = pass.ops \ {pass.at}])
    BY <1>5, <1>a DEF PassDelete, PassOK, Pass, IdlePass, NoRoles
  <2> QED
    BY <1>5, <1>a, <1>i, <2>1 DEF PassDelete
<1>6. ASSUME NEW u \in User, PassMember(u) PROVE <1>b!1
  <2>1. pass.pc = "members" /\ pass.registry \in Harbor /\ pass.todo \in [User -> Role \union {None}]
    BY <1>6, <1>a DEF PassMember, PassOK, Pass
  <2>2. pass' = [pass EXCEPT !.todo[u] = None]
    BY <1>6 DEF PassMember
  <2>3. PassOK(pass')
    BY <1>a, <2>1, <2>2 DEF PassOK, Pass, GoodOp
  <2>4. grant' \in [Harbor -> [User -> Role \union {None}]]
    <3>1. UNCHANGED grant \/ grant' = [grant EXCEPT ![pass.registry][u] = pass.todo[u]]
      BY <1>6 DEF PassMember
    <3> QED
      BY <1>a, <2>1, <3>1
  <2>5. EnqueueGrant(queue, nextId, pass.registry, "MEMBER_ADD", "MEMBER_ADD", "MEMBER_REMOVE", u)
          \subseteq GoodOp
    BY <1>a, <2>1 DEF EnqueueGrant, Subject, Row, GoodOp, Op, Kind, Grants
  <2>6. queue' \subseteq GoodOp /\ nextId' \in Nat
    <3>1. \/ UNCHANGED <<queue, nextId>>
          \/ /\ queue' = EnqueueGrant(queue, nextId, pass.registry, "MEMBER_ADD",
                                      "MEMBER_ADD", "MEMBER_REMOVE", u)
             /\ nextId' \in {nextId, nextId + 1}
      BY <1>6 DEF PassMember
    <3> QED
      BY <1>a, <2>5, <3>1
  <2> QED
    BY <1>6, <1>a, <2>3, <2>4, <2>6 DEF PassMember
<1>7. CASE PassEnds
  BY <1>7, <1>a, <1>i DEF PassEnds
<1> QED
  BY <1>1, <1>2, <1>3, <1>4, <1>5, <1>6, <1>7 DEF Replay

\* The types hold at first.
LEMMA TypeInit == Init => TypeInv
<1> SUFFICES ASSUME Init PROVE TypeInv
  OBVIOUS
<1> USE MembershipAssumption
<1>1. NoRoles \in [User -> Role \union {None}]
  BY DEF NoRoles
<1>2. queue \subseteq GoodOp
  BY DEF Init, Row, GoodOp, Op, Kind, Grants
<1>3. PassOK(pass) /\ pass \in Pass
  BY <1>1 DEF Init, PassOK, Pass, IdlePass
<1>4. \A m \in Manager : HandOK(hand[m])
  BY IdleOK DEF Init
<1>5. hand \in [Manager -> Hand]
  BY IdleOK DEF Init, HandOK
<1> QED
  BY <1>1, <1>2, <1>3, <1>4, <1>5 DEF Init, TypeInv, TypeOK, GoodOp

\* A step keeps the types.
LEMMA TypeStep == TypeInv /\ [Next]_vars => TypeInv'
<1> SUFFICES ASSUME TypeInv, [Next]_vars PROVE TypeInv'
  OBVIOUS
<1>1. ASSUME NEW m \in Manager,
             \/ \E u \in User : Remove(m, u) \/ \E r \in Role : Save(m, u, r)
             \/ Handler(m) \/ Crash(m)
      PROVE  TypeInv'
  BY <1>1, TypeHandler
<1>2. CASE (\E h \in Harbor : PassStart(h)) \/ Replay \/ PassEnds
  BY <1>2, TypePass
<1>3. CASE UNCHANGED vars
  BY <1>3 DEF vars, TypeInv, TypeOK
<1> QED
  BY <1>1, <1>2, <1>3 DEF Next

\* Type correctness of the grants of a project, with what a handler and the
\* pass know at each of their steps (project-members.ts, reconcile.ts).
THEOREM TypeCorrect == Spec => []TypeOK
<1>1. TypeInv => TypeOK
  BY DEF TypeInv
<1> QED
  BY <1>1, TypeInit, TypeStep, PTL DEF Spec

-----------------------------------------------------------------------------
(* Steps about one person kept apart.                                      *)

\* One handler at a time serves a person, and none while a replay is about them.
OneAtATime ==
  /\ \A m, n \in Manager :
       hand[m].pc # "idle" /\ hand[n].pc # "idle" /\ hand[m].user = hand[n].user => m = n
  /\ \A m \in Manager :
       hand[m].pc # "idle" /\ pass.pc \in {"call", "members", "delete"} =>
         ~Touches(pass.at, hand[m].user)

\* What a handler found queued for its subject is what is queued.
SeenIsQueued ==
  \A m \in Manager :
    hand[m].pc = "enqueue" =>
      hand[m].seen = Subject(queue, hand[m].at, Grants, hand[m].user)

OneRow(ops) ==
  \A a, b \in ops :
    /\ a.kind \in Grants /\ b.kind \in Grants
    /\ a.registry = b.registry /\ a.key = b.key
    => a = b

ApartInv == TypeInv /\ OneAtATime /\ SeenIsQueued /\ OneRow(queue)

\* Nobody and nothing is about a person who is not busy.
LEMMA NotBusy ==
  ASSUME TypeInv, NEW u \in User, ~Busy(u)
  PROVE  /\ \A n \in Manager : hand[n].user # u
         /\ pass.pc \in {"call", "members", "delete"} => ~Touches(pass.at, u)
<1>1. pass.pc \in {"call", "members", "delete"} => pass.at # None
  BY NoneAssumption DEF TypeInv, PassOK, Pass, GoodOp
<1> QED
  BY <1>1 DEF Busy, Serving, Replaying

\* A handler at work keeps its person and its kind until it answers, and leaves
\* the other handlers and the pass alone.
LEMMA HandStep ==
  ASSUME TypeInv, NEW m \in Manager, Handler(m) \/ Crash(m)
  PROVE  /\ hand[m].pc # "idle" /\ UNCHANGED <<pass, placed, requests>>
         /\ \A n \in Manager \ {m} : hand'[n] = hand[n]
         /\ \/ hand'[m] = IdleHand
            \/ hand'[m].pc # "idle" /\ hand'[m].user = hand[m].user
                 /\ hand'[m].kind = hand[m].kind
<1>a. hand \in [Manager -> Hand] /\ HandOK(hand[m])
  BY DEF TypeInv, TypeOK
<1>g. SUFFICES /\ hand[m].pc # "idle" /\ UNCHANGED <<pass, placed, requests>>
               /\ \A n \in Manager \ {m} : hand'[n] = hand[n]
               /\ \/ hand'[m] = IdleHand
                  \/ hand'[m].pc # "idle" /\ hand'[m].user = hand[m].user
                       /\ hand'[m].kind = hand[m].kind
  OBVIOUS
<1>b. ASSUME RollBackCreation(m)
      PROVE  /\ \A n \in Manager \ {m} : hand'[n] = hand[n]
             /\ \/ hand'[m] = IdleHand
                \/ hand'[m].pc # "idle" /\ hand'[m].user = hand[m].user
                     /\ hand'[m].kind = hand[m].kind
  BY <1>a, <1>b DEF RollBackCreation, Hand
<1>1. CASE SaveUpsert(m)
  BY <1>1, <1>a DEF SaveUpsert, Hand
<1>2. CASE SaveLoad(m)
  <2>1. CASE row[hand[m].user] = None
    BY <1>2, <1>b, <2>1 DEF SaveLoad
  <2>2. CASE row[hand[m].user] # None
    BY <1>2, <1>a, <2>2 DEF SaveLoad, Hand
  <2> QED
    BY <2>1, <2>2
<1>3. CASE SaveDone(m)
  <2>1. CASE hand[m].reached
    BY <1>3, <1>a, <2>1 DEF SaveDone, FannedOut, Answer
  <2>2. CASE ~hand[m].reached
    BY <1>3, <1>b, <2>2 DEF SaveDone, FannedOut
  <2> QED
    BY <2>1, <2>2
<1>4. CASE Forget(m)
  BY <1>4, <1>a DEF Forget, Hand
<1>5. CASE Unrow(m)
  BY <1>5, <1>a DEF Unrow, Answer
<1>6. CASE RemoveDone(m)
  BY <1>6, <1>a DEF RemoveDone, FannedOut, Answer
<1>7. CASE EnqueueWrite(m)
  <2> DEFINE kept == {op \in hand[m].seen : op.kind = hand[m].kind /\ op.kind = "MEMBER_ADD"}
  <2>1. CASE kept \subseteq queue
    <3>1. /\ hand' = [hand EXCEPT ![m].pc = "fanout", ![m].at = None, ![m].seen = {}]
          /\ hand[m].pc = "enqueue" /\ UNCHANGED <<pass, placed, requests>>
      BY <1>7, <2>1 DEF EnqueueWrite
    <3> QED
      BY <1>a, <3>1 DEF Hand
  <2>2. CASE ~(kept \subseteq queue)
    <3>1. /\ RollBackCreation(m)
          /\ hand[m].pc = "enqueue" /\ UNCHANGED <<pass, placed, requests>>
      BY <1>7, <2>2 DEF EnqueueWrite
    <3> QED
      BY <1>b, <3>1
  <2> QED
    BY <2>1, <2>2
<1>8. ASSUME NEW h \in Harbor, FanOutReached(m, h) PROVE <1>g!1
  BY <1>8, <1>a DEF FanOutReached, Hand
<1>9. ASSUME NEW h \in Harbor, FanOutFailed(m, h) PROVE <1>g!1
  BY <1>9, <1>a DEF FanOutFailed, Hand
<1>10. ASSUME NEW h \in Harbor, FanOutUnknown(m, h) PROVE <1>g!1
  BY <1>10, <1>a DEF FanOutUnknown, Hand
<1>11. ASSUME NEW h \in Harbor, EnqueueRead(m, h) PROVE <1>g!1
  BY <1>11, <1>a DEF EnqueueRead, Hand
<1>12. CASE Crash(m)
  BY <1>12, <1>a DEF Crash, Answer
<1> QED
  BY <1>1, <1>2, <1>3, <1>4, <1>5, <1>6, <1>7, <1>8, <1>9, <1>10, <1>11, <1>12 DEF Handler

\* The rows of a handler at an enqueue that are kept as they are.
Kept(hd) == {op \in hd.seen : op.kind = hd.kind /\ op.kind = "MEMBER_ADD"}

\* What a handler's step does to the queue: nothing, or it forgets or supersedes
\* the rows about its person.
LEMMA HandQueue ==
  ASSUME TypeInv, NEW m \in Manager, Handler(m) \/ Crash(m)
  PROVE  \/ UNCHANGED <<queue, nextId>>
         \/ /\ Forget(m) /\ hand[m].pc = "forget"
            /\ queue' = {op \in queue : ~(op.kind \in Grants /\ op.key = hand[m].user)}
         \/ /\ EnqueueWrite(m) /\ hand[m].pc = "enqueue" /\ Kept(hand[m]) = {}
            /\ queue' = (queue \ hand[m].seen)
                          \union {Row(nextId, hand[m].at, hand[m].kind, hand[m].user)}
<1>1. CASE SaveUpsert(m)
  BY <1>1 DEF SaveUpsert
<1>2. CASE SaveLoad(m)
  BY <1>2 DEF SaveLoad
<1>3. CASE SaveDone(m)
  BY <1>3 DEF SaveDone
<1>4. CASE Forget(m)
  BY <1>4 DEF Forget
<1>5. CASE Unrow(m)
  BY <1>5 DEF Unrow
<1>6. CASE RemoveDone(m)
  BY <1>6 DEF RemoveDone
<1>7. CASE EnqueueWrite(m)
  BY <1>7 DEF EnqueueWrite, Kept
<1>8. ASSUME NEW h \in Harbor,
             FanOutReached(m, h) \/ FanOutFailed(m, h) \/ FanOutUnknown(m, h) \/ EnqueueRead(m, h)
      PROVE  UNCHANGED <<queue, nextId>>
  BY <1>8 DEF FanOutReached, FanOutFailed, FanOutUnknown, EnqueueRead
<1>9. CASE Crash(m)
  BY <1>9 DEF Crash
<1> QED
  BY <1>1, <1>2, <1>3, <1>4, <1>5, <1>6, <1>7, <1>8, <1>9 DEF Handler

\* What a step of the pass does: it keeps the row in hand, takes one about
\* people nobody serves, or drops it; the queue loses the row in hand, or gains
\* a grant of a project being placed.
LEMMA PassStep ==
  ASSUME TypeInv, Apart, (\E h \in Harbor : PassStart(h)) \/ Replay \/ PassEnds
  PROVE  /\ UNCHANGED <<hand, row, born, requests, crashes>>
         /\ pass'.pc \in {"call", "members", "delete"} =>
              \/ pass'.at = pass.at /\ pass.pc \in {"call", "members", "delete"}
              \/ \A m \in Manager : hand[m].pc # "idle" => ~Touches(pass'.at, hand[m].user)
         /\ \/ queue' = queue
            \/ pass.pc = "delete" /\ queue' = queue \ {pass.at}
            \/ /\ pass.pc = "members"
               /\ \E u \in User :
                    queue' = EnqueueGrant(queue, nextId, pass.registry, "MEMBER_ADD",
                                          "MEMBER_ADD", "MEMBER_REMOVE", u)
<1>g. SUFFICES /\ UNCHANGED <<hand, row, born, requests, crashes>>
               /\ pass'.pc \in {"call", "members", "delete"} =>
                    \/ pass'.at = pass.at /\ pass.pc \in {"call", "members", "delete"}
                    \/ \A m \in Manager :
                         hand[m].pc # "idle" => ~Touches(pass'.at, hand[m].user)
               /\ \/ queue' = queue
                  \/ pass.pc = "delete" /\ queue' = queue \ {pass.at}
                  \/ /\ pass.pc = "members"
                     /\ \E u \in User :
                          queue' = EnqueueGrant(queue, nextId, pass.registry, "MEMBER_ADD",
                                                "MEMBER_ADD", "MEMBER_REMOVE", u)
  OBVIOUS
<1>a. PassOK(pass) /\ \A m \in Manager : HandOK(hand[m])
  BY DEF TypeInv
<1>1. ASSUME NEW h \in Harbor, PassStart(h) PROVE <1>g!1
  BY <1>1 DEF PassStart, IdlePass
<1>2. ASSUME NEW op \in pass.ops, PassTake(op) PROVE <1>g!1
  <2>1. /\ UNCHANGED <<hand, row, born, queue, requests, crashes>>
        /\ \A u \in User : Serving(u) => ~Touches(op, u)
    BY <1>2 DEF PassTake
  <2>2. pass'.at = op
    BY <1>2, <1>a DEF PassTake, PassOK, Pass
  <2>3. ASSUME NEW m \in Manager, hand[m].pc # "idle"
        PROVE  ~Touches(op, hand[m].user)
    <3>1. hand[m].user \in User
      BY <1>a, <2>3 DEF HandOK
    <3> QED
      BY <2>1, <3>1 DEF Serving
  <2> QED
    BY <2>1, <2>2, <2>3
<1>3. CASE PassCall
  <2>1. pass'.at = pass.at
    BY <1>3, <1>a DEF PassCall, PassOK, Pass
  <2> QED
    BY <1>3, <2>1 DEF PassCall
<1>4. CASE PassMembersDone
  BY <1>4, <1>a DEF PassMembersDone, PassOK, Pass
<1>5. CASE PassDelete
  BY <1>5 DEF PassDelete, IdlePass
<1>6. ASSUME NEW u \in User, PassMember(u) PROVE <1>g!1
  <2>1. pass'.at = pass.at /\ pass.pc = "members"
    BY <1>6, <1>a DEF PassMember, PassOK, Pass
  <2> QED
    BY <1>6, <2>1 DEF PassMember
<1>7. CASE PassEnds
  BY <1>7 DEF PassEnds, IdlePass
<1> QED
  BY <1>1, <1>2, <1>3, <1>4, <1>5, <1>6, <1>7 DEF Replay

\* A handler begins for a person who is not busy.
LEMMA Begins ==
  ASSUME TypeInv, Apart, NEW m \in Manager, NEW u \in User,
         Remove(m, u) \/ \E r \in Role : Save(m, u, r)
  PROVE  /\ UNCHANGED <<row, born, grant, placed, queue, nextId, pass, crashes>>
         /\ ~Busy(u) /\ hand[m].pc = "idle"
         /\ \A n \in Manager \ {m} : hand'[n] = hand[n]
         /\ hand'[m].user = u /\ hand'[m].pc \in {"upsert", "fanout"}
<1>a. hand \in [Manager -> Hand]
  BY DEF TypeInv, TypeOK
<1>1. CASE Remove(m, u)
  BY <1>1, <1>a DEF Remove, IdleHand
<1>2. ASSUME NEW r \in Role, Save(m, u, r)
      PROVE  /\ UNCHANGED <<row, born, grant, placed, queue, nextId, pass, crashes>>
             /\ ~Busy(u) /\ hand[m].pc = "idle"
             /\ \A n \in Manager \ {m} : hand'[n] = hand[n]
             /\ hand'[m].user = u /\ hand'[m].pc \in {"upsert", "fanout"}
  BY <1>2, <1>a DEF Save, IdleHand
<1> QED
  BY <1>1, <1>2

\* One handler at a time serves a person.
LEMMA ApartStep ==
  ASSUME ApartInv, Apart, Next
  PROVE  OneAtATime'
<1>a. TypeInv /\ OneAtATime
  BY DEF ApartInv
<1>1. ASSUME NEW m \in Manager, NEW u \in User, Remove(m, u) \/ \E r \in Role : Save(m, u, r)
      PROVE  OneAtATime'
  <2>2. /\ pass' = pass /\ hand'[m].user = u
        /\ \A n \in Manager \ {m} : hand'[n] = hand[n]
        /\ \A n \in Manager : hand[n].user # u
        /\ pass.pc \in {"call", "members", "delete"} => ~Touches(pass.at, u)
    BY <1>1, <1>a, Begins, NotBusy
  <2> QED
    BY <1>a, <2>2 DEF OneAtATime
<1>2. ASSUME NEW m \in Manager, Handler(m) \/ Crash(m)
      PROVE  OneAtATime'
  <2>1. /\ hand[m].pc # "idle" /\ pass' = pass
        /\ \A n \in Manager \ {m} : hand'[n] = hand[n]
        /\ hand'[m].pc # "idle" => hand'[m].user = hand[m].user
    BY <1>2, <1>a, HandStep DEF IdleHand
  <2> QED
    BY <1>a, <2>1 DEF OneAtATime
<1>3. CASE (\E h \in Harbor : PassStart(h)) \/ Replay \/ PassEnds
  <2>1. /\ hand' = hand
        /\ pass'.pc \in {"call", "members", "delete"} =>
              \/ pass'.at = pass.at /\ pass.pc \in {"call", "members", "delete"}
              \/ \A m \in Manager : hand[m].pc # "idle" => ~Touches(pass'.at, hand[m].user)
    BY <1>3, <1>a, PassStep
  <2> QED
    BY <1>a, <2>1 DEF OneAtATime
<1> QED
  BY <1>1, <1>2, <1>3 DEF Next

\* Nobody moves the rows a handler has found before it writes.
LEMMA SeenStep ==
  ASSUME ApartInv, Apart, Next
  PROVE  SeenIsQueued'
<1>a. TypeInv /\ OneAtATime /\ SeenIsQueued /\ \A m \in Manager : HandOK(hand[m])
  BY DEF ApartInv, TypeInv
<1>1. ASSUME NEW m \in Manager, NEW u \in User, Remove(m, u) \/ \E r \in Role : Save(m, u, r)
      PROVE  SeenIsQueued'
  <2>1. /\ queue' = queue /\ hand'[m].pc # "enqueue"
        /\ \A n \in Manager \ {m} : hand'[n] = hand[n]
    BY <1>1, <1>a, Begins
  <2> QED
    BY <1>a, <2>1 DEF SeenIsQueued
<1>2. ASSUME NEW m \in Manager, Handler(m) \/ Crash(m)
      PROVE  SeenIsQueued'
  <2>1. /\ hand[m].pc # "idle" /\ hand[m].user \in User
        /\ \A n \in Manager \ {m} : hand'[n] = hand[n]
    BY <1>2, <1>a, HandStep DEF HandOK
  <2>2. ASSUME NEW n \in Manager \ {m}, hand[n].pc = "enqueue"
        PROVE  Subject(queue', hand[n].at, Grants, hand[n].user)
                 = Subject(queue, hand[n].at, Grants, hand[n].user)
    <3>1. hand[n].user # hand[m].user
      BY <1>a, <2>1, <2>2 DEF OneAtATime
    <3>2. CASE queue' = queue
      BY <3>2
    <3>3. CASE queue' = {op \in queue : ~(op.kind \in Grants /\ op.key = hand[m].user)}
      BY <3>1, <3>3 DEF Subject
    <3>4. CASE /\ queue' = (queue \ hand[m].seen)
                             \union {Row(nextId, hand[m].at, hand[m].kind, hand[m].user)}
               /\ hand[m].pc = "enqueue"
      <4>1. hand[m].seen = Subject(queue, hand[m].at, Grants, hand[m].user)
        BY <1>a, <3>4 DEF SeenIsQueued
      <4> QED
        BY <3>1, <3>4, <4>1 DEF Subject, Row
    <3> QED
      BY <1>2, <1>a, <3>2, <3>3, <3>4, HandQueue
  <2>3. hand'[m].pc = "enqueue" =>
          hand'[m].seen = Subject(queue', hand'[m].at, Grants, hand'[m].user)
    <3>a. hand \in [Manager -> Hand] /\ IdleHand.pc # "enqueue"
      BY <1>a DEF TypeInv, TypeOK, IdleHand
    <3>b. RollBackCreation(m) => hand'[m].pc # "enqueue"
      BY <3>a DEF RollBackCreation, Hand
    <3>1. CASE SaveUpsert(m)
      BY <3>1, <3>a DEF SaveUpsert
    <3>2. CASE SaveLoad(m)
      <4>1. RollBackCreation(m)
              \/ hand' = [hand EXCEPT ![m].pc = "fanout", ![m].want = row[hand[m].user],
                                      ![m].todo = Harbor]
        BY <3>2 DEF SaveLoad
      <4>2. ASSUME hand' = [hand EXCEPT ![m].pc = "fanout", ![m].want = row[hand[m].user],
                                      ![m].todo = Harbor]
            PROVE  hand'[m].pc # "enqueue"
        BY <4>2, <3>a DEF Hand
      <4> QED
        BY <4>1, <4>2, <3>b
    <3>3. CASE SaveDone(m)
      BY <3>3, <3>a, <3>b DEF SaveDone, Answer
    <3>4. CASE Forget(m)
      BY <3>4, <3>a DEF Forget
    <3>5. CASE Unrow(m) \/ RemoveDone(m) \/ Crash(m)
      <4>1. Answer(m)
        BY <3>5 DEF Unrow, RemoveDone, Crash
      <4> QED
        BY <4>1, <3>a DEF Answer
    <3>6. CASE EnqueueWrite(m)
      <4>1. RollBackCreation(m)
              \/ hand' = [hand EXCEPT ![m].pc = "fanout", ![m].at = None, ![m].seen = {}]
        BY <3>6 DEF EnqueueWrite
      <4>2. ASSUME hand' = [hand EXCEPT ![m].pc = "fanout", ![m].at = None, ![m].seen = {}]
            PROVE  hand'[m].pc # "enqueue"
        BY <4>2, <3>a DEF Hand
      <4> QED
        BY <4>1, <4>2, <3>b
    <3>7. ASSUME NEW h \in Harbor,
                 FanOutReached(m, h) \/ FanOutFailed(m, h) \/ FanOutUnknown(m, h)
          PROVE  hand'[m].pc # "enqueue"
      BY <3>7, <3>a DEF FanOutReached, FanOutFailed, FanOutUnknown, Hand
    <3>8. ASSUME NEW h \in Harbor, EnqueueRead(m, h)
          PROVE  hand'[m].seen = Subject(queue', hand'[m].at, Grants, hand'[m].user)
      BY <3>8, <3>a DEF EnqueueRead, Hand
    <3> QED
      BY <1>2, <3>1, <3>2, <3>3, <3>4, <3>5, <3>6, <3>7, <3>8 DEF Handler
  <2> QED
    BY <1>a, <2>1, <2>2, <2>3 DEF SeenIsQueued
<1>3. CASE (\E h \in Harbor : PassStart(h)) \/ Replay \/ PassEnds
  <2>1. hand' = hand
    BY <1>3, <1>a, PassStep
  <2>2. ASSUME NEW n \in Manager, hand[n].pc = "enqueue"
        PROVE  Subject(queue', hand[n].at, Grants, hand[n].user)
                 = Subject(queue, hand[n].at, Grants, hand[n].user)
    <3>1. hand[n].user \in User
            /\ (pass.pc \in {"members", "delete"} => ~Touches(pass.at, hand[n].user))
      BY <1>a, <2>2 DEF HandOK, OneAtATime
    <3>2. pass.pc = "members" => pass.at.kind = "PROJECT_CREATE"
      BY <1>a DEF TypeInv, PassOK
    <3>3. CASE queue' = queue
      BY <3>3
    <3>4. CASE pass.pc = "delete" /\ queue' = queue \ {pass.at}
      BY <3>1, <3>4 DEF Subject, Touches
    <3> QED
      BY <1>3, <1>a, <3>1, <3>2, <3>3, <3>4, PassStep DEF Touches
  <2> QED
    BY <1>a, <2>1, <2>2 DEF SeenIsQueued
<1> QED
  BY <1>1, <1>2, <1>3 DEF Next

\* A grant put in place of a queued removal leaves one row about its subject.
LEMMA GrantIsOneRow ==
  ASSUME OneRow(queue), queue \subseteq Op, NEW h, NEW u,
         NEW id
  PROVE  OneRow(EnqueueGrant(queue, id, h, "MEMBER_ADD", "MEMBER_ADD", "MEMBER_REMOVE", u))
<1>1. CASE Subject(queue, h, {"MEMBER_ADD"}, u) # {}
  BY <1>1 DEF EnqueueGrant
<1>2. CASE Subject(queue, h, {"MEMBER_ADD"}, u) = {}
  BY <1>2 DEF EnqueueGrant, OneRow, Subject, Row, Grants
<1> QED
  BY <1>1, <1>2

\* Nobody adds a second row about a person.
LEMMA RowStep ==
  ASSUME ApartInv, Apart, Next
  PROVE  OneRow(queue)'
<1>a. TypeInv /\ SeenIsQueued /\ OneRow(queue) /\ queue \subseteq Op
  BY DEF ApartInv, TypeInv, TypeOK
<1>1. CASE queue' \subseteq queue
  BY <1>1, <1>a DEF OneRow
<1>2. ASSUME NEW m \in Manager, Handler(m) \/ Crash(m)
      PROVE  OneRow(queue)'
  <2>1. CASE /\ hand[m].pc = "enqueue"
             /\ queue' = (queue \ hand[m].seen)
                           \union {Row(nextId, hand[m].at, hand[m].kind, hand[m].user)}
    <3>1. hand[m].seen = Subject(queue, hand[m].at, Grants, hand[m].user)
      BY <1>a, <2>1 DEF SeenIsQueued
    <3> QED
      BY <1>a, <2>1, <3>1 DEF OneRow, Subject, Row
  <2> QED
    BY <1>2, <1>a, <1>1, <2>1, HandQueue
<1>3. CASE (\E h \in Harbor : PassStart(h)) \/ Replay \/ PassEnds
  <2>1. \/ queue' \subseteq queue
        \/ \E u \in User : queue' = EnqueueGrant(queue, nextId, pass.registry, "MEMBER_ADD",
                                                 "MEMBER_ADD", "MEMBER_REMOVE", u)
    BY <1>3, <1>a, PassStep
  <2> QED
    BY <1>1, <1>a, <2>1, GrantIsOneRow
<1>4. ASSUME NEW m \in Manager, NEW u \in User, Remove(m, u) \/ \E r \in Role : Save(m, u, r)
      PROVE  OneRow(queue)'
  BY <1>4, <1>a, <1>1, Begins
<1> QED
  BY <1>2, <1>3, <1>4 DEF Next

\* Everything about steps kept apart is kept by every step.
LEMMA ApartStays ==
  ASSUME Apart, ApartInv, [Next]_vars
  PROVE  ApartInv'
<1>1. CASE Next
  <2>1. TypeInv'
    BY <1>1, TypeStep DEF ApartInv
  <2> QED
    BY <1>1, <2>1, ApartStep, SeenStep, RowStep DEF ApartInv
<1>2. CASE UNCHANGED vars
  BY <1>2 DEF vars, ApartInv, TypeInv, TypeOK, OneAtATime, SeenIsQueued
<1> QED
  BY <1>1, <1>2

\* They hold at first.
LEMMA ApartInit == Init => ApartInv
<1> SUFFICES ASSUME Init PROVE ApartInv
  OBVIOUS
<1>1. \A m \in Manager : hand[m].pc = "idle"
  BY DEF Init, IdleHand
<1>2. OneRow(queue)
  BY DEF Init, OneRow, Row, Grants
<1> QED
  BY <1>1, <1>2, TypeInit DEF ApartInv, OneAtATime, SeenIsQueued

\* One row at most about a subject, counted.
LEMMA OneRowCounted ==
  ASSUME OneRow(queue), NEW h, NEW u
  PROVE  Cardinality(Subject(queue, h, Grants, u)) <= 1
<1> DEFINE S == Subject(queue, h, Grants, u)
<1>1. \A a, b \in S : a = b
  BY DEF OneRow, Subject
<1>2. CASE S = {}
  BY <1>2, FS_EmptySet
<1>3. ASSUME NEW a \in S PROVE Cardinality(S) <= 1
  <2>1. S = {a}
    BY <1>1, <1>3
  <2>2. Cardinality({a}) = 1
    BY FS_Singleton
  <2> QED
    BY <2>1, <2>2
<1> QED
  BY <1>2, <1>3

\* When the steps about one person are kept apart, a Harbor is owed at most one
\* row about them, whatever dies, is misread or loses its answer, and however
\* grants and removals alternate (fanout.ts, enqueue).
THEOREM OneRowHolds == ASSUME Apart PROVE Spec => []OneRowPerSubject
<1>1. ApartInv => OneRowPerSubject
  BY OneRowCounted DEF ApartInv, OneRowPerSubject
<1>2. ApartInv /\ [Next]_vars => ApartInv'
  BY ApartStays
<1> QED
  BY <1>1, <1>2, ApartInit, PTL DEF Spec

-----------------------------------------------------------------------------
(* What is owed, when nothing dies.                                        *)

Served(u) == \E m \in Manager : hand[m].pc # "idle" /\ hand[m].user = u
BeingRemoved(u) ==
  \E m \in Manager :
    hand[m].pc # "idle" /\ hand[m].user = u /\ hand[m].kind = "MEMBER_REMOVE"
Removal(op) == op.kind = "MEMBER_REMOVE"

\* A removal is queued only for people who are no longer members, or about to be.
RemovalsAreTrue ==
  /\ \A op \in queue : Removal(op) => row[op.key] = None \/ BeingRemoved(op.key)
  /\ \A m \in Manager, op \in queue :
       hand[m].pc # "idle" /\ hand[m].kind = "MEMBER_ADD" /\ Removal(op) =>
         op.key # hand[m].user
  /\ \A op \in pass.ops : Removal(op) => Queued(op.registry, "MEMBER_REMOVE", op.key)
  /\ OneRow(pass.ops)

\* No lookup is misread and no answer is lost: what is taken for done was done, and what
\* is taken for failed was not.
Heard == ~Misread /\ ~AnswersLost

\* What the two properties say of a person, replays included.
Accounted(u) ==
  \A h \in Harbor :
    /\ row[u] # None /\ grant[h][u] # row[u] /\ <<h, u>> \notin Unknown =>
         Queued(h, "MEMBER_ADD", u) \/ Queued(h, "PROJECT_CREATE", None)
    /\ Heard /\ row[u] = None /\ grant[h][u] # None => Queued(h, "MEMBER_REMOVE", u)

\* The Harbors a handler has dealt with: called, and queued for if they failed.
DealtWith(hd) == Harbor \ (hd.todo \union hd.failed \union {hd.at})

\* A grant on its way.
GrantUnderWay(m) ==
  LET hd == hand[m] IN
  /\ hd.pc = "upsert" => (hd.had <=> row[hd.user] # None) /\ ~hd.reached
  /\ hd.pc \in {"load", "forget", "unrow"} =>
       row[hd.user] # None /\ hd.mine = born[hd.user] /\ ~hd.reached
  /\ hd.pc \in {"forget", "unrow"} => ~hd.had
  /\ Heard /\ hd.pc # "idle" /\ hd.kind = "MEMBER_ADD" /\ ~hd.had /\ ~hd.reached =>
       \A h \in Harbor : grant[h][hd.user] = None
  /\ hd.pc \in {"fanout", "enqueue"} /\ hd.kind = "MEMBER_ADD" =>
       /\ row[hd.user] = hd.want /\ hd.mine = born[hd.user]
       /\ \A h \in DealtWith(hd) :
            \/ grant[h][hd.user] = hd.want
            \/ <<h, hd.user>> \in Unknown
            \/ Queued(h, "MEMBER_ADD", hd.user)

\* A revocation on its way.
RevocationUnderWay(m) ==
  LET hd == hand[m] IN
  Heard /\ hd.pc # "idle" /\ hd.kind = "MEMBER_REMOVE" =>
    \A h \in DealtWith(hd) : grant[h][hd.user] = None \/ Queued(h, "MEMBER_REMOVE", hd.user)

\* A Harbor holds a member's role, or is owed a row about it.
Granted(h, u) ==
  row[u] # None /\ grant[h][u] # row[u] /\ <<h, u>> \notin Unknown => Queued(h, "MEMBER_ADD", u)

\* A replay on its way: what its row asked for is done before the row is deleted.
ReplayUnderWay ==
  LET op == pass.at IN
  /\ pass.pc = "call" /\ op.kind = "MEMBER_ADD" => pass.want = row[op.key]
  /\ pass.pc = "members" =>
       \A u \in User :
         IF pass.todo[u] # None THEN pass.todo[u] = row[u] ELSE Granted(pass.registry, u)
  /\ pass.pc = "delete" /\ op.kind = "PROJECT_CREATE" =>
       \A u \in User : Granted(pass.registry, u)
  /\ pass.pc = "delete" /\ op.kind = "MEMBER_ADD" =>
       row[op.key] \in {None, grant[pass.registry][op.key]}
  /\ Heard /\ pass.pc = "delete" /\ op.kind = "MEMBER_REMOVE" =>
       grant[pass.registry][op.key] = None

\* The circumstances in which requests about a person do not cross.
Careful == Apart /\ Patient

Owing ==
  /\ RemovalsAreTrue
  /\ \A u \in User : ~Served(u) => Accounted(u)
  /\ \A m \in Manager : GrantUnderWay(m) /\ RevocationUnderWay(m)
  /\ ReplayUnderWay

OwedInv == ApartInv /\ (crashes = 0 => Owing)

\* A handler moves only what is about its person.
LEMMA HandFrame ==
  ASSUME ApartInv, NEW m \in Manager, Handler(m)
  PROVE  /\ \A v \in User : v # hand[m].user =>
              /\ row'[v] = row[v] /\ born'[v] = born[v]
              /\ \A h \in Harbor : grant'[h][v] = grant[h][v]
         /\ \A op : op.kind \notin Grants \/ op.key # hand[m].user =>
              (op \in queue' <=> op \in queue)
<1>a. /\ TypeInv /\ SeenIsQueued /\ HandOK(hand[m])
      /\ row \in [User -> Role \union {None}] /\ born \in [User -> Nat]
      /\ grant \in [Harbor -> [User -> Role \union {None}]]
  BY DEF ApartInv, TypeInv, TypeOK
<1> DEFINE Same == \A v \in User : v # hand[m].user =>
                     /\ row'[v] = row[v] /\ born'[v] = born[v]
                     /\ \A h \in Harbor : grant'[h][v] = grant[h][v]
<1>1. Same
  <2>1. CASE SaveUpsert(m)
    BY <2>1, <1>a DEF SaveUpsert
  <2>2. CASE SaveLoad(m)
    BY <2>2 DEF SaveLoad
  <2>3. CASE SaveDone(m)
    BY <2>3 DEF SaveDone
  <2>4. CASE Forget(m)
    BY <2>4 DEF Forget
  <2>5. CASE Unrow(m)
    BY <2>5, <1>a DEF Unrow
  <2>6. CASE RemoveDone(m)
    BY <2>6, <1>a DEF RemoveDone
  <2>7. CASE EnqueueWrite(m)
    BY <2>7 DEF EnqueueWrite
  <2>8. ASSUME NEW h \in Harbor,
               FanOutReached(m, h) \/ FanOutFailed(m, h) \/ FanOutUnknown(m, h) \/ EnqueueRead(m, h)
        PROVE  Same
    <3>1. /\ UNCHANGED <<row, born>>
          /\ UNCHANGED grant \/ grant' = [grant EXCEPT ![h][hand[m].user] = hand[m].want]
      BY <2>8 DEF FanOutReached, FanOutFailed, FanOutUnknown, EnqueueRead
    <3> QED
      BY <3>1, <1>a
  <2> QED
    BY <2>1, <2>2, <2>3, <2>4, <2>5, <2>6, <2>7, <2>8 DEF Handler
<1>2. ASSUME NEW op, op.kind \notin Grants \/ op.key # hand[m].user
      PROVE  op \in queue' <=> op \in queue
  <2>1. CASE queue' = queue
    BY <2>1
  <2>2. CASE queue' = {o \in queue : ~(o.kind \in Grants /\ o.key = hand[m].user)}
    BY <1>2, <2>2
  <2>3. CASE /\ hand[m].pc = "enqueue"
             /\ queue' = (queue \ hand[m].seen)
                           \union {Row(nextId, hand[m].at, hand[m].kind, hand[m].user)}
    <3>1. hand[m].seen = Subject(queue, hand[m].at, Grants, hand[m].user)
      BY <1>a, <2>3 DEF SeenIsQueued
    <3>2. hand[m].kind \in Grants
      BY <1>a DEF HandOK, Hand
    <3> QED
      BY <1>2, <2>3, <3>1, <3>2 DEF Subject, Row
  <2> QED
    BY <1>a, <2>1, <2>2, <2>3, HandQueue
<1> QED
  BY <1>1, <1>2

\* A step of a handler keeps what is owed when it keeps what is owed to its person.
LEMMA OthersStay ==
  ASSUME ApartInv, ApartInv', Owing, NEW m \in Manager, Handler(m), NEW u \in User, u = hand[m].user,
         \A op \in queue' : Removal(op) /\ op.key = u =>
           IF hand'[m].pc = "idle" THEN row'[u] = None ELSE hand'[m].kind = "MEMBER_REMOVE",
         \A h \in Harbor : Queued(h, "MEMBER_REMOVE", u) => Queued(h, "MEMBER_REMOVE", u)',
         hand'[m].pc = "idle" => Accounted(u)',
         GrantUnderWay(m)', RevocationUnderWay(m)'
  PROVE  Owing'
<1>a. /\ TypeInv /\ OneAtATime /\ HandOK(hand[m]) /\ PassOK(pass)
      /\ queue \subseteq GoodOp /\ queue' \subseteq GoodOp
      /\ \A n \in Manager : HandOK(hand[n])
  BY DEF ApartInv, TypeInv
<1>b. /\ \A v \in User : v # u =>
           /\ row'[v] = row[v] /\ born'[v] = born[v]
           /\ \A h \in Harbor : grant'[h][v] = grant[h][v]
      /\ \A op : op.kind \notin Grants \/ op.key # u => (op \in queue' <=> op \in queue)
  BY HandFrame
<1>c. /\ hand[m].pc # "idle" /\ pass' = pass
      /\ \A n \in Manager : n # m => hand'[n] = hand[n]
      /\ hand'[m].pc # "idle" => hand'[m].user = u /\ hand'[m].kind = hand[m].kind
  BY <1>a, HandStep DEF IdleHand
<1>d. \A n \in Manager : n # m /\ hand[n].pc # "idle" => hand[n].user \in User /\ hand[n].user # u
  BY <1>a, <1>c DEF HandOK, OneAtATime
<1>e. pass.pc \in {"call", "members", "delete"} =>
        pass.at.kind # "PROJECT_CREATE" /\ pass.at.key # u /\ pass.at.key \in User
  <2>1. pass.pc \in {"call", "members", "delete"} => ~Touches(pass.at, u) /\ pass.at \in GoodOp
    BY <1>a, <1>c DEF OneAtATime, PassOK
  <2> QED
    BY <2>1 DEF Touches, GoodOp, Op, Kind, Grants
<1>f. \A h \in Harbor : /\ \A v \in User : v # u =>
                             /\ Queued(h, "MEMBER_ADD", v) <=> Queued(h, "MEMBER_ADD", v)'
                             /\ Queued(h, "MEMBER_REMOVE", v) <=> Queued(h, "MEMBER_REMOVE", v)'
                        /\ Queued(h, "PROJECT_CREATE", None) <=> Queued(h, "PROJECT_CREATE", None)'
  BY <1>b DEF Queued, Subject, Grants
<1>1. RemovalsAreTrue'
  <2>1. ASSUME NEW op \in queue', Removal(op)
        PROVE  row'[op.key] = None \/ BeingRemoved(op.key)'
    <3>1. CASE op.key = u
      BY <1>c, <2>1, <3>1 DEF BeingRemoved
    <3>2. CASE op.key # u
      <4>1. op \in queue /\ op.key \in User
        BY <1>a, <1>b, <2>1, <3>2 DEF GoodOp, Removal, Grants
      <4>2. row[op.key] = None \/ BeingRemoved(op.key)
        BY <2>1, <4>1 DEF Owing, RemovalsAreTrue
      <4>3. BeingRemoved(op.key) => BeingRemoved(op.key)'
        BY <1>c, <3>2 DEF BeingRemoved
      <4> QED
        BY <1>b, <3>2, <4>1, <4>2, <4>3
    <3> QED
      BY <3>1, <3>2
  <2>2. ASSUME NEW n \in Manager, NEW op \in queue', hand'[n].pc # "idle",
               hand'[n].kind = "MEMBER_ADD", Removal(op)
        PROVE  op.key # hand'[n].user
    <3>1. CASE n = m
      BY <1>c, <2>2, <3>1
    <3>2. CASE n # m
      <4>1. hand'[n] = hand[n] /\ hand[n].user # u
        BY <1>c, <1>d, <2>2, <3>2
      <4>2. op \in queue => op.key # hand'[n].user
        BY <2>2, <4>1 DEF Owing, RemovalsAreTrue
      <4> QED
        BY <1>b, <4>1, <4>2
    <3> QED
      BY <3>1, <3>2
  <2>3. ASSUME NEW op \in pass.ops, Removal(op)
        PROVE  Queued(op.registry, "MEMBER_REMOVE", op.key)'
    <3>1. Queued(op.registry, "MEMBER_REMOVE", op.key)
      BY <2>3 DEF Owing, RemovalsAreTrue
    <3>2. op.registry \in Harbor /\ op.key \in User
      BY <1>a, <2>3 DEF PassOK, GoodOp, Op, Removal, Grants
    <3> QED
      BY <1>f, <3>1, <3>2
  <2> QED
    BY <1>c, <2>1, <2>2, <2>3 DEF RemovalsAreTrue, Owing
<1>2. ASSUME NEW v \in User, ~Served(v)'
      PROVE  Accounted(v)'
  <2>1. CASE v = u
    BY <1>2, <1>c, <2>1 DEF Served
  <2>2. CASE v # u
    <3>1. ~Served(v)
      BY <1>2, <1>c, <2>2 DEF Served
    <3>2. Accounted(v)
      BY <3>1 DEF Owing
    <3> QED
      BY <1>b, <1>f, <2>2, <3>2 DEF Accounted
  <2> QED
    BY <2>1, <2>2
<1>3. ASSUME NEW n \in Manager
      PROVE  GrantUnderWay(n)' /\ RevocationUnderWay(n)'
  <2>1. CASE n = m
    BY <2>1
  <2>2. CASE n # m /\ hand[n].pc = "idle"
    BY <1>c, <2>2 DEF GrantUnderWay, RevocationUnderWay
  <2>3. CASE n # m /\ hand[n].pc # "idle"
    <3>1. hand'[n] = hand[n] /\ hand[n].user \in User /\ hand[n].user # u
      BY <1>c, <1>d, <2>3
    <3>2. GrantUnderWay(n) /\ RevocationUnderWay(n)
      BY DEF Owing
    <3>3. DealtWith(hand[n]) \subseteq Harbor
      BY DEF DealtWith
    <3>4. GrantUnderWay(n)'
      BY <1>b, <1>f, <3>1, <3>2, <3>3 DEF GrantUnderWay
    <3>5. RevocationUnderWay(n)'
      BY <1>b, <1>f, <3>1, <3>2, <3>3 DEF RevocationUnderWay
    <3> QED
      BY <3>4, <3>5
  <2> QED
    BY <2>1, <2>2, <2>3
<1>4. ReplayUnderWay'
  <2>1. ReplayUnderWay
    BY DEF Owing
  <2>2. pass.pc # "idle" => pass.registry \in Harbor
    BY <1>a DEF PassOK
  <2>3. pass.pc = "members" => pass.at.kind = "PROJECT_CREATE"
    BY <1>a DEF PassOK
  <2> QED
    BY <1>b, <1>c, <1>e, <2>1, <2>2, <2>3 DEF ReplayUnderWay
<1> QED
  BY <1>1, <1>2, <1>3, <1>4 DEF Owing

\* A handler's own step keeps what is owed to its person.
LEMMA HandlerOwes ==
  ASSUME Careful, ApartInv, ApartInv', Owing, NEW m \in Manager, Handler(m),
         NEW u \in User, u = hand[m].user
  PROVE  Owing'
<1> DEFINE Removals == \A op \in queue' : Removal(op) /\ op.key = u =>
             IF hand'[m].pc = "idle" THEN row'[u] = None ELSE hand'[m].kind = "MEMBER_REMOVE"
           Keeps == \A h \in Harbor :
             Queued(h, "MEMBER_REMOVE", u) => Queued(h, "MEMBER_REMOVE", u)'
           Done == hand'[m].pc = "idle" => Accounted(u)'
           Own == Removals /\ Keeps /\ Done /\ GrantUnderWay(m)' /\ RevocationUnderWay(m)'
<1>a. /\ TypeInv /\ SeenIsQueued /\ HandOK(hand[m]) /\ hand \in [Manager -> Hand]
      /\ row \in [User -> Role \union {None}] /\ born \in [User -> Nat]
      /\ grant \in [Harbor -> [User -> Role \union {None}]]
      /\ GrantUnderWay(m) /\ RevocationUnderWay(m)
      /\ RemovalsAreTrue
  BY DEF ApartInv, TypeInv, TypeOK, Owing
<1>b. hand[m].pc # "idle" /\ hand[m] \in Hand
  BY <1>a, HandStep DEF HandOK
<1>c. hand[m].kind = "MEMBER_ADD" => \A op \in queue : Removal(op) => op.key # u
  BY <1>a, <1>b DEF RemovalsAreTrue
<1>d. /\ UNCHANGED queue => Keeps
      /\ hand[m].kind = "MEMBER_ADD" => Keeps
      /\ UNCHANGED queue /\ hand[m].kind = "MEMBER_ADD" => Removals
  BY <1>c DEF Queued, Subject, Removal
<1> SUFFICES Own
  BY OthersStay
<1>1. CASE SaveUpsert(m)
  <2>1. /\ row' = [row EXCEPT ![u] = hand[m].role] /\ hand[m].pc = "upsert"
        /\ hand'[m] = [hand[m] EXCEPT !.pc = "load", !.mine = born'[u]]
        /\ UNCHANGED <<grant, queue>>
    BY <1>1, <1>a DEF SaveUpsert
  <2>2. hand[m].kind = "MEMBER_ADD" /\ row'[u] \in Role
    BY <1>a, <1>b, <2>1 DEF HandOK
  <2>3. GrantUnderWay(m)'
    BY <1>a, <1>b, <2>1, <2>2, MembershipAssumption DEF GrantUnderWay, Hand
  <2>4. RevocationUnderWay(m)' /\ Done
    BY <1>b, <2>1, <2>2 DEF RevocationUnderWay, Hand
  <2> QED
    BY <1>d, <2>1, <2>2, <2>3, <2>4
<1>r. ASSUME RollBackCreation(m), hand[m].kind = "MEMBER_ADD", UNCHANGED <<row, born, grant, queue>>,
             ~hand[m].reached, hand[m].pc = "fanout", DealtWith(hand[m]) = Harbor
      PROVE  Own
  <2>1. hand'[m] = IF hand[m].had THEN IdleHand
                   ELSE [hand[m] EXCEPT !.pc = "forget", !.at = None, !.seen = {}]
    BY <1>a, <1>r DEF RollBackCreation
  <2>2. /\ row[u] = hand[m].want /\ hand[m].mine = born[u] /\ row[u] \in Role
        /\ \A h \in Harbor : \/ grant[h][u] = row[u] \/ <<h, u>> \in Unknown
                             \/ Queued(h, "MEMBER_ADD", u)
    BY <1>a, <1>b, <1>r DEF GrantUnderWay, HandOK
  <2>3. Accounted(u)'
    BY <1>r, <2>2, MembershipAssumption DEF Accounted, Queued
  <2>4. CASE hand[m].had
    BY <1>d, <1>r, <2>1, <2>3, <2>4 DEF IdleHand, GrantUnderWay, RevocationUnderWay, Hand
  <2>5. CASE ~hand[m].had
    <3>1. Heard => \A h \in Harbor : grant[h][u] = None
      BY <1>a, <1>r, <2>5 DEF GrantUnderWay
    <3>2. /\ hand'[m].pc = "forget" /\ hand'[m].user = u /\ hand'[m].kind = "MEMBER_ADD"
          /\ ~hand'[m].had /\ ~hand'[m].reached /\ hand'[m].mine = born[u]
      <4>1. hand'[m] = [hand[m] EXCEPT !.pc = "forget", !.at = None, !.seen = {}]
        BY <2>1, <2>5
      <4>2. hand[m].mine = born[u]
        BY <2>2
      <4> QED
        BY <1>b, <1>r, <4>1, <4>2, <2>5 DEF Hand
    <3>3. GrantUnderWay(m)' /\ RevocationUnderWay(m)'
      BY <1>r, <2>2, <3>1, <3>2, MembershipAssumption DEF GrantUnderWay, RevocationUnderWay
    <3> QED
      BY <1>d, <1>r, <3>2, <3>3
  <2> QED
    BY <2>4, <2>5
<1>2. CASE SaveLoad(m)
  <2>1. hand[m].pc = "load" /\ hand[m].kind = "MEMBER_ADD" /\ row[u] # None
    BY <1>2, <1>a DEF SaveLoad, HandOK, GrantUnderWay
  <2>2. /\ hand'[m] = [hand[m] EXCEPT !.pc = "fanout", !.want = row[u], !.todo = Harbor]
        /\ UNCHANGED <<row, born, grant, queue>>
    BY <1>2, <1>a, <2>1 DEF SaveLoad
  <2>3. DealtWith(hand'[m]) = {}
    BY <1>b, <2>2 DEF DealtWith, Hand
  <2>4. GrantUnderWay(m)'
    BY <1>a, <1>b, <2>1, <2>2, <2>3 DEF GrantUnderWay, Hand
  <2> QED
    BY <1>b, <1>d, <2>1, <2>2, <2>4 DEF RevocationUnderWay, Hand
<1>3. CASE SaveDone(m)
  <2>1. /\ hand[m].pc = "fanout" /\ hand[m].kind = "MEMBER_ADD"
        /\ hand[m].todo = {} /\ hand[m].failed = {}
        /\ UNCHANGED <<row, born, grant, queue>>
    BY <1>3 DEF SaveDone, FannedOut
  <2>2. DealtWith(hand[m]) = Harbor
    BY <1>a, <2>1, MembershipAssumption DEF DealtWith, HandOK
  <2>3. CASE ~hand[m].reached
    BY <1>3, <1>r, <2>1, <2>2, <2>3 DEF SaveDone
  <2>4. CASE hand[m].reached
    <3>1. hand'[m] = IdleHand
      BY <1>3, <1>a, <2>4 DEF SaveDone, Answer
    <3>2. /\ row[u] = hand[m].want /\ row[u] \in Role
          /\ \A h \in Harbor : \/ grant[h][u] = row[u] \/ <<h, u>> \in Unknown
                               \/ Queued(h, "MEMBER_ADD", u)
      BY <1>a, <2>1, <2>2 DEF GrantUnderWay, HandOK
    <3>3. Accounted(u)'
      BY <2>1, <3>2, MembershipAssumption DEF Accounted, Queued
    <3> QED
      BY <1>d, <2>1, <3>1, <3>3 DEF IdleHand, GrantUnderWay, RevocationUnderWay
  <2> QED
    BY <2>3, <2>4
<1>4. CASE Forget(m)
  <2>1. /\ hand[m].pc = "forget" /\ hand'[m] = [hand[m] EXCEPT !.pc = "unrow"]
        /\ queue' \subseteq queue /\ UNCHANGED <<row, born, grant>>
    BY <1>4, <1>a DEF Forget
  <2>2. hand[m].kind = "MEMBER_ADD"
    BY <1>a, <2>1 DEF HandOK
  <2>3. GrantUnderWay(m)' /\ RevocationUnderWay(m)' /\ Done
    BY <1>a, <1>b, <2>1, <2>2 DEF GrantUnderWay, RevocationUnderWay, Hand
  <2>4. Removals
    BY <1>c, <2>1, <2>2
  <2> QED
    BY <1>d, <2>2, <2>3, <2>4
<1>5. CASE Unrow(m)
  <2>1. /\ hand[m].pc = "unrow" /\ hand'[m] = IdleHand /\ UNCHANGED <<grant, queue>>
        /\ row' = [row EXCEPT ![u] = IF born[u] = hand[m].mine THEN None ELSE @]
    BY <1>5, <1>a DEF Unrow, Answer
  <2>2. hand[m].kind = "MEMBER_ADD"
    BY <1>a, <2>1 DEF HandOK
  <2>3. row'[u] = None /\ (Heard => \A h \in Harbor : grant[h][u] = None)
    BY <1>a, <1>b, <2>1, <2>2 DEF GrantUnderWay
  <2>4. Accounted(u)'
    BY <2>1, <2>3 DEF Accounted
  <2> QED
    BY <1>d, <2>1, <2>2, <2>4 DEF IdleHand, GrantUnderWay, RevocationUnderWay
<1>6. CASE RemoveDone(m)
  <2>1. /\ hand[m].pc = "fanout" /\ hand[m].kind = "MEMBER_REMOVE"
        /\ hand[m].todo = {} /\ hand[m].failed = {}
        /\ hand'[m] = IdleHand /\ row' = [row EXCEPT ![u] = None]
        /\ UNCHANGED <<grant, queue>>
    BY <1>6, <1>a DEF RemoveDone, FannedOut, Answer
  <2>2. DealtWith(hand[m]) = Harbor
    BY <1>a, <2>1, MembershipAssumption DEF DealtWith, HandOK
  <2>3. /\ row'[u] = None
        /\ Heard => \A h \in Harbor : grant[h][u] = None \/ Queued(h, "MEMBER_REMOVE", u)
    BY <1>a, <1>b, <2>1, <2>2 DEF RevocationUnderWay
  <2>4. Accounted(u)'
    BY <2>1, <2>3 DEF Accounted, Queued
  <2>5. Removals
    BY <2>1, <2>3 DEF IdleHand
  <2> QED
    BY <1>d, <2>1, <2>4, <2>5 DEF IdleHand, GrantUnderWay, RevocationUnderWay
<1>7. CASE EnqueueWrite(m)
  <2>h. PICK h \in Harbor : h = hand[m].at
    BY <1>7, <1>a DEF EnqueueWrite, HandOK
  <2> DEFINE kept == {op \in hand[m].seen : op.kind = hand[m].kind /\ op.kind = "MEMBER_ADD"}
             new == Row(nextId, h, hand[m].kind, u)
  <2>1. /\ hand[m].pc = "enqueue"
        /\ hand[m].seen = Subject(queue, h, Grants, u) /\ kept \subseteq queue
    BY <1>7, <1>a, <2>h DEF EnqueueWrite, SeenIsQueued, Subject
  <2>2. /\ hand'[m] = [hand[m] EXCEPT !.pc = "fanout", !.at = None, !.seen = {}]
        /\ UNCHANGED <<row, born, grant>>
    BY <1>7, <1>a, <2>1 DEF EnqueueWrite
  <2>3. IF kept # {} THEN queue' = queue ELSE queue' = (queue \ hand[m].seen) \union {new}
    BY <1>7, <2>h DEF EnqueueWrite
  <2>4. new.registry = h /\ new.kind = hand[m].kind /\ new.key = u
    BY DEF Row
  <2>5. \A x \in Harbor : x # h => Subject(queue, x, Grants, u) \subseteq queue'
    BY <2>1, <2>3 DEF Subject
  <2>6. DealtWith(hand'[m]) \subseteq DealtWith(hand[m]) \union {h}
    BY <1>b, <2>2, <2>h DEF DealtWith, Hand
  <2>7. CASE hand[m].kind = "MEMBER_ADD"
    <3>1. Queued(h, "MEMBER_ADD", u)'
      <4>1. ASSUME NEW op \in kept PROVE Queued(h, "MEMBER_ADD", u)'
        BY <2>1, <2>3, <4>1 DEF Queued, Subject
      <4>2. CASE kept = {}
        <5>1. new \in queue'
          BY <2>3, <4>2
        <5> HIDE DEF new
        <5> QED
          BY <2>4, <2>7, <5>1 DEF Queued, Subject
      <4> QED
        BY <4>1, <4>2
    <3>2. \A x \in Harbor : Queued(x, "MEMBER_ADD", u) => Queued(x, "MEMBER_ADD", u)'
      BY <2>5, <3>1 DEF Queued, Subject, Grants
    <3>3. GrantUnderWay(m)'
      <4>1. /\ hand'[m].pc = "fanout" /\ hand'[m].user = u /\ hand'[m].kind = "MEMBER_ADD"
            /\ hand'[m].want = hand[m].want /\ hand'[m].mine = hand[m].mine
            /\ hand'[m].had = hand[m].had /\ hand'[m].reached = hand[m].reached
        BY <1>b, <2>2, <2>7 DEF Hand
      <4>2. DealtWith(hand[m]) \subseteq Harbor
        BY DEF DealtWith
      <4> QED
        BY <1>a, <2>1, <2>2, <2>6, <2>7, <3>1, <3>2, <4>1, <4>2 DEF GrantUnderWay
    <3>4. Removals
      BY <1>c, <2>3, <2>4, <2>7 DEF Removal
    <3>5. RevocationUnderWay(m)' /\ Done
      BY <1>b, <2>2, <2>7 DEF RevocationUnderWay, Hand
    <3> QED
      BY <1>d, <2>7, <3>3, <3>4, <3>5
  <2>8. CASE hand[m].kind = "MEMBER_REMOVE"
    <3>1. Queued(h, "MEMBER_REMOVE", u)'
      <4>1. new \in queue'
        BY <2>3, <2>8
      <4> HIDE DEF new
      <4> QED
        BY <2>4, <2>8, <4>1 DEF Queued, Subject
    <3>2. Keeps
      BY <2>5, <3>1 DEF Queued, Subject, Grants
    <3>3. RevocationUnderWay(m)'
      <4>1. hand'[m].user = u /\ hand'[m].kind = "MEMBER_REMOVE"
        BY <1>b, <2>2, <2>8 DEF Hand
      <4>2. DealtWith(hand[m]) \subseteq Harbor
        BY DEF DealtWith
      <4> QED
        BY <1>a, <1>b, <2>2, <2>6, <2>8, <3>1, <3>2, <4>1, <4>2 DEF RevocationUnderWay
    <3>4. GrantUnderWay(m)' /\ Removals /\ Done
      BY <1>b, <2>2, <2>8 DEF GrantUnderWay, Hand
    <3> QED
      BY <3>2, <3>3, <3>4
  <2> QED
    BY <1>b, <2>7, <2>8 DEF Hand, Grants
<1>8. ASSUME NEW h \in Harbor, FanOutReached(m, h) PROVE Own
  <2>1. /\ hand[m].pc = "fanout" /\ h \in hand[m].todo
        /\ hand'[m] = [hand[m] EXCEPT !.todo = @ \ {h}, !.reached = TRUE]
        /\ \/ grant' = [grant EXCEPT ![h][u] = hand[m].want]
           \/ ~Heard /\ hand[m].kind = "MEMBER_REMOVE" /\ UNCHANGED grant
        /\ UNCHANGED <<row, born, queue>>
    BY <1>8, <1>a DEF FanOutReached, Overlooked, Heard
  <2>2. /\ hand'[m].pc = "fanout" /\ hand'[m].user = u /\ hand'[m].kind = hand[m].kind
        /\ hand'[m].want = hand[m].want /\ hand'[m].mine = hand[m].mine /\ hand'[m].reached
    BY <1>b, <2>1 DEF Hand
  <2>3. /\ DealtWith(hand'[m]) \subseteq DealtWith(hand[m]) \union {h}
        /\ DealtWith(hand[m]) \subseteq Harbor
    BY <1>b, <2>1 DEF DealtWith, Hand
  <2>4. /\ grant'[h][u] = hand[m].want \/ (~Heard /\ hand[m].kind = "MEMBER_REMOVE")
        /\ \A x \in Harbor : x # h => grant'[x][u] = grant[x][u]
    BY <1>a, <2>1
  <2>5. GrantUnderWay(m)'
    BY <1>a, <2>1, <2>2, <2>3, <2>4 DEF GrantUnderWay, Queued
  <2>6. RevocationUnderWay(m)'
    <3>1. hand[m].kind = "MEMBER_REMOVE" => hand[m].want = None
      BY <1>a, <2>1 DEF HandOK
    <3> QED
      BY <1>a, <2>1, <2>2, <2>3, <2>4, <3>1 DEF RevocationUnderWay, Queued
  <2> QED
    BY <1>b, <1>d, <2>1, <2>2, <2>5, <2>6 DEF Hand, Grants
<1>9. ASSUME NEW h \in Harbor, FanOutFailed(m, h) \/ FanOutUnknown(m, h) \/ EnqueueRead(m, h)
      PROVE  Own
  <2>1. /\ hand[m].pc = "fanout"
        /\ UNCHANGED <<row, born, queue>>
        /\ \/ UNCHANGED grant
           \/ ~Heard /\ FanOutFailed(m, h) /\ grant' = [grant EXCEPT ![h][u] = hand[m].want]
    BY <1>9 DEF FanOutFailed, FanOutUnknown, EnqueueRead, Heard
  <2>2. /\ hand'[m].pc \in {"fanout", "enqueue"}
        /\ hand'[m].user = u /\ hand'[m].kind = hand[m].kind
        /\ hand'[m].want = hand[m].want /\ hand'[m].mine = hand[m].mine
        /\ hand'[m].reached = hand[m].reached /\ hand'[m].had = hand[m].had
        /\ \/ DealtWith(hand'[m]) \subseteq DealtWith(hand[m])
           \/ /\ hand[m].kind = "MEMBER_ADD" /\ <<h, u>> \in Unknown
              /\ DealtWith(hand'[m]) \subseteq DealtWith(hand[m]) \union {h}
    <3>1. CASE FanOutFailed(m, h)
      <4>1. hand'[m] = [hand[m] EXCEPT !.todo = @ \ {h}, !.failed = @ \union {h}]
        BY <3>1, <1>a DEF FanOutFailed
      <4> QED
        BY <1>b, <2>1, <4>1 DEF Hand, DealtWith
    <3>2. CASE FanOutUnknown(m, h)
      <4>1. /\ hand'[m] = [hand[m] EXCEPT !.todo = @ \ {h}]
            /\ hand[m].kind = "MEMBER_ADD" /\ <<h, u>> \in Unknown
        BY <3>2, <1>a DEF FanOutUnknown
      <4> QED
        BY <1>b, <2>1, <4>1 DEF Hand, DealtWith
    <3>3. CASE EnqueueRead(m, h)
      <4>1. hand'[m] = [hand[m] EXCEPT !.pc = "enqueue", !.at = h, !.failed = @ \ {h},
                                       !.seen = Subject(queue, h, Grants, hand[m].user)]
        BY <3>3, <1>a DEF EnqueueRead
      <4>2. h \in hand[m].failed /\ hand[m].at = None
        BY <3>3, <1>a DEF EnqueueRead, HandOK
      <4>3. DealtWith(hand'[m]) \subseteq DealtWith(hand[m])
        BY <1>b, <4>1, <4>2, MembershipAssumption DEF Hand, DealtWith
      <4> QED
        BY <1>b, <2>1, <4>1, <4>3 DEF Hand
    <3> QED
      BY <1>9, <3>1, <3>2, <3>3
  <2>3. DealtWith(hand[m]) \subseteq Harbor /\ DealtWith(hand'[m]) \subseteq Harbor
    BY DEF DealtWith
  <2>g. /\ Heard => UNCHANGED grant
        /\ \A x \in DealtWith(hand'[m]) : grant'[x][u] = grant[x][u]
    <3>1. FanOutFailed(m, h) => h \notin DealtWith(hand'[m])
      <4>1. FanOutFailed(m, h) => h \in hand'[m].failed
        BY <1>a, <1>b DEF FanOutFailed, Hand
      <4> QED
        BY <4>1 DEF DealtWith
    <3> QED
      BY <1>a, <2>1, <2>3, <3>1
  <2>4. GrantUnderWay(m)'
    BY <1>a, <2>1, <2>2, <2>3, <2>g DEF GrantUnderWay, Queued
  <2>5. RevocationUnderWay(m)'
    BY <1>a, <2>1, <2>2, <2>3, <2>g DEF RevocationUnderWay, Queued
  <2> QED
    BY <1>b, <1>d, <2>1, <2>2, <2>4, <2>5 DEF Hand, Grants
<1> QED
  BY <1>1, <1>2, <1>3, <1>4, <1>5, <1>6, <1>7, <1>8, <1>9 DEF Handler

\* A request that begins finds everything about its person accounted for, and no
\* removal queued if it grants.
LEMMA BeginOwes ==
  ASSUME Careful, ApartInv, Owing, NEW m \in Manager, NEW u \in User,
         Remove(m, u) \/ \E r \in Role : Save(m, u, r)
  PROVE  Owing'
<1>a. /\ TypeInv /\ hand \in [Manager -> Hand] /\ PassOK(pass)
      /\ RemovalsAreTrue /\ ReplayUnderWay
      /\ \A n \in Manager : GrantUnderWay(n) /\ RevocationUnderWay(n)
  BY DEF ApartInv, TypeInv, TypeOK, Owing
<1>b. /\ UNCHANGED <<row, born, grant, queue, pass>>
      /\ ~Busy(u) /\ hand[m].pc = "idle"
      /\ \A n \in Manager : n # m => hand'[n] = hand[n]
      /\ hand'[m].user = u /\ hand'[m].pc # "idle"
  BY <1>a, Begins DEF Careful
<1>c. Accounted(u)
  <2>1. ~Served(u)
    BY <1>b DEF Served, Busy, Serving
  <2> QED
    BY <2>1 DEF Owing
<1> DEFINE Begun == /\ hand'[m].kind = "MEMBER_ADD" => ~RemovalQueued(u)
                   /\ GrantUnderWay(m)' /\ RevocationUnderWay(m)'
<1>1. Begun
  <2>1. CASE Remove(m, u)
    <3>1. hand'[m] = [IdleHand EXCEPT !.pc = "fanout", !.user = u,
                                      !.kind = "MEMBER_REMOVE", !.todo = Harbor]
      BY <1>a, <2>1 DEF Remove
    <3>2. DealtWith(hand'[m]) = {} /\ hand'[m].kind = "MEMBER_REMOVE" /\ hand'[m].pc = "fanout"
      BY <3>1 DEF DealtWith, IdleHand
    <3> QED
      BY <3>2 DEF GrantUnderWay, RevocationUnderWay
  <2>2. ASSUME NEW r \in Role, Save(m, u, r) PROVE Begun
    <3>1. /\ hand'[m] = [IdleHand EXCEPT !.pc = "upsert", !.user = u,
                                         !.role = r, !.had = row[u] # None]
          /\ ~RemovalQueued(u)
      BY <1>a, <2>2 DEF Save, Careful
    <3>2. /\ hand'[m].kind = "MEMBER_ADD" /\ hand'[m].pc = "upsert" /\ ~hand'[m].reached
          /\ hand'[m].had <=> row[u] # None
      BY <3>1 DEF IdleHand
    <3>3. Heard /\ row[u] = None => \A h \in Harbor : grant[h][u] = None
      BY <1>c, <3>1 DEF Accounted, RemovalQueued, Queued, Subject
    <3> QED
      BY <1>b, <3>1, <3>2, <3>3 DEF GrantUnderWay, RevocationUnderWay
  <2> QED
    BY <2>1, <2>2
<1>2. RemovalsAreTrue'
  <2>1. ASSUME NEW op \in queue, Removal(op)
        PROVE  row[op.key] = None \/ BeingRemoved(op.key)'
    BY <1>a, <1>b, <2>1 DEF RemovalsAreTrue, BeingRemoved
  <2>2. ASSUME NEW n \in Manager, NEW op \in queue, hand'[n].pc # "idle",
               hand'[n].kind = "MEMBER_ADD", Removal(op)
        PROVE  op.key # hand'[n].user
    <3>1. CASE n = m
      BY <1>1, <1>b, <2>2, <3>1 DEF RemovalQueued, Removal
    <3>2. CASE n # m
      BY <1>a, <1>b, <2>2, <3>2 DEF RemovalsAreTrue
    <3> QED
      BY <3>1, <3>2
  <2> QED
    BY <1>a, <1>b, <2>1, <2>2 DEF RemovalsAreTrue, Queued
<1>3. ASSUME NEW v \in User, ~Served(v)'
      PROVE  Accounted(v)'
  <2>1. ~Served(v)
    BY <1>b, <1>3 DEF Served
  <2> QED
    BY <1>b, <2>1 DEF Owing, Accounted, Queued
<1>4. ASSUME NEW n \in Manager, n # m
      PROVE  GrantUnderWay(n)' /\ RevocationUnderWay(n)'
  BY <1>a, <1>b, <1>4 DEF GrantUnderWay, RevocationUnderWay, Queued
<1>5. ReplayUnderWay'
  BY <1>a, <1>b DEF ReplayUnderWay, Granted, Queued
<1> QED
  BY <1>1, <1>2, <1>3, <1>4, <1>5 DEF Owing

\* A step of the pass keeps what is owed.
LEMMA PassOwes ==
  ASSUME Careful, ApartInv, ApartInv', Owing,
         (\E h \in Harbor : PassStart(h)) \/ Replay \/ PassEnds
  PROVE  Owing'
<1>a. /\ TypeInv /\ PassOK(pass) /\ OneAtATime /\ OneRow(queue)
      /\ queue \subseteq GoodOp /\ queue' \subseteq GoodOp
      /\ grant \in [Harbor -> [User -> Role \union {None}]]
      /\ row \in [User -> Role \union {None}]
      /\ RemovalsAreTrue /\ ReplayUnderWay
      /\ \A n \in Manager : GrantUnderWay(n) /\ RevocationUnderWay(n)
      /\ \A v \in User : ~Served(v) => Accounted(v)
  BY DEF ApartInv, TypeInv, TypeOK, Owing
<1>b. UNCHANGED <<hand, row, born>> /\ \A v \in User : Served(v)' <=> Served(v)
  BY <1>a, PassStep DEF Careful, Served
<1>c. pass.pc \in {"call", "members", "delete"} =>
        \A v \in User : Touches(pass.at, v) => ~Served(v)
  BY <1>a DEF OneAtATime, Served
<1>s. ASSUME UNCHANGED <<grant, queue>>, pass'.ops \subseteq pass.ops, ReplayUnderWay'
      PROVE  Owing'
  <2>1. RemovalsAreTrue'
    BY <1>a, <1>b, <1>s DEF RemovalsAreTrue, BeingRemoved, Queued, OneRow
  <2>2. \A n \in Manager : GrantUnderWay(n)' /\ RevocationUnderWay(n)'
    BY <1>a, <1>b, <1>s DEF GrantUnderWay, RevocationUnderWay, Queued
  <2>3. \A v \in User : ~Served(v)' => Accounted(v)'
    BY <1>a, <1>b, <1>s DEF Accounted, Queued
  <2> QED
    BY <1>s, <2>1, <2>2, <2>3 DEF Owing
<1>1. ASSUME NEW h \in Harbor, PassStart(h) PROVE Owing'
  <2>1. /\ pass'.ops = Owed(queue, h) /\ pass'.pc = "next" /\ UNCHANGED <<grant, queue>>
    BY <1>1 DEF PassStart, IdlePass
  <2>2. RemovalsAreTrue'
    BY <1>a, <1>b, <2>1 DEF RemovalsAreTrue, BeingRemoved, Queued, Subject, Owed, Removal, OneRow
  <2>3. \A n \in Manager : GrantUnderWay(n)' /\ RevocationUnderWay(n)'
    BY <1>a, <1>b, <2>1 DEF GrantUnderWay, RevocationUnderWay, Queued
  <2>4. \A v \in User : ~Served(v)' => Accounted(v)'
    BY <1>a, <1>b, <2>1 DEF Accounted, Queued
  <2> QED
    BY <2>1, <2>2, <2>3, <2>4 DEF Owing, ReplayUnderWay
<1>2. ASSUME NEW op \in pass.ops, PassTake(op) PROVE Owing'
  <2>1. /\ UNCHANGED <<grant, queue>> /\ pass'.ops = pass.ops /\ pass'.at = op
        /\ pass'.pc = IF op.kind = "MEMBER_ADD" /\ row[op.key] = None THEN "delete" ELSE "call"
        /\ pass'.want = IF op.kind = "MEMBER_ADD" THEN row[op.key] ELSE None
    BY <1>2, <1>a DEF PassTake, PassOK, Pass
  <2>2. ReplayUnderWay'
    BY <1>b, <2>1 DEF ReplayUnderWay
  <2> QED
    BY <1>s, <2>1, <2>2
<1>3. CASE PassMembersDone
  <2>1. /\ UNCHANGED <<grant, queue>> /\ pass'.ops = pass.ops /\ pass'.at = pass.at
        /\ pass'.registry = pass.registry /\ pass'.pc = "delete" /\ pass.pc = "members"
        /\ \A v \in User : pass.todo[v] = None
    BY <1>3, <1>a DEF PassMembersDone, PassOK, Pass, NoRoles
  <2>2. pass.at.kind = "PROJECT_CREATE"
    BY <1>a, <2>1 DEF PassOK
  <2>3. ReplayUnderWay'
    BY <1>a, <1>b, <2>1, <2>2 DEF ReplayUnderWay, Granted, Queued
  <2> QED
    BY <1>s, <2>1, <2>3
<1>4. CASE PassEnds
  <2>1. UNCHANGED <<grant, queue>> /\ pass'.ops = {} /\ pass'.pc = "idle"
    BY <1>4 DEF PassEnds, IdlePass
  <2> QED
    BY <1>s, <2>1 DEF ReplayUnderWay
<1>5. CASE PassCall
  <2>h. PICK h \in Harbor : h = pass.registry /\ pass.pc = "call"
    BY <1>5, <1>a DEF PassCall, PassOK
  <2>o. PICK op \in GoodOp : op = pass.at /\ op \in pass.ops /\ op.registry = h
    BY <1>a, <2>h DEF PassOK
  <2>1. CASE op.kind = "PROJECT_CREATE"
    <3>1. /\ UNCHANGED <<grant, queue>> /\ pass'.ops = pass.ops /\ pass'.pc = "members"
          /\ pass'.at = pass.at /\ pass'.registry = pass.registry /\ pass'.todo = row
      BY <1>5, <1>a, <2>o, <2>1 DEF PassCall, PassOK, Pass
    <3>2. ReplayUnderWay'
      BY <1>b, <3>1 DEF ReplayUnderWay, Granted
    <3> QED
      BY <1>s, <3>1, <3>2
  <2>2. CASE op.kind # "PROJECT_CREATE"
    <3>u. PICK u \in User : u = op.key
      BY <2>2 DEF GoodOp, Op, Kind, Grants
    <3>1. /\ \/ grant' = [grant EXCEPT ![h][u] = pass.want]
             \/ ~Heard /\ op.kind = "MEMBER_REMOVE" /\ UNCHANGED grant
          /\ UNCHANGED queue
          /\ pass'.ops = pass.ops /\ pass'.pc = "delete"
          /\ pass'.at = pass.at /\ pass'.registry = pass.registry
      BY <1>5, <1>a, <2>h, <2>o, <2>2, <3>u DEF PassCall, PassOK, Pass, Overlooked, Heard
    <3>2. /\ grant'[h][u] = pass.want \/ (~Heard /\ op.kind = "MEMBER_REMOVE")
          /\ \A x \in Harbor, v \in User : x # h \/ v # u => grant'[x][v] = grant[x][v]
      BY <1>a, <3>1
    <3>3. ~Served(u)
      BY <1>c, <2>h, <2>o, <3>u DEF Touches
    <3>4. pass.want = row[u]
      <4>1. CASE op.kind = "MEMBER_ADD"
        BY <1>a, <2>h, <2>o, <3>u, <4>1 DEF ReplayUnderWay
      <4>2. CASE op.kind = "MEMBER_REMOVE"
        <5>1. pass.want = None
          BY <1>a, <2>h, <2>o, <4>2 DEF PassOK
        <5>2. PICK other \in queue : Removal(other) /\ other.key = u
          BY <1>a, <2>o, <3>u, <4>2 DEF RemovalsAreTrue, Queued, Subject, Removal
        <5>3. ~BeingRemoved(u)
          BY <3>3 DEF BeingRemoved, Served
        <5> QED
          BY <1>a, <5>1, <5>2, <5>3 DEF RemovalsAreTrue
      <4> QED
        BY <2>2, <4>1, <4>2 DEF GoodOp, Op, Kind
    <3>5. RemovalsAreTrue'
      BY <1>a, <1>b, <3>1 DEF RemovalsAreTrue, BeingRemoved, Queued, OneRow
    <3>6. ASSUME NEW n \in Manager
          PROVE  GrantUnderWay(n)' /\ RevocationUnderWay(n)'
      <4>1. CASE hand[n].pc = "idle"
        BY <1>b, <4>1 DEF GrantUnderWay, RevocationUnderWay
      <4>2. CASE hand[n].pc # "idle"
        <5>1. hand[n].user \in User /\ hand[n].user # u
          BY <1>a, <3>3, <4>2 DEF Served, TypeInv, HandOK
        <5>2. DealtWith(hand[n]) \subseteq Harbor
          BY DEF DealtWith
        <5> QED
          BY <1>a, <1>b, <3>1, <3>2, <5>1, <5>2 DEF GrantUnderWay, RevocationUnderWay, Queued
      <4> QED
        BY <4>1, <4>2
    <3>7. ASSUME NEW v \in User, ~Served(v)'
          PROVE  Accounted(v)'
      <4>1. op.kind = "MEMBER_REMOVE" => row[u] = None
        BY <1>a, <2>h, <2>o, <3>4 DEF PassOK
      <4> QED
        BY <1>a, <1>b, <3>1, <3>2, <3>4, <3>7, <4>1 DEF Accounted, Queued
    <3>8. ReplayUnderWay'
      <4>1. pass'.pc = "delete" /\ pass'.at = op /\ pass'.registry = h
        BY <2>h, <2>o, <3>1
      <4>2. op.kind = "MEMBER_REMOVE" => pass.want = None
        BY <1>a, <2>h, <2>o DEF PassOK
      <4> QED
        BY <1>b, <2>2, <3>u, <3>2, <3>4, <4>1, <4>2 DEF ReplayUnderWay
    <3> QED
      BY <3>5, <3>6, <3>7, <3>8 DEF Owing
  <2> QED
    BY <2>1, <2>2
<1>6. ASSUME NEW u \in User, PassMember(u) PROVE Owing'
  <2>h. PICK h \in Harbor : h = pass.registry /\ pass.pc = "members"
    BY <1>6, <1>a DEF PassMember, PassOK
  <2>1. \A n \in Manager : hand[n].pc = "idle"
    <3>1. pass.at.kind = "PROJECT_CREATE"
      BY <1>a, <2>h DEF PassOK
    <3> QED
      BY <1>a, <2>h, <3>1 DEF OneAtATime, Touches
  <2>2. row[u] # None /\ pass.todo[u] = row[u] /\ pass.todo \in [User -> Role \union {None}]
    BY <1>6, <1>a, <2>h DEF PassMember, ReplayUnderWay, PassOK, Pass
  <2>3. /\ pass'.pc = "members" /\ pass'.ops = pass.ops /\ pass'.registry = h
        /\ pass'.todo = [pass.todo EXCEPT ![u] = None]
    <3>1. pass' = [pass EXCEPT !.todo[u] = None]
      BY <1>6 DEF PassMember
    <3> QED
      BY <1>a, <2>h, <3>1 DEF PassOK, Pass
  <2>4. \A op \in queue : Removal(op) => op.key # u
    BY <1>a, <2>1, <2>2 DEF RemovalsAreTrue, BeingRemoved
  <2>5. /\ \/ UNCHANGED queue
           \/ queue' = EnqueueGrant(queue, nextId, h, "MEMBER_ADD",
                                    "MEMBER_ADD", "MEMBER_REMOVE", u)
        /\ \/ /\ UNCHANGED grant
              /\ \/ <<h, u>> \in Unknown
                 \/ queue' = EnqueueGrant(queue, nextId, h, "MEMBER_ADD",
                                          "MEMBER_ADD", "MEMBER_REMOVE", u)
           \/ grant' = [grant EXCEPT ![h][u] = row[u]]
    BY <1>6, <2>h, <2>2 DEF PassMember
  <2>6. ASSUME queue' = EnqueueGrant(queue, nextId, h, "MEMBER_ADD",
                                     "MEMBER_ADD", "MEMBER_REMOVE", u)
        PROVE  /\ queue \subseteq queue' /\ Queued(h, "MEMBER_ADD", u)'
               /\ \A op \in queue' : Removal(op) => op \in queue
    <3>1. CASE Subject(queue, h, {"MEMBER_ADD"}, u) # {}
      <4>1. queue' = queue
        BY <2>6, <3>1 DEF EnqueueGrant
      <4> QED
        BY <3>1, <4>1 DEF Queued
    <3>2. CASE Subject(queue, h, {"MEMBER_ADD"}, u) = {}
      <4> DEFINE new == Row(nextId, h, "MEMBER_ADD", u)
      <4>1. queue' = (queue \ Subject(queue, h, {"MEMBER_REMOVE"}, u)) \union {new}
        BY <2>6, <3>2 DEF EnqueueGrant
      <4>2. Subject(queue, h, {"MEMBER_REMOVE"}, u) = {}
        BY <2>4 DEF Subject, Removal
      <4>3. new.kind = "MEMBER_ADD" /\ new.registry = h /\ new.key = u /\ ~Removal(new)
        BY DEF Row, Removal
      <4> HIDE DEF new
      <4> QED
        BY <4>1, <4>2, <4>3 DEF Queued, Subject
    <3> QED
      BY <3>1, <3>2
  <2>7. /\ queue \subseteq queue' /\ \A op \in queue' : Removal(op) => op \in queue
        /\ \A x \in Harbor, v \in User : x # h \/ v # u => grant'[x][v] = grant[x][v]
        /\ grant'[h][u] = row[u] \/ <<h, u>> \in Unknown \/ Queued(h, "MEMBER_ADD", u)'
    BY <1>a, <2>5, <2>6
  <2>8. \A x \in Harbor : \A v :
          /\ Queued(x, "MEMBER_ADD", v) => Queued(x, "MEMBER_ADD", v)'
          /\ Queued(x, "MEMBER_REMOVE", v) => Queued(x, "MEMBER_REMOVE", v)'
          /\ Queued(x, "PROJECT_CREATE", None) => Queued(x, "PROJECT_CREATE", None)'
    BY <2>7 DEF Queued, Subject
  <2>9. RemovalsAreTrue'
    <3>1. \A op \in pass.ops : Removal(op) => Queued(op.registry, "MEMBER_REMOVE", op.key)'
      BY <1>a, <2>8 DEF RemovalsAreTrue, PassOK, GoodOp, Op
    <3> QED
      BY <1>a, <1>b, <2>1, <2>3, <2>7, <3>1 DEF RemovalsAreTrue, BeingRemoved
  <2>10. \A n \in Manager : GrantUnderWay(n)' /\ RevocationUnderWay(n)'
    BY <1>b, <2>1 DEF GrantUnderWay, RevocationUnderWay
  <2>11. ASSUME NEW v \in User, ~Served(v)'
         PROVE  Accounted(v)'
    BY <1>a, <1>b, <2>2, <2>7, <2>8, <2>11 DEF Accounted
  <2>12. ReplayUnderWay'
    BY <1>a, <1>b, <2>h, <2>2, <2>3, <2>7, <2>8 DEF ReplayUnderWay, Granted
  <2> QED
    BY <2>9, <2>10, <2>11, <2>12 DEF Owing
<1>7. CASE PassDelete
  <2>h. PICK h \in Harbor : h = pass.registry /\ pass.pc = "delete"
    BY <1>7, <1>a DEF PassDelete, PassOK
  <2>o. PICK op \in GoodOp : op = pass.at /\ op \in pass.ops /\ op.registry = h
    BY <1>a, <2>h DEF PassOK
  <2>1. /\ queue' = queue \ {op} /\ UNCHANGED grant
        /\ pass'.pc \in {"idle", "next"} /\ pass'.ops \subseteq pass.ops \ {op}
    BY <1>7, <2>o DEF PassDelete, IdlePass
  <2>2. \A x \in Harbor, k \in Kind : \A v :
          Queued(x, k, v) => Queued(x, k, v)' \/ (x = h /\ v = op.key /\ k = op.kind)
    BY <2>o, <2>1 DEF Queued, Subject
  <2>3. RemovalsAreTrue'
    <3>1. ASSUME NEW o \in pass'.ops, Removal(o)
          PROVE  Queued(o.registry, "MEMBER_REMOVE", o.key)'
      <4>1. o \in pass.ops /\ o # op /\ o.registry = h
        BY <1>a, <2>h, <2>1 DEF PassOK
      <4>2. Queued(h, "MEMBER_REMOVE", o.key)
        BY <1>a, <3>1, <4>1 DEF RemovalsAreTrue
      <4>3. ~(op.key = o.key /\ op.kind = "MEMBER_REMOVE")
        BY <1>a, <2>o, <3>1, <4>1 DEF RemovalsAreTrue, OneRow, Removal, Grants
      <4> QED
        BY <2>2, <4>1, <4>2, <4>3 DEF Kind
    <3>2. OneRow(pass'.ops)
      BY <1>a, <2>1 DEF RemovalsAreTrue, OneRow
    <3> QED
      BY <1>a, <1>b, <2>1, <3>1, <3>2 DEF RemovalsAreTrue, BeingRemoved
  <2>4. ASSUME NEW n \in Manager
        PROVE  GrantUnderWay(n)' /\ RevocationUnderWay(n)'
    <3>1. CASE hand[n].pc = "idle"
      BY <1>b, <3>1 DEF GrantUnderWay, RevocationUnderWay
    <3>2. CASE hand[n].pc # "idle"
      <4>1. hand[n].user # op.key
        BY <1>a, <2>h, <2>o, <3>2 DEF OneAtATime, Touches
      <4>2. DealtWith(hand[n]) \subseteq Harbor
        BY DEF DealtWith
      <4>3. \A x \in Harbor :
              /\ Queued(x, "MEMBER_ADD", hand[n].user) => Queued(x, "MEMBER_ADD", hand[n].user)'
              /\ Queued(x, "MEMBER_REMOVE", hand[n].user)
                   => Queued(x, "MEMBER_REMOVE", hand[n].user)'
        <5>1. PICK w : w = hand[n].user
          OBVIOUS
        <5>2. \A x \in Harbor : /\ Queued(x, "MEMBER_ADD", w) => Queued(x, "MEMBER_ADD", w)'
                                /\ Queued(x, "MEMBER_REMOVE", w) => Queued(x, "MEMBER_REMOVE", w)'
          BY <2>2, <4>1, <5>1 DEF Kind
        <5> QED
          BY <1>b, <5>1, <5>2
      <4> QED
        BY <1>a, <1>b, <2>1, <4>2, <4>3 DEF GrantUnderWay, RevocationUnderWay
    <3> QED
      BY <3>1, <3>2
  <2>5. ASSUME NEW v \in User, ~Served(v)'
        PROVE  Accounted(v)'
    <3>1. Accounted(v)
      BY <1>a, <1>b, <2>5
    <3>2. ASSUME NEW x \in Harbor, row[v] # None, grant[x][v] # row[v], <<x, v>> \notin Unknown
          PROVE  Queued(x, "MEMBER_ADD", v)' \/ Queued(x, "PROJECT_CREATE", None)'
      <4>1. CASE x = h /\ op.kind = "PROJECT_CREATE"
        <5>1. Queued(x, "MEMBER_ADD", v)
          BY <1>a, <2>h, <2>o, <3>2, <4>1 DEF ReplayUnderWay, Granted
        <5> QED
          BY <2>2, <4>1, <5>1 DEF Kind
      <4>2. CASE x = h /\ op.kind = "MEMBER_ADD" /\ op.key = v
        BY <1>a, <2>h, <2>o, <3>2, <4>2 DEF ReplayUnderWay
      <4>3. CASE ~(x = h /\ op.kind = "PROJECT_CREATE") /\ ~(x = h /\ op.kind = "MEMBER_ADD" /\ op.key = v)
        BY <2>2, <3>1, <3>2, <4>3 DEF Accounted, Kind
      <4> QED
        BY <4>1, <4>2, <4>3
    <3>3. ASSUME Heard, NEW x \in Harbor, row[v] = None, grant[x][v] # None
          PROVE  Queued(x, "MEMBER_REMOVE", v)'
      <4>1. ~(x = h /\ op.kind = "MEMBER_REMOVE" /\ op.key = v)
        BY <1>a, <2>h, <2>o, <3>3 DEF ReplayUnderWay
      <4> QED
        BY <2>2, <3>1, <3>3, <4>1 DEF Accounted, Kind
    <3> QED
      BY <1>b, <2>1, <3>2, <3>3 DEF Accounted
  <2> QED
    BY <2>1, <2>3, <2>4, <2>5 DEF Owing, ReplayUnderWay
<1> QED
  BY <1>1, <1>2, <1>3, <1>4, <1>5, <1>6, <1>7 DEF Replay

\* Nothing is owed but the project at first.
LEMMA OwedInit == Init => OwedInv
<1> SUFFICES ASSUME Init PROVE OwedInv
  OBVIOUS
<1>1. \A m \in Manager : hand[m].pc = "idle"
  BY DEF Init, IdleHand
<1>2. RemovalsAreTrue
  BY <1>1 DEF Init, RemovalsAreTrue, Removal, Row, IdlePass, OneRow
<1>3. \A u \in User : Accounted(u)
  BY DEF Init, Accounted, NoRoles
<1>4. ReplayUnderWay
  BY DEF Init, ReplayUnderWay, IdlePass
<1> QED
  BY <1>1, <1>2, <1>3, <1>4, ApartInit DEF OwedInv, Owing, GrantUnderWay, RevocationUnderWay

\* What is owed stays owed.
LEMMA OwedStays ==
  ASSUME Careful, OwedInv, [Next]_vars
  PROVE  OwedInv'
<1>1. ApartInv'
  BY ApartStays DEF Careful, OwedInv
<1>2. SUFFICES ASSUME crashes' = 0 PROVE Owing'
  BY <1>1 DEF OwedInv
<1>3. CASE UNCHANGED vars
  <2>1. Owing
    BY <1>2, <1>3 DEF vars, OwedInv
  <2> QED
    BY <1>3, <2>1 DEF vars, Owing, RemovalsAreTrue, BeingRemoved, Served, Accounted, Queued,
       GrantUnderWay, RevocationUnderWay, ReplayUnderWay, Granted
<1>4. CASE Next
  <2>a. ApartInv /\ TypeInv /\ crashes \in Nat
    BY DEF OwedInv, ApartInv, TypeInv, TypeOK
  <2>1. ASSUME NEW m \in Manager, NEW u \in User, Remove(m, u) \/ \E r \in Role : Save(m, u, r)
        PROVE  Owing'
    <3>1. crashes' = crashes
      BY <2>a, <2>1, Begins DEF Careful
    <3> QED
      BY <1>2, <2>a, <2>1, <3>1, BeginOwes DEF OwedInv
  <2>2. ASSUME NEW m \in Manager, Handler(m)
        PROVE  Owing'
    <3>1. crashes' = crashes
      BY <2>2 DEF Handler, SaveUpsert, SaveLoad, SaveDone, Forget, Unrow, RemoveDone, EnqueueWrite,
         FanOutReached, FanOutFailed, FanOutUnknown, EnqueueRead
    <3>2. hand[m].user \in User
      BY <2>a, <2>2, HandStep DEF TypeInv, HandOK
    <3> QED
      BY <1>1, <1>2, <2>a, <2>2, <3>1, <3>2, HandlerOwes DEF OwedInv
  <2>3. ASSUME NEW m \in Manager, Crash(m)
        PROVE  Owing'
    BY <1>2, <2>a, <2>3 DEF Crash
  <2>4. CASE (\E h \in Harbor : PassStart(h)) \/ Replay \/ PassEnds
    <3>1. crashes' = crashes
      BY <2>a, <2>4, PassStep DEF Careful
    <3> QED
      BY <1>1, <1>2, <2>a, <2>4, <3>1, PassOwes DEF OwedInv
  <2> QED
    BY <1>4, <2>1, <2>2, <2>3, <2>4 DEF Next
<1> QED
  BY <1>3, <1>4

\* Nobody and nothing is about a settled person.
LEMMA SettledIsUnserved ==
  ASSUME TypeInv, NEW u \in User, ~Busy(u)
  PROVE  ~Served(u)
  BY NotBusy DEF Served

\* When the requests about one person are neither interleaved nor crossed by a queued
\* removal, a Harbor that does not hold a member's role is owed it, even if lookups are
\* misread and answers lost (fanout.ts, project-members.ts).
THEOREM GrantHolds == ASSUME Careful PROVE Spec => []GrantIsOwed
<1>1. OwedInv => GrantIsOwed
  <2> SUFFICES ASSUME OwedInv, NEW h \in Harbor, NEW u \in User, row[u] # None,
                      grant[h][u] # row[u], <<h, u>> \notin Unknown, Settled(u)
               PROVE  Queued(h, "MEMBER_ADD", u) \/ Queued(h, "PROJECT_CREATE", None)
    BY DEF GrantIsOwed
  <2>1. Accounted(u)
    BY SettledIsUnserved DEF OwedInv, ApartInv, Owing, Settled
  <2> QED
    BY <2>1 DEF Accounted
<1>2. OwedInv /\ [Next]_vars => OwedInv'
  BY OwedStays
<1> QED
  BY <1>1, <1>2, OwedInit, PTL DEF Spec

\* If besides every call is heard of, a Harbor that still grants access to somebody no
\* longer listed is owed the revocation (the DELETE route).
THEOREM RevocationHolds == ASSUME Careful, Heard PROVE Spec => []RevocationIsOwed
<1>1. OwedInv => RevocationIsOwed
  <2> SUFFICES ASSUME OwedInv, NEW h \in Harbor, NEW u \in User, row[u] = None,
                      grant[h][u] # None, Settled(u)
               PROVE  Queued(h, "MEMBER_REMOVE", u)
    BY DEF RevocationIsOwed
  <2>1. Accounted(u)
    BY SettledIsUnserved DEF OwedInv, ApartInv, Owing, Settled
  <2> QED
    BY <2>1 DEF Accounted
<1>2. OwedInv /\ [Next]_vars => OwedInv'
  BY OwedStays
<1> QED
  BY <1>1, <1>2, OwedInit, PTL DEF Spec

=============================================================================
