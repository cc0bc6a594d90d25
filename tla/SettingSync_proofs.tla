------------------------- MODULE SettingSync_proofs -------------------------
(***************************************************************************)
(* What holds of a setting for any number of Harbors, of values and of     *)
(* handlers that change it.                                                *)
(***************************************************************************)
EXTENDS SettingSync, FiniteSetTheorems, TLAPS

\* What the constants have to be: the value a project starts with is one, and no row
\* is None.
Sorts == Initial \in Value /\ None \notin Op /\ MaxChanges \in Nat

-----------------------------------------------------------------------------
(* Types.                                                                  *)

\* What a handler knows at each of its steps.
HandOK(hd) ==
  /\ hd \in Hand
  /\ hd.pc # "idle" => hd.value \in Value /\ hd.previous \in Value
  /\ hd.pc = "enqueue" => hd.at \in Harbor

\* What the pass knows at each of its steps.
PassOK(ps) ==
  /\ ps \in Pass
  /\ ps.pc # "idle" => ps.registry \in Harbor
  /\ ps.pc \in {"idle", "next"} => ps.at = None
  /\ ps.pc \in {"call", "push", "delete"} => ps.at \in ps.ops /\ ps.want \in Value
  /\ ps.pc = "call" => ps.at.kind = "PROJECT_CREATE"
  /\ \A op \in ps.ops : op.registry = ps.registry

TypeInv ==
  /\ TypeOK
  /\ \A a \in Admin : HandOK(hand[a])
  /\ PassOK(pass)

\* One handler moves.
LEMMA HandMoves ==
  ASSUME TypeInv, NEW a \in Admin, NEW hd, HandOK(hd), hand' = [hand EXCEPT ![a] = hd]
  PROVE  hand' \in [Admin -> Hand] /\ \A b \in Admin : HandOK(hand'[b])
  BY DEF TypeInv, TypeOK, HandOK

\* A handler's step keeps the types.
LEMMA TypeHandler ==
  ASSUME Sorts, TypeInv, NEW a \in Admin, Handler(a) \/ \E v \in Value : Change(a, v)
  PROVE  TypeInv'
<1>a. HandOK(hand[a]) /\ hand \in [Admin -> Hand]
  BY DEF TypeInv, TypeOK
<1>c. /\ kind \in Setting /\ desired \in Value /\ held \in [Harbor -> Value]
      /\ project \in [Harbor -> {"absent", "there", "placed", "bound"}]
      /\ queue \subseteq Op /\ nextId \in Nat /\ changes \in 0..MaxChanges
  BY DEF TypeInv, TypeOK
<1>d. hand[a].pc # "idle" => hand[a].value \in Value /\ hand[a].previous \in Value
  BY <1>a DEF HandOK
<1>b. SUFFICES /\ hand' \in [Admin -> Hand] /\ \A b \in Admin : HandOK(hand'[b])
               /\ desired' \in Value /\ held' \in [Harbor -> Value]
               /\ project' \in [Harbor -> {"absent", "there", "placed", "bound"}]
               /\ queue' \subseteq Op /\ nextId' \in Nat /\ changes' \in 0..MaxChanges
               /\ UNCHANGED <<kind, pass>>
  BY DEF TypeInv, TypeOK, PassOK
<1>1. ASSUME NEW v \in Value, Change(a, v) PROVE <1>b!1
  <2>1. PICK hd : hd = [IdleHand EXCEPT !.pc = "read", !.value = v, !.previous = desired]
    OBVIOUS
  <2>2. HandOK(hd)
    BY <1>c, <2>1 DEF HandOK, Hand, IdleHand
  <2>3. /\ hand' = [hand EXCEPT ![a] = hd] /\ changes < MaxChanges /\ changes' = changes + 1
        /\ UNCHANGED <<kind, desired, held, project, queue, nextId, pass>>
    BY <1>1, <2>1 DEF Change
  <2>4. changes' \in 0..MaxChanges
    BY <1>c, <2>3 DEF Sorts
  <2> QED
    BY <1>c, <2>2, <2>3, <2>4, HandMoves
<1>2. CASE Record(a)
  <2>1. PICK hd : hd = [hand[a] EXCEPT !.pc = "fanout", !.todo = Harbor]
    OBVIOUS
  <2>2. HandOK(hd)
    BY <1>2, <1>a, <2>1 DEF Record, HandOK, Hand
  <2>3. hand' = [hand EXCEPT ![a] = hd]
    BY <1>2, <1>a, <2>1 DEF Record
  <2> QED
    BY <1>2, <1>c, <1>d, <2>2, <2>3, HandMoves DEF Record
<1>3. ASSUME NEW h \in Harbor, FanOutReached(a, h) PROVE <1>b!1
  <2>1. PICK hd : hd = [hand[a] EXCEPT !.todo = @ \ {h}, !.reached = TRUE]
    OBVIOUS
  <2>2. HandOK(hd)
    BY <1>a, <2>1 DEF HandOK, Hand
  <2>3. hand' = [hand EXCEPT ![a] = hd]
    BY <1>3, <1>a, <2>1 DEF FanOutReached
  <2> QED
    BY <1>3, <1>c, <1>d, <2>2, <2>3, HandMoves DEF FanOutReached, Recorded
<1>4. ASSUME NEW h \in Harbor, FanOutFailed(a, h) PROVE <1>b!1
  <2>1. PICK hd : hd = [hand[a] EXCEPT !.todo = @ \ {h}, !.failed = @ \union {h}]
    OBVIOUS
  <2>2. HandOK(hd)
    BY <1>a, <2>1 DEF HandOK, Hand
  <2>3. hand' = [hand EXCEPT ![a] = hd]
    BY <1>4, <1>a, <2>1 DEF FanOutFailed
  <2> QED
    BY <1>4, <1>c, <1>d, <2>2, <2>3, HandMoves DEF FanOutFailed
<1>5. ASSUME NEW h \in Harbor, FanOutRefused(a, h) PROVE <1>b!1
  <2>1. PICK hd : hd = [hand[a] EXCEPT !.todo = @ \ {h}]
    OBVIOUS
  <2>2. HandOK(hd)
    BY <1>a, <2>1 DEF HandOK, Hand
  <2>3. hand' = [hand EXCEPT ![a] = hd]
    BY <1>5, <1>a, <2>1 DEF FanOutRefused
  <2> QED
    BY <1>5, <1>c, <2>2, <2>3, HandMoves DEF FanOutRefused
<1>6. ASSUME NEW h \in Harbor, EnqueueRead(a, h) PROVE <1>b!1
  <2>1. PICK found \in Op \union {None} :
          hand' = [hand EXCEPT ![a].pc = "enqueue", ![a].at = h, ![a].found = found,
                     ![a].failed = @ \ {h}]
    BY <1>6, <1>c DEF EnqueueRead, Subject
  <2>2. PICK hd : hd = [hand[a] EXCEPT !.pc = "enqueue", !.at = h, !.found = found,
                          !.failed = @ \ {h}]
    OBVIOUS
  <2>3. HandOK(hd)
    BY <1>6, <1>a, <2>2 DEF EnqueueRead, HandOK, Hand
  <2>4. hand' = [hand EXCEPT ![a] = hd]
    BY <1>a, <2>1, <2>2
  <2> QED
    BY <1>6, <1>c, <2>3, <2>4, HandMoves DEF EnqueueRead
<1>7. CASE EnqueueWrite(a)
  <2>1. PICK pc \in {"fanout", "rollback", "idle"} :
          hand' = [hand EXCEPT ![a].at = None, ![a].found = None, ![a].pc = pc]
    BY <1>7 DEF EnqueueWrite
  <2>2. PICK hd : hd = [hand[a] EXCEPT !.at = None, !.found = None, !.pc = pc]
    OBVIOUS
  <2>3. HandOK(hd)
    BY <1>7, <1>a, <2>1, <2>2 DEF EnqueueWrite, HandOK, Hand
  <2>4. hand' = [hand EXCEPT ![a] = hd]
    BY <1>a, <2>1, <2>2
  <2>5. Row(nextId, hand[a].at, kind, None) \in Op
    BY <1>7, <1>a, <1>c DEF EnqueueWrite, HandOK, Row, Op, Kind
  <2>6. queue' \subseteq Op /\ nextId' \in Nat
    BY <1>7, <1>c, <2>5 DEF EnqueueWrite
  <2> QED
    BY <1>7, <1>c, <2>3, <2>4, <2>6, HandMoves DEF EnqueueWrite
<1>i. HandOK(IdleHand)
  BY DEF HandOK, Hand, IdleHand
<1>8. CASE ChangeDone(a)
  <2>1. CASE hand[a].reached \/ ~RollsBack
    BY <1>8, <1>c, <1>i, <2>1, HandMoves DEF ChangeDone, Answer
  <2>2. CASE ~(hand[a].reached \/ ~RollsBack)
    <3>1. PICK hd : hd = [hand[a] EXCEPT !.pc = "rollback"]
      OBVIOUS
    <3>2. HandOK(hd)
      BY <1>8, <1>a, <3>1 DEF ChangeDone, FannedOut, HandOK, Hand
    <3>3. hand' = [hand EXCEPT ![a] = hd]
      BY <1>8, <1>a, <2>2, <3>1 DEF ChangeDone
    <3> QED
      BY <1>8, <1>c, <3>2, <3>3, HandMoves DEF ChangeDone
  <2> QED
    BY <2>1, <2>2
<1>9. CASE RollBack(a)
  BY <1>9, <1>c, <1>d, <1>i, HandMoves DEF RollBack, Answer
<1> QED
  BY <1>1, <1>2, <1>3, <1>4, <1>5, <1>6, <1>7, <1>8, <1>9 DEF Handler

\* A step of the pass keeps the types.
LEMMA TypePass ==
  ASSUME Sorts, TypeInv, (\E h \in Harbor : PassStart(h)) \/ Replay \/ PassEnds
  PROVE  TypeInv'
<1>a. PassOK(pass) /\ kind \in Setting /\ queue \subseteq Op /\ nextId \in Nat
      /\ desired \in Value /\ held \in [Harbor -> Value]
      /\ project \in [Harbor -> {"absent", "there", "placed", "bound"}]
  BY DEF TypeInv, TypeOK
<1>b. SUFFICES /\ PassOK(pass')
               /\ queue' \subseteq Op /\ nextId' \in Nat
               /\ held' \in [Harbor -> Value]
               /\ project' \in [Harbor -> {"absent", "there", "placed", "bound"}]
               /\ UNCHANGED <<kind, desired, hand, changes>>
  BY DEF TypeInv, TypeOK, PassOK, HandOK
<1>i. PassOK(IdlePass)
  BY DEF PassOK, Pass, IdlePass
<1>p. pass \in Pass /\ (pass.pc # "idle" => pass.registry \in Harbor)
      /\ (pass.pc \in {"call", "push", "delete"} => pass.at \in pass.ops /\ pass.want \in Value)
  BY <1>a DEF PassOK
<1>1. ASSUME NEW h \in Harbor, PassStart(h) PROVE <1>b!1
  <2>1. PassOK([IdlePass EXCEPT !.pc = "next", !.registry = h, !.ops = Owed(queue, h)])
    BY <1>a DEF PassOK, Pass, IdlePass, Owed
  <2> QED
    BY <1>1, <1>a, <2>1 DEF PassStart
<1>2. ASSUME NEW op \in pass.ops, PassTake(op) PROVE <1>b!1
  <2>1. PassOK(pass')
    BY <1>2, <1>a DEF PassTake, PassOK, Pass
  <2> QED
    BY <1>2, <1>a, <2>1 DEF PassTake
<1>3. CASE PassCall
  <2>1. pass.pc = "call" /\ pass.registry \in Harbor /\ pass.want \in Value
        /\ UNCHANGED <<kind, desired, queue, nextId, hand, changes>>
    BY <1>3, <1>p DEF PassCall
  <2>2. /\ held' = held \/ held' = [held EXCEPT ![pass.registry] = pass.want]
        /\ \/ project' = project
           \/ project' = [project EXCEPT ![pass.registry] = "placed"]
           \/ project' = [project EXCEPT ![pass.registry] = "there"]
    BY <1>3 DEF PassCall
  <2>3. \/ pass' = IdlePass
        \/ pass' = [pass EXCEPT !.pc = "delete"]
        \/ pass' = [pass EXCEPT !.pc = "push"]
    BY <1>3 DEF PassCall
  <2>4. PassOK([pass EXCEPT !.pc = "delete"]) /\ PassOK([pass EXCEPT !.pc = "push"])
    BY <1>a, <2>1 DEF PassOK, Pass
  <2>5. PassOK(pass')
    BY <1>i, <2>3, <2>4
  <2>6. held' \in [Harbor -> Value]
    BY <1>a, <2>1, <2>2
  <2>7. project' \in [Harbor -> {"absent", "there", "placed", "bound"}]
    BY <1>a, <2>1, <2>2
  <2> QED
    BY <1>a, <2>1, <2>5, <2>6, <2>7
<1>4. CASE PassPush
  <2>1. PassOK(pass')
    BY <1>4, <1>a DEF PassPush, PassOK, Pass
  <2> QED
    BY <1>4, <1>a, <1>p, <2>1 DEF PassPush, Recorded
<1>5. CASE PassPushFails
  <2>1. PassOK(pass')
    BY <1>5, <1>a DEF PassPushFails, PassOK, Pass
  <2>2. Row(nextId, pass.registry, kind, None) \in Op
    BY <1>5, <1>a, <1>p DEF PassPushFails, Row, Op, Kind
  <2> QED
    BY <1>5, <1>a, <1>p, <2>1, <2>2 DEF PassPushFails, EnqueueOnce
<1>6. CASE PassDelete
  <2>1. PassOK(pass')
    BY <1>6, <1>a DEF PassDelete, PassOK, Pass, IdlePass
  <2> QED
    BY <1>6, <1>a, <2>1 DEF PassDelete
<1>7. CASE PassEnds
  BY <1>7, <1>a, <1>i DEF PassEnds
<1> QED
  BY <1>1, <1>2, <1>3, <1>4, <1>5, <1>6, <1>7 DEF Replay

\* The types hold at first.
LEMMA TypeInit == ASSUME Sorts, Init PROVE TypeInv
<1>1. kind \in Setting /\ desired \in Value /\ held \in [Harbor -> Value]
      /\ nextId \in Nat /\ changes \in 0..MaxChanges
      /\ project \in [Harbor -> {"absent", "there", "placed", "bound"}]
  BY DEF Init, Sorts
<1>2. queue \subseteq Op
  BY DEF Init, Row, Op, Kind
<1>3. HandOK(IdleHand) /\ PassOK(IdlePass)
  BY DEF HandOK, Hand, IdleHand, PassOK, Pass, IdlePass
<1>4. hand = [a \in Admin |-> IdleHand] /\ pass = IdlePass
  BY DEF Init
<1> QED
  BY <1>1, <1>2, <1>3, <1>4 DEF TypeInv, TypeOK, HandOK, PassOK

\* Any step keeps the types.
LEMMA TypeNext == ASSUME Sorts, TypeInv, [Next]_vars PROVE TypeInv'
<1>1. CASE UNCHANGED vars
  BY <1>1 DEF vars, TypeInv, TypeOK, HandOK, PassOK
<1>2. CASE Next
  BY <1>2, TypeHandler, TypePass DEF Next
<1> QED
  BY <1>1, <1>2

\* The value shown, what the Harbors hold, the queue, the handlers and the pass stay in
\* their ranges, whatever overlaps.
THEOREM TypeCorrect == ASSUME Sorts PROVE Spec => []TypeOK
<1>1. Init => TypeInv
  BY TypeInit
<1>2. TypeInv /\ [Next]_vars => TypeInv'
  BY TypeNext
<1>3. TypeInv => TypeOK
  BY DEF TypeInv
<1> QED
  BY <1>1, <1>2, <1>3, PTL DEF Spec

-----------------------------------------------------------------------------
(* One thing at a time.                                                    *)

\* The rows of the setting owed to a Harbor.
RowsOf(h) == Subject(queue, h, {kind}, None)

\* A handler has the table to itself, and what the pass has read is still queued.
OneAtATime ==
  /\ \A a, b \in Admin : hand[a].pc # "idle" /\ hand[b].pc # "idle" => a = b
  /\ Serving => pass.at = None
  /\ pass.ops \subseteq queue

\* The row that a handler found is there, and it missed none.
SeenIsQueued ==
  \A a \in Admin : hand[a].pc = "enqueue" =>
    IF hand[a].found = None THEN RowsOf(hand[a].at) = {}
    ELSE hand[a].found \in RowsOf(hand[a].at)

OneRow == \A h \in Harbor : \A x, y \in RowsOf(h) : x = y

ApartInv == TypeInv /\ OneAtATime /\ SeenIsQueued /\ OneRow

\* Whoever is at work is alone, and the pass has nothing in hand.
LEMMA Alone ==
  ASSUME Sorts, TypeInv, OneAtATime, NEW a \in Admin, hand[a].pc # "idle"
  PROVE  /\ Serving /\ pass.at = None /\ pass.pc \in {"idle", "next"}
         /\ \A b \in Admin \ {a} : hand[b].pc = "idle"
<1>1. Serving /\ pass.at = None /\ PassOK(pass)
  BY DEF OneAtATime, Serving, TypeInv
<1>2. pass.pc \in {"idle", "next"}
  <2>1. pass.pc \notin {"idle", "next"} => pass.at \in pass.ops
    BY <1>1 DEF PassOK, Pass
  <2>2. pass.at \in pass.ops => pass.at.registry = pass.registry /\ pass.at \in Op
    BY <1>1 DEF PassOK, Pass
  <2>3. pass.pc \notin {"idle", "next"} => pass.pc \in {"call", "push", "delete"}
    BY <1>1 DEF PassOK, Pass
  <2> QED
    BY <1>1, <2>1, <2>2, <2>3 DEF Sorts
<1> QED
  BY <1>1, <1>2 DEF OneAtATime

\* What a handler's step does to the queue and to what handlers know of it.
LEMMA HandlerQueue ==
  ASSUME Sorts, ApartInv, Apart, NEW a \in Admin, Handler(a) \/ \E v \in Value : Change(a, v)
  PROVE  /\ pass' = pass /\ kind' = kind /\ queue \subseteq queue'
         /\ pass.at = None /\ pass.pc \in {"idle", "next"}
         /\ \A b \in Admin \ {a} : hand[b].pc = "idle" /\ hand'[b] = hand[b]
         /\ hand'[a].pc = "enqueue" =>
              /\ queue' = queue
              /\ hand'[a].at \in Harbor
              /\ IF hand'[a].found = None THEN RowsOf(hand'[a].at) = {}
                 ELSE hand'[a].found \in RowsOf(hand'[a].at)
         /\ queue' # queue =>
              /\ hand[a].at \in Harbor /\ RowsOf(hand[a].at) = {}
              /\ queue' = queue \union {Row(nextId, hand[a].at, kind, None)}
<1>a. /\ TypeInv /\ OneAtATime /\ SeenIsQueued
      /\ HandOK(hand[a]) /\ hand \in [Admin -> Hand] /\ PassOK(pass)
  BY DEF ApartInv, TypeInv, TypeOK
<1>1. CASE \E v \in Value : Change(a, v)
  <2>1. PICK v \in Value : Change(a, v)
    BY <1>1
  <2>2. hand' = [hand EXCEPT ![a] = [IdleHand EXCEPT !.pc = "read", !.value = v,
                                      !.previous = desired]]
    BY <2>1 DEF Change
  <2>3. pass' = pass /\ kind' = kind /\ queue' = queue
    BY <2>1 DEF Change
  <2>4. ~Serving /\ pass.at = None
    BY <2>1 DEF Change
  <2>5. hand'[a].pc = "read"
    BY <1>a, <2>2 DEF IdleHand
  <2>6. pass.pc \in {"idle", "next"}
    BY <1>a, <2>4 DEF PassOK, Pass, Sorts
  <2> QED
    BY <1>a, <2>2, <2>3, <2>4, <2>5, <2>6 DEF Serving
<1>2. CASE Handler(a)
  <2>1. hand[a].pc # "idle"
    BY <1>2 DEF Handler, Record, EnqueueWrite, ChangeDone, FannedOut, RollBack, FanOutReached,
                FanOutFailed, FanOutRefused, EnqueueRead
  <2>2. /\ pass.at = None /\ pass.pc \in {"idle", "next"}
        /\ \A b \in Admin \ {a} : hand[b].pc = "idle"
    BY <1>a, <2>1, Alone
  <2>3. ASSUME NEW h \in Harbor, EnqueueRead(a, h)
        PROVE  /\ hand'[a].at \in Harbor
               /\ IF hand'[a].found = None THEN RowsOf(hand'[a].at) = {}
                  ELSE hand'[a].found \in RowsOf(hand'[a].at)
               /\ \A b \in Admin \ {a} : hand'[b] = hand[b]
               /\ pass' = pass /\ kind' = kind /\ queue' = queue
    <3>1. PICK found \in IF RowsOf(h) = {} THEN {None} ELSE RowsOf(h) :
            hand' = [hand EXCEPT ![a].pc = "enqueue", ![a].at = h, ![a].found = found,
                       ![a].failed = @ \ {h}]
      BY <2>3 DEF EnqueueRead, RowsOf
    <3>2. RowsOf(h) \subseteq Op
      BY <1>a DEF RowsOf, Subject, TypeInv, TypeOK
    <3>3. hand'[a].at = h /\ hand'[a].found = found
      BY <1>a, <3>1 DEF Hand
    <3> QED
      BY <1>a, <2>3, <3>1, <3>2, <3>3 DEF EnqueueRead, Sorts
  <2>4. CASE EnqueueWrite(a)
    <3>1. PICK pc \in {"fanout", "rollback", "idle"} :
            hand' = [hand EXCEPT ![a].at = None, ![a].found = None, ![a].pc = pc]
      BY <2>4 DEF EnqueueWrite
    <3>2. hand'[a].pc # "enqueue" /\ \A b \in Admin \ {a} : hand'[b] = hand[b]
      BY <1>a, <3>1 DEF Hand
    <3>3. hand[a].at \in Harbor /\ (hand[a].found = None => RowsOf(hand[a].at) = {})
      BY <1>a, <2>4 DEF EnqueueWrite, HandOK, SeenIsQueued
    <3>4. /\ pass' = pass /\ kind' = kind
          /\ queue' = queue \/ /\ hand[a].found = None
                               /\ queue' = queue \union {Row(nextId, hand[a].at, kind, None)}
      BY <2>4 DEF EnqueueWrite
    <3> QED
      BY <2>2, <3>2, <3>3, <3>4
  <2>5. CASE \/ Record(a) \/ ChangeDone(a) \/ RollBack(a)
             \/ \E h \in Harbor : FanOutReached(a, h) \/ FanOutFailed(a, h) \/ FanOutRefused(a, h)
    <3>1. pass' = pass /\ kind' = kind /\ queue' = queue
      BY <2>5 DEF Record, ChangeDone, RollBack, FanOutReached, FanOutFailed, FanOutRefused
    <3> DEFINE Else == hand'[a].pc # "enqueue" /\ \A b \in Admin \ {a} : hand'[b] = hand[b]
    <3>2. Else
      <4>1. CASE Record(a)
        BY <1>a, <4>1 DEF Record, Hand
      <4>2. CASE ChangeDone(a)
        BY <1>a, <4>2 DEF ChangeDone, Answer, IdleHand, FannedOut, Hand
      <4>3. CASE RollBack(a)
        BY <1>a, <4>3 DEF RollBack, Answer, IdleHand
      <4>4. ASSUME NEW h \in Harbor, FanOutReached(a, h) PROVE Else
        BY <1>a, <4>4 DEF FanOutReached, Hand
      <4>5. ASSUME NEW h \in Harbor, FanOutFailed(a, h) PROVE Else
        BY <1>a, <4>5 DEF FanOutFailed, Hand
      <4>6. ASSUME NEW h \in Harbor, FanOutRefused(a, h) PROVE Else
        BY <1>a, <4>6 DEF FanOutRefused, Hand
      <4> QED
        BY <2>5, <4>1, <4>2, <4>3, <4>4, <4>5, <4>6
    <3> QED
      BY <2>2, <3>1, <3>2
  <2> QED
    BY <1>2, <2>2, <2>3, <2>4, <2>5 DEF Handler
<1> QED
  BY <1>1, <1>2

\* A handler's step leaves one thing at a time.
LEMMA ApartHandler ==
  ASSUME Sorts, ApartInv, Apart, NEW a \in Admin, Handler(a) \/ \E v \in Value : Change(a, v)
  PROVE  ApartInv'
<1>1. TypeInv'
  BY TypeHandler DEF ApartInv
<1>2. /\ pass' = pass /\ kind' = kind /\ queue \subseteq queue'
      /\ pass.at = None
      /\ \A b \in Admin \ {a} : hand'[b].pc = "idle"
  BY HandlerQueue
<1>3. OneAtATime'
  BY <1>2 DEF OneAtATime, ApartInv
<1>4. SeenIsQueued'
  <2>1. hand'[a].pc = "enqueue" =>
          /\ queue' = queue
          /\ IF hand'[a].found = None THEN RowsOf(hand'[a].at) = {}
             ELSE hand'[a].found \in RowsOf(hand'[a].at)
    BY HandlerQueue
  <2> QED
    BY <1>2, <2>1 DEF SeenIsQueued, RowsOf
<1>5. OneRow'
  <2>1. CASE queue' = queue
    BY <1>2, <2>1 DEF ApartInv, OneRow, RowsOf
  <2>2. CASE queue' # queue
    <3>1. /\ hand[a].at \in Harbor /\ RowsOf(hand[a].at) = {}
          /\ queue' = queue \union {Row(nextId, hand[a].at, kind, None)}
      BY <2>2, HandlerQueue
    <3> SUFFICES ASSUME NEW h \in Harbor, NEW x \in RowsOf(h)', NEW y \in RowsOf(h)'
                 PROVE  x = y
      BY DEF OneRow
    <3>2. x \in queue' /\ y \in queue' /\ x.registry = h /\ y.registry = h
          /\ x.key = None /\ y.key = None /\ x.kind = kind /\ y.kind = kind
      BY <1>2 DEF RowsOf, Subject
    <3>3. Row(nextId, hand[a].at, kind, None).registry = hand[a].at
      BY DEF Row
    <3>4. CASE h = hand[a].at
      BY <3>1, <3>2, <3>4 DEF RowsOf, Subject
    <3>5. CASE h # hand[a].at
      BY <3>1, <3>2, <3>3, <3>5 DEF RowsOf, Subject, ApartInv, OneRow
    <3> QED
      BY <3>4, <3>5
  <2> QED
    BY <2>1, <2>2
<1> QED
  BY <1>1, <1>3, <1>4, <1>5 DEF ApartInv

\* A step of the pass leaves one thing at a time.
LEMMA ApartPass ==
  ASSUME Sorts, ApartInv, Apart, (\E h \in Harbor : PassStart(h)) \/ Replay \/ PassEnds
  PROVE  ApartInv'
<1>1. TypeInv'
  BY TypePass DEF ApartInv
<1>2. UNCHANGED <<kind, hand>>
  BY DEF PassStart, Replay, PassTake, PassCall, PassPush, PassPushFails, PassDelete, PassEnds
<1>a. TypeInv /\ OneAtATime /\ SeenIsQueued /\ OneRow /\ PassOK(pass)
  BY DEF ApartInv, TypeInv
<1>b. Serving' = Serving
  BY <1>2 DEF Serving
<1>3. CASE (\E h \in Harbor : PassStart(h)) \/ PassEnds
           \/ (\E op \in pass.ops : PassTake(op)) \/ PassCall \/ PassPush
  <2>1. queue' = queue
    BY <1>3 DEF PassStart, PassEnds, PassTake, PassCall, PassPush
  <2> DEFINE Kept == pass'.ops \subseteq queue /\ (Serving => pass'.at = None)
  <2>2. Kept
    <3>1. CASE \E h \in Harbor : PassStart(h)
      BY <3>1 DEF PassStart, IdlePass, Owed
    <3>2. CASE PassEnds
      BY <3>2 DEF PassEnds, IdlePass
    <3>3. ASSUME NEW op \in pass.ops, PassTake(op) PROVE Kept
      <4>1. pass'.ops = pass.ops
        BY <1>a, <3>3 DEF PassTake, PassOK, Pass
      <4>2. ~Serving
        BY <3>3 DEF PassTake
      <4> QED
        BY <1>a, <4>1, <4>2 DEF OneAtATime
    <3>4. CASE PassCall \/ PassPush
      <4>1. pass.pc \in {"call", "push"}
        BY <3>4 DEF PassCall, PassPush
      <4>2. ~Serving
        BY <1>a, <4>1 DEF OneAtATime, PassOK, Pass, Sorts
      <4>3. pass' = IdlePass \/ pass'.ops = pass.ops
        BY <1>a, <3>4 DEF PassCall, PassPush, PassOK, Pass
      <4> QED
        BY <1>a, <4>2, <4>3 DEF OneAtATime, IdlePass
    <3> QED
      BY <1>3, <3>1, <3>2, <3>3, <3>4
  <2> QED
    BY <1>1, <1>2, <1>a, <1>b, <2>1, <2>2
       DEF ApartInv, OneAtATime, SeenIsQueued, OneRow, RowsOf
<1>4. CASE PassPushFails \/ PassDelete
  <2>1. pass.pc \in {"push", "delete"} /\ pass.at \in pass.ops /\ pass.registry \in Harbor
    BY <1>4, <1>a DEF PassPushFails, PassDelete, PassOK
  <2>2. ~Serving
    BY <1>a, <2>1 DEF OneAtATime, PassOK, Pass, Sorts
  <2>3. pass'.ops \subseteq queue'
    <3>1. CASE PassPushFails
      BY <1>a, <3>1 DEF PassPushFails, EnqueueOnce, OneAtATime, PassOK, Pass
    <3>2. CASE PassDelete
      BY <1>a, <3>2 DEF PassDelete, IdlePass, OneAtATime
    <3> QED
      BY <1>4, <3>1, <3>2
  <2>4. OneAtATime'
    BY <1>2, <1>a, <1>b, <2>2, <2>3 DEF OneAtATime
  <2>5. SeenIsQueued'
    BY <1>2, <2>2 DEF SeenIsQueued, Serving
  <2>6. OneRow'
    <3> SUFFICES ASSUME NEW h \in Harbor, NEW x \in RowsOf(h)', NEW y \in RowsOf(h)'
                 PROVE  x = y
      BY DEF OneRow
    <3>1. x \in queue' /\ y \in queue' /\ x.registry = h /\ y.registry = h
          /\ x.key = None /\ y.key = None /\ x.kind = kind /\ y.kind = kind
      BY <1>2 DEF RowsOf, Subject
    <3>2. CASE queue' \subseteq queue
      BY <1>a, <3>1, <3>2 DEF OneRow, RowsOf, Subject
    <3>3. CASE /\ RowsOf(pass.registry) = {}
               /\ queue' = queue \union {Row(nextId, pass.registry, kind, None)}
      <4>1. Row(nextId, pass.registry, kind, None).registry = pass.registry
        BY DEF Row
      <4>2. CASE h = pass.registry
        BY <3>1, <3>3, <4>2 DEF RowsOf, Subject
      <4>3. CASE h # pass.registry
        BY <1>a, <3>1, <3>3, <4>1, <4>3 DEF RowsOf, Subject, OneRow
      <4> QED
        BY <4>2, <4>3
    <3>4. CASE PassDelete
      BY <3>2, <3>4 DEF PassDelete
    <3>5. CASE PassPushFails
      BY <3>2, <3>3, <3>5 DEF PassPushFails, EnqueueOnce, RowsOf
    <3> QED
      BY <1>4, <3>4, <3>5
  <2> QED
    BY <1>1, <2>4, <2>5, <2>6 DEF ApartInv
<1> QED
  BY <1>3, <1>4 DEF Replay

\* At first nobody is at work, and no row of the setting is queued.
LEMMA ApartInit == ASSUME Sorts, Init PROVE ApartInv
<1>1. /\ hand = [a \in Admin |-> IdleHand] /\ pass = IdlePass /\ kind \in Setting
      /\ \A op \in queue : op.kind = "PROJECT_CREATE"
  BY DEF Init, Row
<1>2. \A a \in Admin : hand[a].pc = "idle"
  BY <1>1 DEF IdleHand
<1>3. OneAtATime /\ SeenIsQueued
  BY <1>1, <1>2 DEF OneAtATime, SeenIsQueued, Serving, IdlePass
<1>4. OneRow
  BY <1>1 DEF OneRow, RowsOf, Subject, Setting
<1> QED
  BY <1>3, <1>4, TypeInit DEF ApartInv

\* Any step leaves one thing at a time.
LEMMA ApartNext == ASSUME Sorts, Apart, ApartInv, [Next]_vars PROVE ApartInv'
<1>1. CASE UNCHANGED vars
  <2>1. TypeInv'
    BY TypeNext DEF ApartInv
  <2> QED
    BY <1>1, <2>1 DEF vars, ApartInv, OneAtATime, SeenIsQueued, OneRow, RowsOf, Serving
<1>2. CASE Next
  BY <1>2, ApartHandler, ApartPass DEF Next
<1> QED
  BY <1>1, <1>2

\* A Harbor is owed at most one replay of the setting, for any number of Harbors and
\* handlers, when no handler overlaps another nor a replay.
THEOREM OneRowHolds == ASSUME Sorts, Apart PROVE Spec => []OneRowPerHarbor
<1>1. Init => ApartInv
  BY ApartInit
<1>2. ApartInv /\ [Next]_vars => ApartInv'
  BY ApartNext
<1>3. ApartInv => OneRowPerHarbor
  <2> SUFFICES ASSUME ApartInv, NEW h \in Harbor
               PROVE  Cardinality(Subject(queue, h, {kind}, None)) <= 1
    BY DEF OneRowPerHarbor
  <2>1. \A x, y \in RowsOf(h) : x = y
    BY DEF ApartInv, OneRow
  <2>2. CASE RowsOf(h) = {}
    BY <2>2, FS_EmptySet DEF RowsOf
  <2>3. CASE RowsOf(h) # {}
    <3>1. PICK x \in RowsOf(h) : RowsOf(h) = {x}
      BY <2>1, <2>3
    <3> QED
      BY <3>1, FS_Singleton DEF RowsOf
  <2> QED
    BY <2>2, <2>3
<1> QED
  BY <1>1, <1>2, <1>3, PTL DEF Spec

-----------------------------------------------------------------------------
(* What every Harbor is owed.                                              *)

\* Harbor h enforces v, or rejects it, or a replay is queued for it; placing the project
\* does not push a retention policy, so for that one the row has to be its own.
Settled(h, v) ==
  \/ held[h] = v
  \/ Retains /\ (v = Initial \/ RowsOf(h) # {})
  \/ ~Retains /\ (Refuses(h, v) \/ Owed(queue, h) # {})

\* The Harbors a handler has failed at and queued no row for.
Unqueued(hd) == hd.failed \union (IF hd.pc = "enqueue" THEN {hd.at} ELSE {})

\* Half way through a change, the Harbors it has dealt with are settled for the value set;
\* until one took a limit, all but those it failed at still are for the one to restore.
OwedBy(hd) ==
  /\ hd.pc = "read" =>
       hd.previous = desired /\ ~hd.reached /\ \A h \in Harbor : Settled(h, desired)
  /\ hd.pc \in {"fanout", "enqueue"} =>
       /\ desired = hd.value
       /\ \A h \in Harbor \ (hd.todo \union Unqueued(hd)) : Settled(h, desired)
       /\ RollsBack /\ ~hd.reached => \A h \in Harbor \ Unqueued(hd) : Settled(h, hd.previous)
  /\ hd.pc = "rollback" => \A h \in Harbor : Settled(h, hd.previous)

\* What the pass replays is the value shown, and a row it is about to drop has been served.
PassDue ==
  /\ pass.pc \in {"call", "push", "delete"} => pass.want = desired
  /\ pass.pc = "delete" =>
       \/ held[pass.registry] = desired
       \/ Retains /\ desired = Initial
       \/ pass.at.kind = "PROJECT_CREATE" /\ RowsOf(pass.registry) # {}

DueInv ==
  /\ ApartInv
  /\ ~Serving => \A h \in Harbor : Settled(h, desired)
  /\ \A a \in Admin : OwedBy(hand[a])
  /\ PassDue

\* What is settled stays so while the Harbor is left alone and rows are only added.
LEMMA Stays ==
  ASSUME NEW h, NEW v, Settled(h, v), kind' = kind, held'[h] = held[h], queue \subseteq queue'
  PROVE  Settled(h, v)'
<1>1. RowsOf(h) # {} => RowsOf(h)' # {}
  BY DEF RowsOf, Subject
<1>2. Owed(queue, h) # {} => Owed(queue', h) # {}
  BY DEF Owed
<1> QED
  BY <1>1, <1>2 DEF Settled, Retains, Refuses

\* A Harbor that takes the value is settled for it.
LEMMA Takes == ASSUME NEW h, NEW v, held'[h] = v PROVE Settled(h, v)'
  BY DEF Settled

\* A Harbor a row of the setting is queued for is settled for any value.
LEMMA Queued == ASSUME NEW h, NEW v, RowsOf(h)' # {} PROVE Settled(h, v)'
  BY DEF Settled, RowsOf, Subject, Owed

\* A handler moves while everybody else rests.
LEMMA DueMoves ==
  ASSUME Sorts, DueInv, ApartInv', NEW a \in Admin, NEW hd,
         \A b \in Admin \ {a} : hand'[b].pc = "idle", hand'[a] = hd,
         pass' = pass, pass.pc \in {"idle", "next"},
         OwedBy(hd)', hd.pc = "idle" => \A h \in Harbor : Settled(h, desired)'
  PROVE  DueInv'
<1>1. \A b \in Admin : OwedBy(hand[b])'
  BY DEF OwedBy, Settled, Refuses, Unqueued
<1>2. PassDue'
  BY DEF PassDue
<1>3. Serving' <=> hd.pc # "idle"
  BY DEF Serving
<1>4. ~Serving' => \A h \in Harbor : Settled(h, desired)'
  BY <1>3
<1> QED
  BY <1>1, <1>2, <1>4 DEF DueInv

\* A handler's step keeps what is owed.
LEMMA DueHandler ==
  ASSUME Sorts, Apart, DueInv, NEW a \in Admin, Handler(a) \/ \E v \in Value : Change(a, v)
  PROVE  DueInv'
<1>a. /\ ApartInv /\ TypeInv /\ HandOK(hand[a]) /\ hand \in [Admin -> Hand]
      /\ held \in [Harbor -> Value] /\ OwedBy(hand[a])
  BY DEF DueInv, ApartInv, TypeInv, TypeOK
<1>b. /\ pass' = pass /\ kind' = kind /\ queue \subseteq queue'
      /\ pass.pc \in {"idle", "next"}
      /\ \A b \in Admin \ {a} : hand[b].pc = "idle" /\ hand'[b] = hand[b]
  BY <1>a, HandlerQueue
<1>c. ApartInv'
  BY <1>a, ApartHandler
<1>d. SUFFICES ASSUME NEW hd, hd = hand'[a]
               PROVE  OwedBy(hd)' /\ (hd.pc = "idle" => \A h \in Harbor : Settled(h, desired)')
  <2>1. PICK hd : hd = hand'[a]
    OBVIOUS
  <2>2. OwedBy(hd)' /\ (hd.pc = "idle" => \A h \in Harbor : Settled(h, desired)')
    BY <1>d, <2>1
  <2> QED
    BY <1>b, <1>c, <2>1, <2>2, DueMoves
<1> DEFINE Goal == OwedBy(hd)' /\ (hd.pc = "idle" => \A h \in Harbor : Settled(h, desired)')
<1>e. RollsBack' = RollsBack /\ Retains' = Retains
  BY <1>b DEF RollsBack, Retains
<1>1. ASSUME NEW v \in Value, Change(a, v) PROVE Goal
  <2>1. hd = [IdleHand EXCEPT !.pc = "read", !.value = v, !.previous = desired]
        /\ UNCHANGED <<desired, held, queue>>
    BY <1>1, <1>a, <1>d DEF Change
  <2>2. hd.pc = "read" /\ hd.previous = desired /\ ~hd.reached
    BY <2>1 DEF IdleHand
  <2>3. ~Serving
    BY <1>1 DEF Change
  <2>4. \A h \in Harbor : Settled(h, desired)'
    BY <1>b, <2>1, <2>3 DEF DueInv, Settled, RowsOf, Retains, Refuses
  <2> QED
    BY <2>1, <2>2, <2>4 DEF OwedBy
<1>2. CASE Record(a)
  <2>1. hand[a].pc = "read" /\ desired' = hand[a].value /\ UNCHANGED <<held, queue>>
    BY <1>2 DEF Record
  <2>2. hd = [hand[a] EXCEPT !.pc = "fanout", !.todo = Harbor]
    BY <1>2, <1>a, <1>d DEF Record
  <2>3. hd.pc = "fanout" /\ hd.todo = Harbor /\ hd.value = hand[a].value
        /\ hd.previous = hand[a].previous
    BY <1>a, <2>2 DEF HandOK, Hand
  <2>4. hand[a].previous = desired /\ \A h \in Harbor : Settled(h, desired)
    BY <1>a, <2>1 DEF OwedBy
  <2>5. \A h \in Harbor : Settled(h, hd.previous)
    BY <2>3, <2>4
  <2>6. \A h \in Harbor : Settled(h, hd.previous)'
    BY <1>b, <2>1, <2>5, Stays
  <2> QED
    BY <2>1, <2>3, <2>6 DEF OwedBy
<1>3. ASSUME NEW h \in Harbor, FanOutReached(a, h) PROVE Goal
  <2>1. /\ hand[a].pc = "fanout" /\ held' = [held EXCEPT ![h] = hand[a].value]
        /\ UNCHANGED <<desired, queue>>
    BY <1>3 DEF FanOutReached
  <2>2. hd = [hand[a] EXCEPT !.todo = @ \ {h}, !.reached = TRUE]
    BY <1>3, <1>a, <1>d DEF FanOutReached
  <2>3. /\ hd.pc = "fanout" /\ hd.todo = hand[a].todo \ {h} /\ hd.value = hand[a].value
        /\ hd.failed = hand[a].failed /\ hd.reached
    BY <1>a, <2>1, <2>2 DEF HandOK, Hand
  <2>4. desired = hand[a].value
        /\ \A k \in Harbor \ (hand[a].todo \union hand[a].failed) : Settled(k, desired)
    BY <1>a, <2>1 DEF OwedBy, Unqueued
  <2>5. ASSUME NEW k \in Harbor \ (hd.todo \union hd.failed) PROVE Settled(k, desired)'
    <3>1. CASE k = h
      <4>1. held'[k] = desired
        BY <1>a, <2>1, <2>4, <3>1
      <4>2. PICK v : v = desired
        OBVIOUS
      <4>3. Settled(k, v)'
        BY <4>1, <4>2, Takes
      <4> QED
        BY <2>1, <4>2, <4>3 DEF Settled, Refuses
    <3>2. CASE k # h
      <4>1. held'[k] = held[k] /\ Settled(k, desired)
        BY <1>a, <2>1, <2>3, <2>4, <3>2
      <4> QED
        BY <1>b, <2>1, <4>1 DEF Settled, RowsOf, Retains, Refuses
    <3> QED
      BY <3>1, <3>2
  <2> QED
    BY <2>1, <2>3, <2>4, <2>5 DEF OwedBy, Unqueued
<1>4. ASSUME NEW h \in Harbor, FanOutFailed(a, h) PROVE Goal
  <2>1. /\ hand[a].pc = "fanout" /\ UNCHANGED <<desired, queue>>
        /\ \A k \in Harbor \ {h} : held'[k] = held[k]
    BY <1>4, <1>a DEF FanOutFailed
  <2>2. hd = [hand[a] EXCEPT !.todo = @ \ {h}, !.failed = @ \union {h}]
    BY <1>4, <1>a, <1>d DEF FanOutFailed
  <2>3. /\ hd.pc = "fanout" /\ hd.todo = hand[a].todo \ {h} /\ hd.value = hand[a].value
        /\ hd.failed = hand[a].failed \union {h} /\ hd.reached = hand[a].reached
        /\ hd.previous = hand[a].previous
    BY <1>a, <2>1, <2>2 DEF HandOK, Hand
  <2>4. /\ desired = hand[a].value
        /\ \A k \in Harbor \ (hand[a].todo \union hand[a].failed) : Settled(k, desired)
        /\ RollsBack /\ ~hand[a].reached =>
             \A k \in Harbor \ hand[a].failed : Settled(k, hand[a].previous)
    BY <1>a, <2>1 DEF OwedBy, Unqueued
  <2>5. ASSUME NEW k \in Harbor \ {h}, NEW v, Settled(k, v) PROVE Settled(k, v)'
    BY <1>b, <2>1, <2>5, Stays
  <2>6. \A k \in Harbor \ (hd.todo \union hd.failed) : Settled(k, hd.value)'
    <3>1. \A k \in Harbor \ (hd.todo \union hd.failed) : Settled(k, hd.value)
      BY <2>3, <2>4
    <3> QED
      BY <2>3, <2>5, <3>1
  <2>7. RollsBack /\ ~hd.reached => \A k \in Harbor \ hd.failed : Settled(k, hd.previous)'
    <3>1. RollsBack /\ ~hd.reached => \A k \in Harbor \ hd.failed : Settled(k, hd.previous)
      BY <2>3, <2>4
    <3> QED
      BY <2>3, <2>5, <3>1
  <2>8. \A k \in Harbor \ (hd.todo \union hd.failed) : Settled(k, desired)'
    BY <2>1, <2>3, <2>4, <2>6 DEF Settled, Refuses
  <2> QED
    BY <1>e, <2>1, <2>3, <2>4, <2>7, <2>8 DEF OwedBy, Unqueued
<1>5. ASSUME NEW h \in Harbor, FanOutRefused(a, h) PROVE Goal
  <2>1. /\ hand[a].pc = "fanout" /\ UNCHANGED <<desired, held, queue>>
        /\ Refuses(h, hand[a].value)
    BY <1>5 DEF FanOutRefused
  <2>2. hd = [hand[a] EXCEPT !.todo = @ \ {h}]
    BY <1>5, <1>a, <1>d DEF FanOutRefused
  <2>3. /\ hd.pc = "fanout" /\ hd.todo = hand[a].todo \ {h} /\ hd.value = hand[a].value
        /\ hd.failed = hand[a].failed /\ hd.reached = hand[a].reached
        /\ hd.previous = hand[a].previous
    BY <1>a, <2>1, <2>2 DEF HandOK, Hand
  <2>4. /\ desired = hand[a].value
        /\ \A k \in Harbor \ (hand[a].todo \union hand[a].failed) : Settled(k, hand[a].value)
        /\ RollsBack /\ ~hand[a].reached =>
             \A k \in Harbor \ hand[a].failed : Settled(k, hand[a].previous)
    BY <1>a, <2>1 DEF OwedBy, Unqueued
  <2>5. Settled(h, hand[a].value)
    BY <2>1 DEF Settled, Refuses, Retains
  <2>6. \A k \in Harbor \ (hd.todo \union hd.failed) : Settled(k, hd.value)
    BY <2>3, <2>4, <2>5
  <2>7. \A v : \A k \in Harbor : Settled(k, v)' <=> Settled(k, v)
    BY <1>b, <2>1 DEF Settled, RowsOf, Retains, Refuses
  <2>8. \A k \in Harbor \ (hd.todo \union hd.failed) : Settled(k, hd.value)'
    BY <2>6, <2>7
  <2>9. RollsBack /\ ~hd.reached => \A k \in Harbor \ hd.failed : Settled(k, hd.previous)'
    BY <2>3, <2>4, <2>7
  <2>10. \A k \in Harbor \ (hd.todo \union hd.failed) : Settled(k, desired)'
    BY <2>1, <2>3, <2>4, <2>8 DEF Settled, Refuses
  <2> QED
    BY <1>e, <2>1, <2>3, <2>4, <2>9, <2>10 DEF OwedBy, Unqueued
<1>6. ASSUME NEW h \in Harbor, EnqueueRead(a, h) PROVE Goal
  <2>1. /\ hand[a].pc = "fanout" /\ hand[a].todo = {} /\ h \in hand[a].failed
        /\ UNCHANGED <<desired, held, queue>>
    BY <1>6 DEF EnqueueRead
  <2>2. PICK found : hd = [hand[a] EXCEPT !.pc = "enqueue", !.at = h, !.found = found,
                             !.failed = @ \ {h}]
    BY <1>6, <1>a, <1>d DEF EnqueueRead
  <2>3. /\ hd.pc = "enqueue" /\ hd.todo = {} /\ hd.value = hand[a].value /\ hd.at = h
        /\ hd.failed = hand[a].failed \ {h} /\ hd.reached = hand[a].reached
        /\ hd.previous = hand[a].previous
    BY <1>a, <2>1, <2>2 DEF HandOK, Hand
  <2>4. /\ desired = hand[a].value
        /\ \A k \in Harbor \ hand[a].failed : Settled(k, hand[a].value)
        /\ RollsBack /\ ~hand[a].reached =>
             \A k \in Harbor \ hand[a].failed : Settled(k, hand[a].previous)
    BY <1>a, <2>1 DEF OwedBy, Unqueued
  <2>5. hd.failed \union {hd.at} = hand[a].failed
    BY <2>1, <2>3
  <2>6. \A v : \A k \in Harbor : Settled(k, v)' <=> Settled(k, v)
    BY <1>b, <2>1 DEF Settled, RowsOf, Retains, Refuses
  <2>7. \A k \in Harbor \ (hd.failed \union {hd.at}) : Settled(k, hd.value)'
    BY <2>3, <2>4, <2>5, <2>6
  <2>8. RollsBack /\ ~hd.reached =>
          \A k \in Harbor \ (hd.failed \union {hd.at}) : Settled(k, hd.previous)'
    BY <2>3, <2>4, <2>5, <2>6
  <2>9. \A k \in Harbor \ (hd.failed \union {hd.at}) : Settled(k, desired)'
    BY <2>1, <2>3, <2>4, <2>7 DEF Settled, Refuses
  <2> QED
    BY <1>e, <2>1, <2>3, <2>4, <2>8, <2>9 DEF OwedBy, Unqueued
<1>7. CASE EnqueueWrite(a)
  <2>1. /\ hand[a].pc = "enqueue" /\ UNCHANGED <<desired, held>> /\ hand[a].at \in Harbor
    BY <1>7, <1>a DEF EnqueueWrite, HandOK
  <2>2. IF hand[a].found = None THEN RowsOf(hand[a].at) = {}
        ELSE hand[a].found \in RowsOf(hand[a].at)
    BY <1>a, <2>1 DEF ApartInv, SeenIsQueued
  <2>3. hand[a].found \in queue \union {None}
    BY <2>2 DEF RowsOf, Subject
  <2>4. hd = [hand[a] EXCEPT !.at = None, !.found = None, !.pc = "fanout"]
    BY <1>7, <1>a, <1>d, <2>3 DEF EnqueueWrite
  <2>5. /\ hd.pc = "fanout" /\ hd.todo = hand[a].todo /\ hd.value = hand[a].value
        /\ hd.failed = hand[a].failed /\ hd.reached = hand[a].reached
        /\ hd.previous = hand[a].previous
    BY <1>a, <2>1, <2>4 DEF HandOK, Hand
  <2>6. /\ desired = hand[a].value
        /\ \A k \in Harbor \ (hand[a].todo \union hand[a].failed \union {hand[a].at}) :
             Settled(k, hand[a].value)
        /\ RollsBack /\ ~hand[a].reached =>
             \A k \in Harbor \ (hand[a].failed \union {hand[a].at}) : Settled(k, hand[a].previous)
    BY <1>a, <2>1 DEF OwedBy, Unqueued
  <2>7. \E row \in queue' : row.registry = hand[a].at /\ row.key = None /\ row.kind = kind
    <3>1. CASE hand[a].found = None
      <4>1. Row(nextId, hand[a].at, kind, None) \in queue'
        BY <1>7, <3>1 DEF EnqueueWrite
      <4> QED
        BY <4>1 DEF Row
    <3>2. CASE hand[a].found # None
      BY <1>b, <2>2, <3>2 DEF RowsOf, Subject
    <3> QED
      BY <3>1, <3>2
  <2>8. ASSUME NEW k \in Harbor, NEW v, Settled(k, v) \/ k = hand[a].at PROVE Settled(k, v)'
    <3>1. CASE k = hand[a].at
      <4>1. RowsOf(k)' # {}
        BY <1>b, <2>7, <3>1 DEF RowsOf, Subject
      <4> QED
        BY <4>1, Queued
    <3>2. CASE Settled(k, v)
      BY <1>b, <2>1, <3>2, Stays
    <3> QED
      BY <2>8, <3>1, <3>2
  <2>9. \A k \in Harbor \ (hd.todo \union hd.failed) : Settled(k, hd.value)'
    BY <2>5, <2>6, <2>8
  <2>10. RollsBack /\ ~hd.reached => \A k \in Harbor \ hd.failed : Settled(k, hd.previous)'
    BY <2>5, <2>6, <2>8
  <2>11. \A k \in Harbor \ (hd.todo \union hd.failed) : Settled(k, desired)'
    BY <2>1, <2>5, <2>6, <2>9 DEF Settled, Refuses
  <2> QED
    BY <1>e, <2>1, <2>5, <2>6, <2>10, <2>11 DEF OwedBy, Unqueued
<1>8. CASE ChangeDone(a)
  <2>1. /\ hand[a].pc = "fanout" /\ hand[a].todo = {} /\ hand[a].failed = {}
        /\ UNCHANGED <<desired, held, queue>>
    BY <1>8 DEF ChangeDone, FannedOut
  <2>2. /\ \A k \in Harbor : Settled(k, desired)
        /\ RollsBack /\ ~hand[a].reached => \A k \in Harbor : Settled(k, hand[a].previous)
    BY <1>a, <2>1 DEF OwedBy, Unqueued
  <2>3. CASE hand[a].reached \/ ~RollsBack
    <3>1. hd = IdleHand
      BY <1>8, <1>a, <1>d, <2>3 DEF ChangeDone, Answer
    <3>2. \A k \in Harbor : Settled(k, desired)'
      BY <1>b, <2>1, <2>2 DEF Settled, RowsOf, Retains, Refuses
    <3> QED
      BY <3>1, <3>2 DEF OwedBy, IdleHand
  <2>4. CASE ~(hand[a].reached \/ ~RollsBack)
    <3>1. hd = [hand[a] EXCEPT !.pc = "rollback"]
      BY <1>8, <1>a, <1>d, <2>4 DEF ChangeDone
    <3>2. hd.pc = "rollback" /\ hd.previous = hand[a].previous
      BY <1>a, <3>1 DEF HandOK, Hand
    <3>3. \A k \in Harbor : Settled(k, hd.previous)
      BY <2>2, <2>4, <3>2
    <3>4. \A k \in Harbor : Settled(k, hd.previous)'
      BY <1>b, <2>1, <3>3, Stays
    <3> QED
      BY <3>2, <3>4 DEF OwedBy
  <2> QED
    BY <2>3, <2>4
<1>9. CASE RollBack(a)
  <2>1. /\ hand[a].pc = "rollback" /\ desired' = hand[a].previous /\ UNCHANGED <<held, queue>>
        /\ hd = IdleHand
    BY <1>9, <1>a, <1>d DEF RollBack, Answer
  <2>2. \A k \in Harbor : Settled(k, hand[a].previous)
    BY <1>a, <2>1 DEF OwedBy
  <2>3. \A k \in Harbor : Settled(k, desired)'
    BY <1>b, <2>1, <2>2 DEF Settled, RowsOf, Retains, Refuses
  <2> QED
    BY <2>1, <2>3 DEF OwedBy, IdleHand
<1> QED
  BY <1>1, <1>2, <1>3, <1>4, <1>5, <1>6, <1>7, <1>8, <1>9 DEF Handler

\* A step of the pass keeps what is owed.
LEMMA DuePass ==
  ASSUME Sorts, Apart, DueInv, (\E h \in Harbor : PassStart(h)) \/ Replay \/ PassEnds
  PROVE  DueInv'
<1>a. /\ ApartInv /\ TypeInv /\ OneAtATime /\ PassOK(pass) /\ PassDue
      /\ kind \in Setting /\ held \in [Harbor -> Value] /\ queue \subseteq Op
  BY DEF DueInv, ApartInv, TypeInv, TypeOK
<1>b. ApartInv'
  BY <1>a, ApartPass
<1>c. UNCHANGED <<kind, desired, hand>>
  BY DEF PassStart, Replay, PassTake, PassCall, PassPush, PassPushFails, PassDelete, PassEnds
<1>d. Serving' = Serving
  BY <1>c DEF Serving
<1>e. ASSUME held' = held, queue' = queue, PassDue' PROVE DueInv'
  <2>1. \A h \in Harbor : Settled(h, desired)' <=> Settled(h, desired)
    BY <1>c, <1>e DEF Settled, RowsOf, Retains, Refuses
  <2>2. \A x \in Admin : OwedBy(hand[x])'
    <3> TAKE x \in Admin
    <3>1. OwedBy(hand[x])
      BY DEF DueInv
    <3> QED
      BY <1>c, <1>e, <3>1
         DEF OwedBy, Unqueued, Settled, RowsOf, Retains, RollsBack, Refuses
  <2> QED
    BY <1>b, <1>d, <1>e, <2>1, <2>2 DEF DueInv
<1>f. ASSUME ~Serving, \A h \in Harbor : Settled(h, desired)', PassDue' PROVE DueInv'
  <2>1. \A x \in Admin : OwedBy(hand[x])'
    BY <1>c, <1>f DEF Serving, OwedBy
  <2> QED
    BY <1>b, <1>d, <1>f, <2>1 DEF DueInv
\* While the pass has a row in hand, it knows it, and no handler is at work.
<1>g. ASSUME pass.pc \in {"call", "push", "delete"}
      PROVE  /\ ~Serving /\ pass.want = desired /\ pass.registry \in Harbor
             /\ pass.at \in queue /\ pass.at.registry = pass.registry
             /\ \A h \in Harbor : Settled(h, desired)
  <2>1. pass.at \in pass.ops /\ pass.at \in Op
    BY <1>a, <1>g DEF PassOK, OneAtATime
  <2>2. ~Serving
    BY <1>a, <2>1 DEF OneAtATime, Sorts
  <2> QED
    BY <1>a, <1>g, <2>1, <2>2 DEF PassOK, OneAtATime, PassDue, DueInv
<1>1. ASSUME NEW h \in Harbor, PassStart(h) PROVE DueInv'
  <2>1. held' = held /\ queue' = queue
    BY <1>1 DEF PassStart
  <2>2. PassDue'
    BY <1>1 DEF PassStart, IdlePass, PassDue
  <2> QED
    BY <1>e, <2>1, <2>2
<1>2. ASSUME NEW op \in pass.ops, PassTake(op) PROVE DueInv'
  <2>1. held' = held /\ queue' = queue /\ desired' = desired
    BY <1>2 DEF PassTake
  <2>2. pass'.pc # "delete" /\ pass'.want = desired
    BY <1>2, <1>a DEF PassTake, PassOK, Pass
  <2> QED
    BY <1>e, <2>1, <2>2 DEF PassDue
<1>3. CASE PassCall
  <2>1. pass.pc = "call" /\ queue' = queue
    BY <1>3 DEF PassCall
  <2>2. held' = held \/ held' = [held EXCEPT ![pass.registry] = pass.want]
    BY <1>3 DEF PassCall
  <2>3. \A h \in Harbor : Settled(h, desired)'
    <3> TAKE h \in Harbor
    <3>1. held'[h] = held[h] \/ held'[h] = desired
      BY <1>a, <1>g, <2>1, <2>2
    <3>2. Settled(h, desired)
      BY <1>g, <2>1
    <3> QED
      BY <1>c, <2>1, <3>1, <3>2 DEF Settled, RowsOf, Retains, Refuses
  <2>4. PassDue'
    <3>1. CASE pass' = IdlePass
      BY <3>1 DEF PassDue, IdlePass
    <3>2. CASE pass' = [pass EXCEPT !.pc = "push"]
      <4>1. pass'.pc = "push" /\ pass'.want = pass.want
        BY <1>a, <3>2 DEF PassOK, Pass
      <4> QED
        BY <1>c, <1>g, <2>1, <4>1 DEF PassDue
    <3>3. CASE pass' = [pass EXCEPT !.pc = "delete"]
      <4>1. /\ pass'.pc = "delete" /\ pass'.want = pass.want /\ pass'.at = pass.at
            /\ pass'.registry = pass.registry
        BY <1>a, <3>3 DEF PassOK, Pass
      <4>2. CASE ~Retains
        <5>1. held' = [held EXCEPT ![pass.registry] = pass.want]
          BY <1>3, <1>a, <2>1, <3>3, <4>1, <4>2 DEF PassCall, PassOK, Pass, IdlePass
        <5>2. held'[pass.registry] = desired
          BY <1>a, <1>g, <2>1, <5>1
        <5> QED
          BY <1>c, <1>g, <2>1, <4>1, <5>2 DEF PassDue
      <4>3. CASE Retains
        <5>1. Settled(pass.registry, desired) /\ held' = held
          BY <1>3, <1>g, <2>1, <4>3 DEF PassCall
        <5>2. \/ held[pass.registry] = desired
              \/ desired = Initial
              \/ RowsOf(pass.registry) # {}
          BY <4>3, <5>1 DEF Settled
        <5>3. pass.at.kind = "PROJECT_CREATE"
          BY <1>a, <2>1 DEF PassOK
        <5> QED
          BY <1>c, <1>g, <2>1, <4>1, <4>3, <5>1, <5>2, <5>3 DEF PassDue, RowsOf, Retains
      <4> QED
        BY <4>2, <4>3
    <3> QED
      BY <1>3, <3>1, <3>2, <3>3 DEF PassCall
  <2> QED
    BY <1>f, <1>g, <2>1, <2>3, <2>4
<1>4. CASE PassPush
  <2>1. pass.pc = "push" /\ queue' = queue /\ held' = [held EXCEPT ![pass.registry] = pass.want]
    BY <1>4 DEF PassPush
  <2>2. \A h \in Harbor : Settled(h, desired)'
    <3> TAKE h \in Harbor
    <3>1. held'[h] = held[h] \/ held'[h] = desired
      BY <1>a, <1>g, <2>1
    <3>2. Settled(h, desired)
      BY <1>g, <2>1
    <3> QED
      BY <1>c, <2>1, <3>1, <3>2 DEF Settled, RowsOf, Retains, Refuses
  <2>3. PassDue'
    <3>1. pass'.pc = "delete" /\ pass'.want = pass.want /\ pass'.registry = pass.registry
      BY <1>4, <1>a DEF PassPush, PassOK, Pass
    <3>2. held'[pass.registry] = desired
      BY <1>a, <1>g, <2>1
    <3> QED
      BY <1>c, <1>g, <2>1, <3>1, <3>2 DEF PassDue
  <2> QED
    BY <1>f, <1>g, <2>1, <2>2, <2>3
<1>5. CASE PassPushFails
  <2>1. /\ pass.pc = "push" /\ pass.at.kind = "PROJECT_CREATE"
        /\ queue' = EnqueueOnce(queue, nextId, pass.registry, kind, None)
        /\ held' = held \/ held' = [held EXCEPT ![pass.registry] = pass.want]
    BY <1>5 DEF PassPushFails
  <2>2. queue \subseteq queue'
    BY <2>1 DEF EnqueueOnce
  <2>3. RowsOf(pass.registry)' # {}
    <3>0. pass'.registry = pass.registry
      BY <1>5, <1>a DEF PassPushFails, PassOK, Pass
    <3>1. CASE RowsOf(pass.registry) # {}
      BY <1>c, <2>2, <3>0, <3>1 DEF RowsOf, Subject
    <3>2. CASE RowsOf(pass.registry) = {}
      <4>1. Row(nextId, pass.registry, kind, None) \in queue'
        BY <2>1, <3>2 DEF EnqueueOnce, RowsOf
      <4>2. \E row \in queue' : row.registry = pass.registry /\ row.key = None /\ row.kind = kind
        BY <4>1 DEF Row
      <4> QED
        BY <1>c, <3>0, <4>2 DEF RowsOf, Subject
    <3> QED
      BY <3>1, <3>2
  <2>4. \A h \in Harbor : Settled(h, desired)'
    <3> TAKE h \in Harbor
    <3>1. held'[h] = held[h] \/ held'[h] = desired
      BY <1>a, <1>g, <2>1
    <3>2. Settled(h, desired)
      BY <1>g, <2>1
    <3>3. RowsOf(h) # {} => RowsOf(h)' # {}
      BY <1>c, <2>2 DEF RowsOf, Subject
    <3>4. Owed(queue, h) # {} => Owed(queue', h) # {}
      BY <2>2 DEF Owed
    <3> QED
      BY <1>c, <3>1, <3>2, <3>3, <3>4 DEF Settled, Retains, Refuses
  <2>5. PassDue'
    <3>1. /\ pass'.pc = "delete" /\ pass'.want = pass.want /\ pass'.registry = pass.registry
          /\ pass'.at = pass.at
      BY <1>5, <1>a DEF PassPushFails, PassOK, Pass
    <3> QED
      BY <1>c, <1>g, <2>1, <2>3, <3>1 DEF PassDue, RowsOf
  <2> QED
    BY <1>f, <1>g, <2>1, <2>4, <2>5
<1>6. CASE PassDelete
  <2>1. pass.pc = "delete" /\ queue' = queue \ {pass.at} /\ held' = held
    BY <1>6 DEF PassDelete
  <2>2. \A h \in Harbor : Settled(h, desired)'
    <3> TAKE h \in Harbor
    <3>1. CASE h # pass.registry
      <4>1. Owed(queue', h) = Owed(queue, h) /\ RowsOf(h)' = RowsOf(h)
        BY <1>c, <1>g, <2>1, <3>1 DEF Owed, RowsOf, Subject
      <4>2. Settled(h, desired)
        BY <1>g, <2>1
      <4> QED
        BY <1>c, <2>1, <4>1, <4>2 DEF Settled, Retains, Refuses
    <3>2. CASE h = pass.registry
      <4>1. \/ held[h] = desired
            \/ Retains /\ desired = Initial
            \/ pass.at.kind = "PROJECT_CREATE" /\ RowsOf(h) # {}
        BY <1>a, <2>1, <3>2 DEF PassDue
      <4>2. CASE pass.at.kind = "PROJECT_CREATE" /\ RowsOf(h) # {}
        <5>1. PICK row \in queue : row.registry = h /\ row.key = None /\ row.kind = kind
          BY <4>2 DEF RowsOf, Subject
        <5>2. row \in queue'
          BY <1>a, <2>1, <4>2, <5>1 DEF Setting
        <5>3. RowsOf(h)' # {}
          BY <1>c, <5>1, <5>2 DEF RowsOf, Subject
        <5>4. Owed(queue', h) # {}
          BY <5>1, <5>2 DEF Owed
        <5> QED
          BY <5>3, <5>4 DEF Settled
      <4> QED
        BY <1>c, <2>1, <4>1, <4>2 DEF Settled, Retains
    <3> QED
      BY <3>1, <3>2
  <2>3. PassDue'
    BY <1>6 DEF PassDelete, PassDue, IdlePass
  <2> QED
    BY <1>f, <1>g, <2>1, <2>2, <2>3
<1>7. CASE PassEnds
  <2>1. held' = held /\ queue' = queue
    BY <1>7 DEF PassEnds
  <2>2. PassDue'
    BY <1>7 DEF PassEnds, IdlePass, PassDue
  <2> QED
    BY <1>e, <2>1, <2>2
<1> QED
  BY <1>1, <1>2, <1>3, <1>4, <1>5, <1>6, <1>7 DEF Replay

\* A Harbor that does not hold the project at first is owed its creation, and the others
\* enforce the value it was approved with.
LEMMA DueInit == ASSUME Sorts, Init PROVE DueInv
<1>1. /\ hand = [a \in Admin |-> IdleHand] /\ pass = IdlePass /\ desired = Initial
      /\ \A h \in Harbor : project[h] # "there" => held[h] = Initial
      /\ queue = {Row(0, h, "PROJECT_CREATE", None) : h \in {x \in Harbor : project[x] # "placed"}}
  BY DEF Init
<1>2. \A a \in Admin : hand[a].pc = "idle"
  BY <1>1 DEF IdleHand
<1>3. \A h \in Harbor : Settled(h, desired)
  <2> TAKE h \in Harbor
  <2>1. CASE project[h] # "there"
    BY <1>1, <2>1 DEF Settled
  <2>2. CASE project[h] = "there"
    <3>1. Row(0, h, "PROJECT_CREATE", None) \in queue
      BY <1>1, <2>2
    <3>2. Owed(queue, h) # {}
      BY <3>1 DEF Owed, Row
    <3> QED
      BY <1>1, <3>2 DEF Settled
  <2> QED
    BY <2>1, <2>2
<1>4. \A a \in Admin : OwedBy(hand[a])
  BY <1>2 DEF OwedBy
<1>5. PassDue
  BY <1>1 DEF PassDue, IdlePass
<1> QED
  BY <1>3, <1>4, <1>5, ApartInit DEF DueInv

\* Any step keeps what is owed.
LEMMA DueNext == ASSUME Sorts, Apart, DueInv, [Next]_vars PROVE DueInv'
<1>1. CASE UNCHANGED vars
  <2>1. ApartInv'
    BY ApartNext DEF DueInv
  <2>2. UNCHANGED <<kind, desired, held, queue, hand, pass>>
    BY <1>1 DEF vars
  <2>3. Serving' = Serving /\ PassDue'
    BY <2>2 DEF Serving, PassDue, DueInv, RowsOf, Retains
  <2>4. \A h \in Harbor : Settled(h, desired)' <=> Settled(h, desired)
    BY <2>2 DEF Settled, RowsOf, Retains, Refuses
  <2>5. \A x \in Admin : OwedBy(hand[x])'
    <3> TAKE x \in Admin
    <3>1. OwedBy(hand[x])
      BY DEF DueInv
    <3> QED
      BY <2>2, <3>1 DEF OwedBy, Unqueued, Settled, RowsOf, Retains, RollsBack, Refuses
  <2> QED
    BY <2>1, <2>3, <2>4, <2>5 DEF DueInv
<1>2. CASE Next
  BY <1>2, DueHandler, DuePass DEF Next
<1> QED
  BY <1>1, <1>2

\* A Harbor that does not enforce the value shown is owed a replay of it, unless it rejected
\* that value on merit, for any number of Harbors, of values and of changes, whatever answers
\* are lost and wherever a pass dies, when no handler overlaps another nor a replay.
THEOREM ValueHolds == ASSUME Sorts, Apart PROVE Spec => []ValueIsOwed
<1>1. Init => DueInv
  BY DueInit
<1>2. DueInv /\ [Next]_vars => DueInv'
  BY DueNext
<1>3. DueInv => ValueIsOwed
  <2> SUFFICES ASSUME DueInv, ~Serving, NEW h \in Harbor
               PROVE  \/ held[h] = desired \/ Refuses(h, desired)
                      \/ Owed(queue, h) # {} \/ Unmanaged
    BY DEF ValueIsOwed
  <2>1. Settled(h, desired)
    BY DEF DueInv
  <2>2. RowsOf(h) # {} => Owed(queue, h) # {}
    BY DEF RowsOf, Subject, Owed
  <2> QED
    BY <2>1, <2>2 DEF Settled, Unmanaged
<1> QED
  BY <1>1, <1>2, <1>3, PTL DEF Spec

====
