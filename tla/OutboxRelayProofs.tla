-------------------------- MODULE OutboxRelayProofs --------------------------
(***************************************************************************)
(* Proofs about OutboxRelay, for any rows, relays, policy and bounds.      *)
(*                                                                         *)
(* Three inductive invariants, each on top of the one before:              *)
(*   Typed     types, and the row in hand of a working relay;              *)
(*   Safe      who holds a lock, what an ack and a status say about the    *)
(*             stream, the attempt budget;                                 *)
(*   Attended  every pending row has a relay that will come back to it.    *)
(***************************************************************************)
EXTENDS OutboxRelay, TLAPS

Working == {"publishing", "settling"}

\* A relay at work has a staged row in hand; a late frame is of a staged row.
InHand ==
  /\ \A r \in Relay : pc[r] \in Working => pick[r] \in Row /\ status[pick[r]] # "ABSENT"
  /\ \A x \in late : status[x] # "ABSENT"

Typed == TypeOK /\ InHand

LEMMA TypedInit == Init => Typed
BY DEF Init, Typed, TypeOK, InHand, Working, EmptyPass, MsgId, MessageId

LEMMA StoreTyped ==
  ASSUME TypeOK, NEW x \in Row, Store(x)
  PROVE  /\ frames' \in [MsgId -> Nat]
         /\ carried' \in SUBSET Row
         /\ window' \in SUBSET MsgId
<1> DEFINE m == MessageId[x]
<1>1. m \in MsgId
  BY DEF MsgId
<1>2. frames \in [MsgId -> Nat] /\ carried \in SUBSET Row /\ window \in SUBSET MsgId
  BY DEF TypeOK
<1>3. CASE m \in window
  BY <1>2, <1>3 DEF Store
<1>4. CASE m \notin window
  <2>1. /\ frames' = [frames EXCEPT ![m] = @ + 1]
        /\ carried' = carried \cup {x}
        /\ window' = window \cup {m}
    BY <1>4 DEF Store
  <2> HIDE DEF m
  <2>2. frames' \in [MsgId -> Nat]
    BY <1>1, <1>2, <2>1
  <2>3. carried' \in SUBSET Row /\ window' \in SUBSET MsgId
    BY <1>1, <1>2, <2>1
  <2>4. QED
    BY <2>2, <2>3
<1>5. QED
  BY <1>3, <1>4

LEMMA ExitTyped ==
  ASSUME Typed, NEW r \in Relay, Exit(r)
  PROVE  /\ lock' \in [Row -> Relay \cup {Free}]
         /\ pc' \in [Relay -> {"down", "parked", "draining", "publishing", "settling"}]
         /\ pick' \in [Relay -> Row \cup {0}]
         /\ seen' \in [Relay -> Nat]
         /\ ack' \in [Relay -> {"none", "accepted", "transient", "structural"}]
         /\ cursor' \in [Relay -> Row \cup {0}]
         /\ pass' \in [Relay -> [picked : Nat, progress : BOOLEAN,
                                 retry : BOOLEAN, structural : BOOLEAN]]
         /\ timer' \in [Relay -> BOOLEAN]
         /\ notified' \in [Relay -> BOOLEAN]
<1>1. EmptyPass \in [picked : Nat, progress : BOOLEAN, retry : BOOLEAN, structural : BOOLEAN]
  BY DEF EmptyPass
<1>2. QED
  BY <1>1 DEF Typed, TypeOK, Exit, DropWork, Unlocked

\* A relay that leaves without touching the rows' status takes nothing away.
LEMMA ExitKeepsTyped ==
  ASSUME Typed, NEW r \in Relay, Exit(r),
         status' = status, attempts' = attempts, health' = health, faults' = faults
  PROVE  Typed'
<1>1. UNCHANGED stream
  BY DEF Exit
<1>2. TypeOK'
  BY <1>1, ExitTyped DEF Typed, TypeOK, stream
<1>3. \A q \in Relay : pc'[q] \in Working => pc[q] \in Working /\ pick'[q] = pick[q]
  BY DEF Typed, TypeOK, Exit, DropWork, Working
<1>4. InHand'
  BY <1>1, <1>3 DEF Typed, InHand, stream
<1>5. QED
  BY <1>2, <1>4 DEF Typed

LEMMA TypedNext == Typed /\ [Next]_vars => Typed'
<1> SUFFICES ASSUME Typed, [Next]_vars
             PROVE  Typed'
  OBVIOUS
<1> USE RowAssumption, RelayAssumption, PolicyAssumption DEF Typed, InHand, Working
<1>1. ASSUME NEW x \in Row, Stage(x)
      PROVE  Typed'
  BY <1>1 DEF TypeOK, Stage, stream, work
<1>2. ASSUME NEW x \in Row, LateArrival(x)
      PROVE  Typed'
  BY <1>2, StoreTyped DEF TypeOK, LateArrival, db, work, loop
<1>3. ASSUME NEW m \in MsgId, WindowElapses(m)
      PROVE  Typed'
  BY <1>3 DEF TypeOK, WindowElapses, db, work, loop
<1>4. CASE Outage
  <2>1. faults' \in Nat
    BY <1>4 DEF TypeOK, Outage
  <2>2. QED
    BY <1>4, <2>1, Zenon DEF TypeOK, Outage, db, work, loop
<1>5. CASE Recovery
  BY <1>5 DEF TypeOK, Recovery, db, work, loop
<1>6. ASSUME NEW r \in Relay, Start(r)
      PROVE  Typed'
  BY <1>6 DEF TypeOK, Start, db, stream, work, loop
<1>7. ASSUME NEW r \in Relay, Fetch(r)
      PROVE  Typed'
  BY <1>7 DEF TypeOK, Fetch, Claimable, stream, loop
<1>8. ASSUME NEW r \in Relay, FetchUnrenderable(r)
      PROVE  Typed'
  BY <1>8, ExitKeepsTyped DEF FetchUnrenderable
<1>9. ASSUME NEW r \in Relay, Publish(r)
      PROVE  Typed'
  <2>1. pick[r] \in Row /\ status[pick[r]] # "ABSENT"
    BY <1>9 DEF Publish
  <2>2. /\ frames' \in [MsgId -> Nat]
        /\ carried' \in SUBSET Row
        /\ window' \in SUBSET MsgId
    BY <1>9, <2>1, StoreTyped DEF Publish, TypeOK
  <2>3. late' \in SUBSET Row /\ \A x \in late' : status[x] # "ABSENT"
    BY <1>9, <2>1 DEF Publish, TypeOK
  <2>4. ack' \in [Relay -> {"none", "accepted", "transient", "structural"}]
    BY <1>9 DEF Publish, TypeOK
  <2>5. QED
    BY <1>9, <2>1, <2>2, <2>3, <2>4 DEF TypeOK, Publish, db, loop
<1>10. ASSUME NEW r \in Relay, Settle(r)
       PROVE  Typed'
  <2>1. pick[r] \in Row
    BY <1>10 DEF Settle
  <2>2. /\ status' \in [Row -> {"ABSENT", "PENDING", "PUBLISHED", "FAILED"}]
        /\ attempts' \in [Row -> Nat]
        /\ \A x \in Row : status[x] # "ABSENT" => status'[x] # "ABSENT"
    BY <1>10, <2>1 DEF TypeOK, Settle, Transition, NextStatus, NextAttempts
  <2>3. pass' \in [Relay -> [picked : Nat, progress : BOOLEAN,
                             retry : BOOLEAN, structural : BOOLEAN]]
    BY <1>10 DEF TypeOK, Settle, CountedPass
  <2>4. QED
    BY <1>10, <2>1, <2>2, <2>3 DEF TypeOK, Settle, DropWork, stream
<1>11. ASSUME NEW r \in Relay, SettleFails(r)
       PROVE  Typed'
  BY <1>11, ExitKeepsTyped DEF SettleFails
<1>12. ASSUME NEW r \in Relay, EndPass(r)
       PROVE  Typed'
  <2>1. EmptyPass \in [picked : Nat, progress : BOOLEAN, retry : BOOLEAN, structural : BOOLEAN]
    BY DEF EmptyPass
  <2>2. ScheduleAfter(pass[r]) \in BOOLEAN
    BY DEF ScheduleAfter, TypeOK
  <2>3. QED
    BY <1>12, <2>1, <2>2 DEF TypeOK, EndPass, db, stream, work
<1>13. ASSUME NEW r \in Relay, WakeUp(r)
       PROVE  Typed'
  BY <1>13 DEF TypeOK, WakeUp, db, stream, work
<1>14. ASSUME NEW r \in Relay, Crash(r)
       PROVE  Typed'
  <2>1. faults' \in Nat /\ health' \in [Relay -> {"Healthy", "Degraded"}]
    BY <1>14 DEF TypeOK, Crash
  <2>2. InHand'
    BY <1>14 DEF TypeOK, Crash, Exit, DropWork, stream
  <2>3. UNCHANGED <<status, attempts, stream>>
    BY <1>14 DEF Crash, Exit
  <2>4. Exit(r)
    BY <1>14 DEF Crash
  <2>5. QED
    BY <2>1, <2>2, <2>3, <2>4, ExitTyped DEF TypeOK, stream
<1>15. ASSUME NEW r \in Relay, LoseSession(r)
       PROVE  Typed'
  BY <1>15 DEF TypeOK, LoseSession, Unlocked, stream, work, loop
<1>16. ASSUME NEW r \in Relay, CommitReplyLost(r)
       PROVE  Typed'
  <2>1. pick[r] \in Row
    BY <1>16 DEF CommitReplyLost
  <2>2. /\ status' \in [Row -> {"ABSENT", "PENDING", "PUBLISHED", "FAILED"}]
        /\ attempts' \in [Row -> Nat]
        /\ \A x \in Row : status[x] # "ABSENT" => status'[x] # "ABSENT"
    BY <1>16, <2>1 DEF TypeOK, CommitReplyLost, Transition, NextStatus, NextAttempts
  <2>3. faults' \in Nat
    BY <1>16 DEF TypeOK, CommitReplyLost
  <2>4. InHand'
    BY <1>16, <2>2 DEF TypeOK, CommitReplyLost, Exit, DropWork, stream
  <2>5. Exit(r) /\ UNCHANGED <<stream, health>>
    BY <1>16 DEF CommitReplyLost, Exit
  <2>6. QED
    BY <2>2, <2>3, <2>4, <2>5, ExitTyped DEF TypeOK, stream
<1>17. ASSUME NEW r \in Relay, ListenerReconnects(r)
       PROVE  Typed'
  BY <1>17 DEF TypeOK, ListenerReconnects, db, stream, work
<1>18. CASE UNCHANGED vars
  BY <1>18 DEF TypeOK, vars, db, stream, work, loop
<1>19. QED
  BY <1>1, <1>2, <1>3, <1>4, <1>5, <1>6, <1>7, <1>8, <1>9, <1>10, <1>11, <1>12, <1>13,
     <1>14, <1>15, <1>16, <1>17, <1>18 DEF Next, RelayStep, RelayFault

\* Every reachable state is well typed.
THEOREM TypeCorrect == Spec => []TypeOK
<1>1. Typed => TypeOK
  BY DEF Typed
<1>2. QED
  BY TypedInit, TypedNext, <1>1, PTL DEF Spec

-----------------------------------------------------------------------------
(* Locks and the attempt budget *)

\* A held lock is the lock of a working relay on the row in its hand, which is
\* pending and has not been touched since the relay read it.  It is what makes the
\* UPDATE by id of apply_transition safe: without it, a stale attempts count or a
\* settled row could be overwritten.
LockHeld ==
  \A x \in Row :
    lock[x] # Free =>
      /\ pc[lock[x]] \in Working
      /\ pick[lock[x]] = x
      /\ status[x] = "PENDING"
      /\ seen[lock[x]] = attempts[x]

Unstaged == \A x \in Row : status[x] = "ABSENT" => attempts[x] = 0

AckKnown == \A r \in Relay : pc[r] = "settling" => ack[r] # "none"

Held == LockHeld /\ BudgetRespected /\ Unstaged /\ AckKnown

LEMMA AttemptCapPositive == AttemptCap \in Nat /\ AttemptCap >= 1
BY PolicyAssumption DEF AttemptCap

LEMMA HeldInit == Init => Held
BY AttemptCapPositive DEF Init, Held, LockHeld, BudgetRespected, Unstaged, AckKnown

\* Ending a session and the work it carried preserves what the locks mean.
LEMMA ExitHeld ==
  ASSUME Typed, LockHeld, AckKnown, NEW r \in Relay, Exit(r),
         \A x \in Row : lock[x] # r => status'[x] = status[x] /\ attempts'[x] = attempts[x]
  PROVE  LockHeld' /\ AckKnown'
<1> USE RelayAssumption DEF Typed, TypeOK
<1>1. AckKnown'
  BY DEF AckKnown, Exit, DropWork
<1>2. ASSUME NEW x \in Row, lock'[x] # Free
      PROVE  /\ pc'[lock'[x]] \in Working
             /\ pick'[lock'[x]] = x
             /\ status'[x] = "PENDING"
             /\ seen'[lock'[x]] = attempts'[x]
  <2>1. lock'[x] = lock[x] /\ lock[x] # r /\ lock[x] \in Relay
    BY <1>2 DEF Exit, Unlocked
  <2>2. /\ pc'[lock[x]] = pc[lock[x]]
        /\ pick'[lock[x]] = pick[lock[x]]
        /\ seen'[lock[x]] = seen[lock[x]]
    BY <2>1 DEF Exit, DropWork
  <2>3. QED
    BY <1>2, <2>1, <2>2 DEF LockHeld
<1>3. QED
  BY <1>1, <1>2 DEF LockHeld

\* The transition a relay writes over a row it holds respects the budget.
LEMMA TransitionHeld ==
  ASSUME Typed, Held, NEW r \in Relay, pc[r] = "settling", lock[pick[r]] = r, Transition(r)
  PROVE  /\ BudgetRespected'
         /\ Unstaged'
         /\ \A x \in Row : x # pick[r] =>
              status'[x] = status[x] /\ attempts'[x] = attempts[x]
<1> USE RelayAssumption DEF Typed, TypeOK
<1>1. /\ pick[r] \in Row
      /\ status[pick[r]] = "PENDING"
      /\ seen[r] = attempts[pick[r]]
      /\ seen[r] < AttemptCap
      /\ ack[r] \in {"accepted", "transient", "structural"}
  BY DEF InHand, Working, Held, LockHeld, BudgetRespected, AckKnown
<1>2. /\ status'[pick[r]] = NextStatus(r)
      /\ attempts'[pick[r]] = NextAttempts(r)
      /\ \A x \in Row : x # pick[r] => status'[x] = status[x] /\ attempts'[x] = attempts[x]
  BY <1>1 DEF Transition
<1>3. /\ NextStatus(r) \in {"PENDING", "PUBLISHED", "FAILED"}
      /\ NextStatus(r) = "PENDING" => NextAttempts(r) < AttemptCap
      /\ NextStatus(r) = "FAILED" => NextAttempts(r) = AttemptCap
  BY <1>1, AttemptCapPositive DEF NextStatus, NextAttempts
<1>4. ASSUME NEW x \in Row
      PROVE  /\ status'[x] = "PENDING" => attempts'[x] < AttemptCap
             /\ status'[x] = "FAILED" => attempts'[x] = AttemptCap
             /\ status'[x] = "ABSENT" => attempts'[x] = 0
  <2>1. CASE x = pick[r]
    BY <1>2, <1>3, <2>1
  <2>2. CASE x # pick[r]
    BY <1>2, <2>2 DEF Held, BudgetRespected, Unstaged
  <2>3. QED
    BY <2>1, <2>2
<1>5. QED
  BY <1>2, <1>4 DEF BudgetRespected, Unstaged

LEMMA HeldNext == Typed /\ Held /\ [Next]_vars => Held'
<1> SUFFICES ASSUME Typed, Held, [Next]_vars
             PROVE  Held'
  OBVIOUS
<1> USE RelayAssumption, AttemptCapPositive
    DEF Typed, Held, LockHeld, BudgetRespected, Unstaged, AckKnown, Working
<1>1. ASSUME NEW x \in Row, Stage(x)
      PROVE  Held'
  BY <1>1 DEF TypeOK, Stage, work
<1>2. ASSUME NEW x \in Row, LateArrival(x)
      PROVE  Held'
  BY <1>2 DEF TypeOK, LateArrival, db, work
<1>3. ASSUME NEW m \in MsgId, WindowElapses(m)
      PROVE  Held'
  BY <1>3 DEF TypeOK, WindowElapses, db, work
<1>4. CASE Outage \/ Recovery
  BY <1>4 DEF TypeOK, Outage, Recovery, db, work
<1>5. ASSUME NEW r \in Relay, Start(r) \/ EndPass(r) \/ WakeUp(r)
      PROVE  Held'
  <2>1. UNCHANGED <<status, attempts, lock, pick, seen, ack>>
    BY <1>5 DEF Start, EndPass, WakeUp, db, work
  <2>2. /\ pc[r] \notin Working /\ pc'[r] \notin Working
        /\ \A q \in Relay : q # r => pc'[q] = pc[q]
    BY <1>5 DEF TypeOK, Start, EndPass, WakeUp
  <2>3. QED
    BY <2>1, <2>2 DEF TypeOK
<1>6. ASSUME NEW r \in Relay, Fetch(r)
      PROVE  Held'
  BY <1>6 DEF TypeOK, Fetch, Claimable
<1>7. ASSUME NEW r \in Relay, FetchUnrenderable(r) \/ SettleFails(r) \/ Crash(r)
      PROVE  Held'
  <2>1. Exit(r) /\ UNCHANGED <<status, attempts>>
    BY <1>7 DEF FetchUnrenderable, SettleFails, Crash
  <2>2. LockHeld' /\ AckKnown'
    BY <2>1, ExitHeld
  <2>3. QED
    BY <2>1, <2>2
<1>8. ASSUME NEW r \in Relay, Publish(r)
      PROVE  Held'
  BY <1>8 DEF TypeOK, Publish, db
<1>9. ASSUME NEW r \in Relay, Settle(r)
      PROVE  Held'
  <2>1. /\ BudgetRespected'
        /\ Unstaged'
        /\ \A x \in Row : x # pick[r] =>
             status'[x] = status[x] /\ attempts'[x] = attempts[x]
    BY <1>9, TransitionHeld DEF Settle
  <2>2. AckKnown'
    BY <1>9 DEF TypeOK, Settle, DropWork
  <2>3. ASSUME NEW x \in Row, lock'[x] # Free
        PROVE  x # pick[r] /\ lock'[x] = lock[x] /\ lock[x] # r /\ lock[x] \in Relay
    BY <1>9, <2>3 DEF TypeOK, Settle
  <2>4. LockHeld'
    BY <1>9, <2>1, <2>3 DEF TypeOK, Settle, DropWork
  <2>5. QED
    BY <2>1, <2>2, <2>4
<1>10. ASSUME NEW r \in Relay, LoseSession(r)
       PROVE  Held'
  BY <1>10 DEF TypeOK, LoseSession, Unlocked, work
<1>11. ASSUME NEW r \in Relay, CommitReplyLost(r)
       PROVE  Held'
  <2>1. /\ BudgetRespected'
        /\ Unstaged'
        /\ \A x \in Row : x # pick[r] =>
             status'[x] = status[x] /\ attempts'[x] = attempts[x]
    BY <1>11, TransitionHeld DEF CommitReplyLost
  <2>2. \A x \in Row : lock[x] # r => x # pick[r]
    BY <1>11 DEF CommitReplyLost
  <2>3. LockHeld' /\ AckKnown'
    BY <1>11, <2>1, <2>2, ExitHeld DEF CommitReplyLost
  <2>4. QED
    BY <2>1, <2>3
<1>12. ASSUME NEW r \in Relay, ListenerReconnects(r)
       PROVE  Held'
  BY <1>12 DEF TypeOK, ListenerReconnects, db, work
<1>13. CASE UNCHANGED vars
  BY <1>13 DEF TypeOK, vars, db, work
<1>14. QED
  BY <1>1, <1>2, <1>3, <1>4, <1>5, <1>6, <1>7, <1>8, <1>9, <1>10, <1>11, <1>12, <1>13
     DEF Next, RelayStep, RelayFault

\* Rows leave PENDING when the attempt budget is spent and not before, and a crash, a
\* lost session or a second relay never makes an attempt count for more than one.
THEOREM BudgetCorrect == Spec => []BudgetRespected
<1>1. Held => BudgetRespected
  BY DEF Held
<1>2. QED
  BY TypedInit, TypedNext, HeldInit, HeldNext, <1>1, PTL DEF Spec

-----------------------------------------------------------------------------
(* Statuses, acks and the stream *)

Delivered(x) == frames[MessageId[x]] > 0

AckedIsStored ==
  \A r \in Relay : pc[r] = "settling" /\ ack[r] = "accepted" => Delivered(pick[r])

PublishedIsStored == \A x \in Row : status[x] = "PUBLISHED" => Delivered(x)

\* Inside the window there is a frame, and no frame came on top of it.
WindowCounts ==
  \A m \in MsgId :
    /\ m \in window => frames[m] > 0 /\ frames[m] <= expiries[m] + 1
    /\ m \notin window => frames[m] <= expiries[m]

OwnPayload == DistinctIds => \A x \in Row : Delivered(x) => x \in carried

OnStream == AckedIsStored /\ PublishedIsStored /\ WindowCounts /\ OwnPayload

LEMMA OnStreamInit == Init => OnStream
<1> SUFFICES ASSUME Init
             PROVE  OnStream
  OBVIOUS
<1>1. AckedIsStored /\ PublishedIsStored
  BY DEF Init, AckedIsStored, PublishedIsStored
<1>2. WindowCounts
  BY DEF Init, WindowCounts
<1>3. ASSUME NEW x \in Row
      PROVE  ~Delivered(x)
  <2>1. MessageId[x] \in MsgId
    BY DEF MsgId
  <2>2. frames[MessageId[x]] = 0
    BY <2>1 DEF Init
  <2>3. QED
    BY <2>2 DEF Delivered
<1>4. QED
  BY <1>1, <1>2, <1>3 DEF OnStream, OwnPayload

\* What accepting a frame does to the stream: its message id is delivered, nothing
\* else is, and the window keeps its count.
LEMMA StoreOnStream ==
  ASSUME Typed, OnStream, NEW x \in Row, Store(x), UNCHANGED expiries
  PROVE  /\ frames'[MessageId[x]] > 0
         /\ \A m \in MsgId : frames'[m] >= frames[m]
         /\ \A m \in MsgId : m # MessageId[x] => frames'[m] = frames[m]
         /\ WindowCounts'
         /\ OwnPayload'
<1> USE DEF Typed, TypeOK
<1>1. MessageId[x] \in MsgId
  BY DEF MsgId
<1>2. CASE MessageId[x] \in window
  BY <1>1, <1>2 DEF Store, OnStream, WindowCounts, OwnPayload, Delivered
<1>3. CASE MessageId[x] \notin window
  <2>1. /\ frames' = [frames EXCEPT ![MessageId[x]] = @ + 1]
        /\ carried' = carried \cup {x}
        /\ window' = window \cup {MessageId[x]}
    BY <1>3 DEF Store
  <2>2. WindowCounts'
    BY <1>1, <1>3, <2>1 DEF OnStream, WindowCounts
  <2>3. OwnPayload'
    <3>1. SUFFICES ASSUME DistinctIds, NEW y \in Row, Delivered(y)'
                   PROVE  y \in carried'
      BY DEF OwnPayload
    <3>2. CASE y = x
      BY <2>1, <3>2
    <3>3. CASE y # x
      <4>1. MessageId[y] # MessageId[x] /\ MessageId[y] \in MsgId
        BY <3>1, <3>3 DEF DistinctIds, MsgId
      <4>2. Delivered(y)
        BY <2>1, <3>1, <4>1 DEF Delivered
      <4>3. QED
        BY <2>1, <3>1, <4>2 DEF OnStream, OwnPayload
    <3>4. QED
      BY <3>2, <3>3
  <2>4. QED
    BY <1>1, <2>1, <2>2, <2>3
<1>4. QED
  BY <1>2, <1>3

LEMMA OnStreamNext == Typed /\ OnStream /\ [Next]_vars => OnStream'
<1> SUFFICES ASSUME Typed, OnStream, [Next]_vars
             PROVE  OnStream'
  OBVIOUS
<1>a. \A x \in Row : MessageId[x] \in MsgId
  BY DEF MsgId
<1>1. ASSUME NEW x \in Row, Stage(x)
      PROVE  OnStream'
  BY <1>1 DEF Typed, TypeOK, Stage, stream, work, OnStream, AckedIsStored,
              PublishedIsStored, WindowCounts, OwnPayload, Delivered
<1>2. ASSUME NEW x \in Row, LateArrival(x)
      PROVE  OnStream'
  <2>1. UNCHANGED <<status, expiries, pc, pick, ack>>
    BY <1>2 DEF LateArrival, db, work
  <2>2. CASE Store(x)
    <3>1. WindowCounts' /\ OwnPayload' /\ \A m \in MsgId : frames'[m] >= frames[m]
      BY <2>1, <2>2, StoreOnStream
    <3>2. frames' \in [MsgId -> Nat]
      BY <2>2, StoreTyped DEF Typed
    <3>3. \A y \in Row : Delivered(y) => Delivered(y)'
      BY <1>a, <3>1, <3>2 DEF Delivered, Typed, TypeOK
    <3>4. QED
      BY <2>1, <3>1, <3>3 DEF OnStream, AckedIsStored, PublishedIsStored, Typed, InHand, Working
  <2>3. CASE UNCHANGED <<frames, carried, window>>
    BY <2>1, <2>3 DEF OnStream, AckedIsStored, PublishedIsStored, WindowCounts, OwnPayload,
                      Delivered
  <2>4. QED
    BY <1>2, <2>2, <2>3 DEF LateArrival
<1>3. ASSUME NEW m \in MsgId, WindowElapses(m)
      PROVE  OnStream'
  <2>1. UNCHANGED <<status, pc, pick, ack, frames, carried>>
    BY <1>3 DEF WindowElapses, db, work
  <2>2. WindowCounts'
    BY <1>3 DEF WindowElapses, OnStream, WindowCounts, Typed, TypeOK
  <2>3. QED
    BY <2>1, <2>2 DEF OnStream, AckedIsStored, PublishedIsStored, OwnPayload, Delivered
<1>4. ASSUME NEW r \in Relay, Publish(r)
      PROVE  OnStream'
  <2>1. /\ UNCHANGED <<status, expiries, pick>>
        /\ pc[r] = "publishing" /\ pick[r] \in Row
        /\ \A q \in Relay : q # r => pc'[q] = pc[q] /\ ack'[q] = ack[q]
    BY <1>4 DEF Publish, db, Typed, TypeOK, InHand, Working
  <2>2. CASE Store(pick[r])
    <3>1. /\ WindowCounts' /\ OwnPayload'
          /\ frames'[MessageId[pick[r]]] > 0
          /\ \A m \in MsgId : frames'[m] >= frames[m]
      BY <2>1, <2>2, StoreOnStream
    <3>2. frames' \in [MsgId -> Nat]
      BY <2>1, <2>2, StoreTyped DEF Typed
    <3>3. \A y \in Row : Delivered(y) => Delivered(y)'
      BY <1>a, <3>1, <3>2 DEF Delivered, Typed, TypeOK
    <3>4. PublishedIsStored'
      BY <2>1, <3>3 DEF OnStream, PublishedIsStored
    <3>5. AckedIsStored'
      BY <2>1, <3>1, <3>3 DEF OnStream, AckedIsStored, Delivered, Typed, InHand, Working
    <3>6. QED
      BY <3>1, <3>4, <3>5 DEF OnStream
  <2>3. CASE UNCHANGED <<frames, carried, window>> /\ ack'[r] # "accepted"
    BY <2>1, <2>3 DEF OnStream, AckedIsStored, PublishedIsStored, WindowCounts, OwnPayload,
                      Delivered
  <2>4. QED
    BY <1>4, <2>2, <2>3 DEF Publish, Typed, TypeOK
<1>5. ASSUME NEW r \in Relay, Settle(r) \/ CommitReplyLost(r)
      PROVE  OnStream'
  <2>1. /\ pc[r] = "settling" /\ pick[r] \in Row /\ pc'[r] # "settling"
        /\ \A q \in Relay : q # r => pc'[q] = pc[q] /\ ack'[q] = ack[q] /\ pick'[q] = pick[q]
        /\ UNCHANGED <<frames, carried, window, expiries>>
    BY <1>5 DEF Settle, CommitReplyLost, Exit, DropWork, stream, Typed, TypeOK, InHand, Working
  <2>2. Transition(r)
    BY <1>5 DEF Settle, CommitReplyLost
  <2>3. PublishedIsStored'
    BY <2>1, <2>2 DEF Transition, NextStatus, OnStream, AckedIsStored, PublishedIsStored,
                      Delivered, Typed, TypeOK
  <2>4. QED
    BY <2>1, <2>3 DEF OnStream, AckedIsStored, WindowCounts, OwnPayload, Delivered
<1>6. ASSUME NEW r \in Relay, FetchUnrenderable(r) \/ SettleFails(r) \/ Crash(r)
      PROVE  OnStream'
  <2>1. /\ pc'[r] # "settling"
        /\ \A q \in Relay : q # r => pc'[q] = pc[q] /\ ack'[q] = ack[q] /\ pick'[q] = pick[q]
        /\ UNCHANGED <<status, frames, carried, window, expiries>>
    BY <1>6 DEF FetchUnrenderable, SettleFails, Crash, Exit, DropWork, stream, Typed, TypeOK
  <2>2. QED
    BY <2>1 DEF OnStream, AckedIsStored, PublishedIsStored, WindowCounts, OwnPayload, Delivered
<1>7. ASSUME NEW r \in Relay, Start(r) \/ Fetch(r) \/ EndPass(r) \/ WakeUp(r)
      PROVE  OnStream'
  <2>1. /\ pc[r] # "settling" /\ pc'[r] # "settling"
        /\ \A q \in Relay : q # r => pc'[q] = pc[q] /\ ack'[q] = ack[q] /\ pick'[q] = pick[q]
        /\ UNCHANGED <<status, frames, carried, window, expiries>>
    BY <1>7 DEF Start, Fetch, EndPass, WakeUp, db, stream, work, Typed, TypeOK
  <2>2. QED
    BY <2>1 DEF OnStream, AckedIsStored, PublishedIsStored, WindowCounts, OwnPayload, Delivered
<1>8. ASSUME Outage \/ Recovery \/ UNCHANGED vars
             \/ \E r \in Relay : LoseSession(r) \/ ListenerReconnects(r)
      PROVE  OnStream'
  <2>1. UNCHANGED <<status, pc, pick, ack, frames, carried, window, expiries>>
    BY <1>8 DEF Outage, Recovery, LoseSession, ListenerReconnects, vars, db, stream, work
  <2>2. QED
    BY <2>1 DEF OnStream, AckedIsStored, PublishedIsStored, WindowCounts, OwnPayload, Delivered
<1>9. QED
  BY <1>1, <1>2, <1>3, <1>4, <1>5, <1>6, <1>7, <1>8 DEF Next, RelayStep, RelayFault

\* Retries, replays after a crash and relays racing put at most one frame per message
\* id on the stream for every duplicate window.
THEOREM OneFrameCorrect == Spec => []OneFramePerWindow
<1>1. Typed /\ OnStream => OneFramePerWindow
  BY DEF Typed, TypeOK, OnStream, WindowCounts, OneFramePerWindow
<1>2. QED
  BY TypedInit, TypedNext, OnStreamInit, OnStreamNext, <1>1, PTL DEF Spec

\* With message ids that are distinct, a PUBLISHED row's own payload is on the stream.
THEOREM PayloadCorrect == Spec => []PublishedCarriesItsPayload
<1>1. OnStream => PublishedCarriesItsPayload
  BY DEF OnStream, PublishedIsStored, OwnPayload, PublishedCarriesItsPayload
<1>2. QED
  BY TypedInit, TypedNext, OnStreamInit, OnStreamNext, <1>1, PTL DEF Spec

-----------------------------------------------------------------------------
(* OutboxRelay implements OutboxDelivery *)

DeliveredIds == {m \in MsgId : frames[m] > 0}

LEMMA DeliveryInit == Init => Delivery!Init
<1> SUFFICES ASSUME Init
             PROVE  Delivery!Init
  OBVIOUS
<1>1. \A m \in MsgId : ~(frames[m] > 0)
  BY DEF Init
<1>2. status = [x \in Row |-> "ABSENT"]
  BY DEF Init
<1>3. QED
  BY <1>1, <1>2 DEF Delivery!Init

\* A frame accepted for a staged row is a Deliver step, or a stutter if its id was there.
LEMMA StoreDelivers ==
  ASSUME Typed, OnStream, NEW x \in Row, status[x] # "ABSENT", UNCHANGED status,
         Store(x) \/ UNCHANGED <<frames, carried, window>>
  PROVE  Delivery!Deliver(x) \/ UNCHANGED Delivery!vars
<1>1. MessageId[x] \in MsgId
  BY DEF MsgId
<1>2. CASE UNCHANGED frames
  BY <1>2 DEF Delivery!vars
<1>3. CASE frames' = [frames EXCEPT ![MessageId[x]] = @ + 1]
  <2>1. DeliveredIds' = DeliveredIds \cup {MessageId[x]}
    BY <1>1, <1>3 DEF DeliveredIds, Typed, TypeOK
  <2>2. QED
    BY <2>1 DEF DeliveredIds, Delivery!Deliver
<1>4. QED
  BY <1>2, <1>3 DEF Store

LEMMA TransitionSettles ==
  ASSUME Typed, Held, OnStream, NEW r \in Relay,
         pc[r] = "settling", lock[pick[r]] = r, Transition(r), UNCHANGED frames
  PROVE  [Delivery!Next]_(Delivery!vars)
<1>1. pick[r] \in Row /\ status[pick[r]] = "PENDING"
  BY RelayAssumption DEF Typed, InHand, Working, Held, LockHeld
<1>2. CASE NextStatus(r) = "PUBLISHED"
  <2>1. ack[r] = "accepted"
    BY <1>2 DEF NextStatus
  <2>2. MessageId[pick[r]] \in DeliveredIds
    BY <1>1, <2>1 DEF OnStream, AckedIsStored, Delivered, DeliveredIds, MsgId
  <2>3. Delivery!Publish(pick[r])
    BY <1>1, <1>2, <2>2 DEF Transition, Delivery!Publish, DeliveredIds
  <2>4. QED
    BY <1>1, <2>3 DEF Delivery!Next
<1>3. CASE NextStatus(r) = "FAILED"
  <2>1. Delivery!GiveUp(pick[r])
    BY <1>1, <1>3 DEF Transition, Delivery!GiveUp
  <2>2. QED
    BY <1>1, <2>1 DEF Delivery!Next
<1>4. CASE NextStatus(r) = "PENDING"
  <2>1. status' = status
    BY <1>1, <1>4 DEF Transition, Typed, TypeOK
  <2>2. QED
    BY <2>1 DEF Delivery!vars
<1>5. QED
  BY <1>2, <1>3, <1>4 DEF NextStatus

LEMMA DeliveryNext ==
  Typed /\ Held /\ OnStream /\ [Next]_vars => [Delivery!Next]_(Delivery!vars)
<1> SUFFICES ASSUME Typed, Held, OnStream, [Next]_vars
             PROVE  [Delivery!Next]_(Delivery!vars)
  OBVIOUS
<1>1. ASSUME NEW x \in Row, Stage(x)
      PROVE  [Delivery!Next]_(Delivery!vars)
  <2>1. UNCHANGED frames
    BY <1>1 DEF Stage, stream
  <2>2. CASE status[x] = "ABSENT"
    <3>1. Delivery!Stage(x)
      BY <1>1, <2>1, <2>2 DEF Stage, Delivery!Stage
    <3>2. QED
      BY <3>1 DEF Delivery!Next
  <2>3. CASE status[x] # "ABSENT"
    BY <1>1, <2>1, <2>3 DEF Stage, Delivery!vars
  <2>4. QED
    BY <2>2, <2>3
<1>2. ASSUME NEW x \in Row, LateArrival(x)
      PROVE  [Delivery!Next]_(Delivery!vars)
  <2>1. status[x] # "ABSENT" /\ UNCHANGED status
    BY <1>2 DEF LateArrival, Typed, InHand, db
  <2>2. Delivery!Deliver(x) \/ UNCHANGED Delivery!vars
    BY <1>2, <2>1, StoreDelivers DEF LateArrival
  <2>3. QED
    BY <2>2 DEF Delivery!Next
<1>3. ASSUME NEW r \in Relay, Publish(r)
      PROVE  [Delivery!Next]_(Delivery!vars)
  <2>1. pick[r] \in Row /\ status[pick[r]] # "ABSENT" /\ UNCHANGED status
    BY <1>3 DEF Publish, Typed, InHand, Working, db
  <2>2. Store(pick[r]) \/ UNCHANGED <<frames, carried, window>>
    BY <1>3 DEF Publish
  <2>3. PICK x \in Row : x = pick[r]
    BY <2>1
  <2>4. Delivery!Deliver(x) \/ UNCHANGED Delivery!vars
    BY <2>1, <2>2, <2>3, StoreDelivers
  <2>5. QED
    BY <2>4 DEF Delivery!Next
<1>4. ASSUME NEW r \in Relay, Settle(r) \/ CommitReplyLost(r)
      PROVE  [Delivery!Next]_(Delivery!vars)
  BY <1>4, TransitionSettles DEF Settle, CommitReplyLost, Exit, stream
<1>5. ASSUME \/ \E m \in MsgId : WindowElapses(m)
             \/ Outage \/ Recovery \/ UNCHANGED vars
             \/ \E r \in Relay :
                  \/ Start(r) \/ Fetch(r) \/ EndPass(r) \/ WakeUp(r)
                  \/ FetchUnrenderable(r) \/ SettleFails(r) \/ Crash(r)
                  \/ LoseSession(r) \/ ListenerReconnects(r)
      PROVE  [Delivery!Next]_(Delivery!vars)
  <2>1. UNCHANGED <<status, frames>>
    BY <1>5 DEF WindowElapses, Outage, Recovery, vars, db, stream, Start, Fetch, EndPass, WakeUp,
                FetchUnrenderable, SettleFails, Crash, Exit, LoseSession, ListenerReconnects
  <2>2. QED
    BY <2>1 DEF Delivery!vars
<1>6. QED
  BY <1>1, <1>2, <1>3, <1>4, <1>5 DEF Next, RelayStep, RelayFault

\* The relays, whatever they interleave and lose, implement what the outbox promises:
\* a settled row never moves again, and PUBLISHED is written only over a frame the
\* stream holds.
THEOREM ImplementsDelivery == Spec => DeliverySpec
<1>1. Init => Delivery!Init
  BY DeliveryInit
<1>2. QED
  BY <1>1, TypedInit, TypedNext, HeldInit, HeldNext, OnStreamInit, OnStreamNext, DeliveryNext,
     PTL DEF Spec, DeliverySpec, Delivery!Spec

-----------------------------------------------------------------------------
(* No pending row is left behind in silence *)

\* Relay r will come to row x, or reports that it may not: it restarts, is about to be
\* woken, sleeps on a retry or is Degraded, or is in a pass that has x ahead of it, in
\* its hand, or ends with a sleep or Degraded.
AttendsTo(r, x) ==
  \/ pc[r] = "down"
  \/ notified[r]
  \/ pc[r] = "parked" /\ (timer[r] \/ health[r] = "Degraded")
  \/ pc[r] \in {"draining", "publishing", "settling"} /\ (pass[r].retry \/ pass[r].structural)
  \/ pc[r] = "draining" /\ cursor[r] < x
  \/ pc[r] \in Working /\ cursor[r] < x /\ pick[r] <= x
  \/ pc[r] \in Working /\ pick[r] = x

Attended == \A x \in Row : status[x] = "PENDING" => \E r \in Relay : AttendsTo(r, x)

\* Outside a pass there is no cursor, and a pass that picked something counted it.
PassShape ==
  \A r \in Relay :
    /\ pc[r] \in {"down", "parked"} => cursor[r] = 0
    /\ pass[r].picked > 0 => pass[r].progress \/ pass[r].retry \/ pass[r].structural

Covered == Attended /\ PassShape

LEMMA CoveredInit == Init => Covered
BY DEF Init, Covered, Attended, PassShape, EmptyPass

LEMMA BatchCapPositive == BatchCap \in Nat /\ BatchCap >= 1
BY PolicyAssumption DEF BatchCap

\* A step of relay r alone, that leaves the table as it is, can only cost the rows
\* that r attended to.
LEMMA OthersAttend ==
  ASSUME Attended, NEW r \in Relay, UNCHANGED status,
         \A q \in Relay : q # r =>
           /\ pc'[q] = pc[q] /\ notified'[q] = notified[q] /\ timer'[q] = timer[q]
           /\ health'[q] = health[q] /\ pass'[q] = pass[q] /\ cursor'[q] = cursor[q]
           /\ pick'[q] = pick[q],
         \A x \in Row : status[x] = "PENDING" /\ AttendsTo(r, x) =>
           \E q \in Relay : AttendsTo(q, x)'
  PROVE  Attended'
<1>1. ASSUME NEW x \in Row, status'[x] = "PENDING"
      PROVE  \E q \in Relay : AttendsTo(q, x)'
  <2>1. PICK q \in Relay : AttendsTo(q, x)
    BY <1>1 DEF Attended
  <2>2. CASE q = r
    BY <1>1, <2>1, <2>2
  <2>3. CASE q # r
    BY <2>1, <2>3 DEF AttendsTo
  <2>4. QED
    BY <2>2, <2>3
<1>2. QED
  BY <1>1 DEF Attended

\* A pending row past the cursor that a draining relay cannot claim is in the hand of
\* another relay, which attends to it.
LEMMA HolderAttends ==
  ASSUME Typed, Held, NEW r \in Relay, pc[r] = "draining",
         NEW x \in Row, status[x] = "PENDING", cursor[r] < x, x \notin Claimable(r)
  PROVE  \E q \in Relay : q # r /\ pc[q] \in Working /\ pick[q] = x
<1>1. lock[x] # Free /\ lock[x] \in Relay
  BY DEF Claimable, Typed, TypeOK
<1>2. QED
  BY <1>1 DEF Held, LockHeld, Working

\* What settling counts, over an ack that is one of the three results.
LEMMA CountedPassShape ==
  ASSUME NEW r \in Relay, ack[r] \in {"accepted", "transient", "structural"}
  PROVE  /\ CountedPass(r).progress \/ CountedPass(r).retry \/ CountedPass(r).structural
         /\ NextStatus(r) = "PENDING" => CountedPass(r).retry \/ CountedPass(r).structural
         /\ pass[r].retry => CountedPass(r).retry
         /\ pass[r].structural => CountedPass(r).structural
BY DEF CountedPass, NextStatus

LEMMA PassShapeNext == Typed /\ Held /\ PassShape /\ [Next]_vars => PassShape'
<1> SUFFICES ASSUME Typed, Held, PassShape, [Next]_vars
             PROVE  PassShape'
  OBVIOUS
<1> USE DEF Typed, TypeOK, PassShape
<1>1. ASSUME UNCHANGED <<cursor, pass>>,
             \A r \in Relay : pc'[r] \in {"down", "parked"} => pc[r] \in {"down", "parked"}
      PROVE  PassShape'
  BY <1>1
<1>2. ASSUME NEW x \in Row, Stage(x) \/ LateArrival(x)
      PROVE  PassShape'
  BY <1>1, <1>2 DEF Stage, LateArrival, loop
<1>3. ASSUME NEW m \in MsgId, WindowElapses(m)
      PROVE  PassShape'
  BY <1>1, <1>3 DEF WindowElapses, loop
<1>4. CASE Outage \/ Recovery \/ UNCHANGED vars
  BY <1>1, <1>4 DEF Outage, Recovery, vars, loop
<1>5. ASSUME NEW r \in Relay,
             \/ Start(r) \/ Fetch(r) \/ Publish(r) \/ WakeUp(r)
             \/ LoseSession(r) \/ ListenerReconnects(r)
      PROVE  PassShape'
  BY <1>1, <1>5 DEF Start, Fetch, Publish, WakeUp, LoseSession, ListenerReconnects, loop
<1>6. ASSUME NEW r \in Relay,
             \/ FetchUnrenderable(r) \/ SettleFails(r) \/ Crash(r) \/ CommitReplyLost(r)
             \/ EndPass(r)
      PROVE  PassShape'
  <2>1. /\ cursor' = [cursor EXCEPT ![r] = 0]
        /\ pass' = [pass EXCEPT ![r] = EmptyPass]
        /\ \A q \in Relay : q # r => pc'[q] = pc[q]
    BY <1>6 DEF FetchUnrenderable, SettleFails, Crash, CommitReplyLost, Exit, EndPass
  <2>2. EmptyPass.picked = 0
    BY DEF EmptyPass
  <2>3. QED
    BY <2>1, <2>2
<1>7. ASSUME NEW r \in Relay, Settle(r)
      PROVE  PassShape'
  <2>1. ack[r] \in {"accepted", "transient", "structural"}
    BY <1>7 DEF Settle, Held, AckKnown
  <2>2. /\ pc'[r] = "draining" /\ pass'[r] = CountedPass(r)
        /\ \A q \in Relay : q # r => pc'[q] = pc[q] /\ cursor'[q] = cursor[q] /\ pass'[q] = pass[q]
    BY <1>7 DEF Settle
  <2>3. QED
    BY <2>1, <2>2, CountedPassShape
<1>8. QED
  BY <1>2, <1>3, <1>4, <1>5, <1>6, <1>7 DEF Next, RelayStep, RelayFault

LEMMA AttendedNext == Typed /\ Held /\ Covered /\ [Next]_vars => Attended'
<1> SUFFICES ASSUME Typed, Held, Covered, [Next]_vars
             PROVE  Attended'
  OBVIOUS
<1> USE RowAssumption, RelayAssumption DEF Covered
<1>1. ASSUME NEW x \in Row, Stage(x)
      PROVE  Attended'
  BY <1>1 DEF Stage, Attended, AttendsTo
<1>2. ASSUME \/ \E x \in Row : LateArrival(x)
             \/ \E m \in MsgId : WindowElapses(m)
             \/ \E r \in Relay : LoseSession(r)
             \/ Outage \/ Recovery \/ UNCHANGED vars
      PROVE  Attended'
  <2>1. UNCHANGED <<status, loop, pc, pick>>
    BY <1>2 DEF LateArrival, WindowElapses, LoseSession, Outage, Recovery, vars, db, work
  <2>2. QED
    BY <2>1 DEF Attended, AttendsTo, loop
<1>3. ASSUME NEW r \in Relay, Start(r) \/ WakeUp(r)
      PROVE  Attended'
  <2>1. pc'[r] = "draining" /\ cursor'[r] = 0 /\ UNCHANGED status
    BY <1>3 DEF Start, WakeUp, PassShape, Typed, TypeOK, db, loop
  <2>2. ASSUME NEW x \in Row
        PROVE  AttendsTo(r, x)'
    <3>1. 0 < x
      BY RowAssumption
    <3>2. QED
      BY <2>1, <3>1 DEF AttendsTo
  <2>3. QED
    BY <1>3, <2>1, <2>2, OthersAttend DEF Start, WakeUp, Typed, TypeOK, loop, work
<1>4. ASSUME NEW r \in Relay, Fetch(r)
      PROVE  Attended'
  <2>1. /\ pc[r] = "draining" /\ pc'[r] = "publishing"
        /\ UNCHANGED <<status, cursor, pass, timer, notified, health>>
        /\ \A q \in Relay : q # r => pc'[q] = pc[q] /\ pick'[q] = pick[q]
    BY <1>4 DEF Fetch, loop, Typed, TypeOK
  <2>2. PICK y \in Claimable(r) : pick'[r] = y /\ \A z \in Claimable(r) : y <= z
    BY <1>4 DEF Fetch, Typed, TypeOK
  <2>3. ASSUME NEW x \in Row, status[x] = "PENDING", AttendsTo(r, x)
        PROVE  \E q \in Relay : AttendsTo(q, x)'
    <3>1. CASE x \in Claimable(r)
      BY <2>1, <2>2, <2>3, <3>1 DEF AttendsTo, Working, Claimable
    <3>2. CASE x \notin Claimable(r) /\ cursor[r] < x
      <4>1. PICK q \in Relay : q # r /\ pc[q] \in Working /\ pick[q] = x
        BY <2>1, <2>3, <3>2, HolderAttends
      <4>2. QED
        BY <2>1, <4>1 DEF AttendsTo
    <3>3. CASE ~(cursor[r] < x)
      BY <2>1, <2>3, <3>3 DEF AttendsTo, Working
    <3>4. QED
      BY <3>1, <3>2, <3>3
  <2>4. QED
    BY <2>1, <2>3, OthersAttend
<1>5. ASSUME NEW r \in Relay, FetchUnrenderable(r) \/ SettleFails(r) \/ Crash(r)
      PROVE  Attended'
  <2>1. Exit(r) /\ UNCHANGED status /\ \A q \in Relay : q # r => health'[q] = health[q]
    BY <1>5 DEF FetchUnrenderable, SettleFails, Crash, Typed, TypeOK
  <2>2. pc'[r] = "down"
    BY <2>1 DEF Exit, Typed, TypeOK
  <2>3. \A x \in Row : AttendsTo(r, x)'
    BY <2>2 DEF AttendsTo
  <2>4. QED
    BY <2>1, <2>3, OthersAttend, ZenonT(40) DEF Exit, DropWork, Typed, TypeOK
<1>6. ASSUME NEW r \in Relay, Publish(r)
      PROVE  Attended'
  <2>1. /\ pc[r] = "publishing" /\ pc'[r] = "settling"
        /\ UNCHANGED <<status, cursor, pass, timer, notified, health, pick>>
        /\ \A q \in Relay : q # r => pc'[q] = pc[q]
    BY <1>6 DEF Publish, db, loop, Typed, TypeOK
  <2>2. \A x \in Row : AttendsTo(r, x) => AttendsTo(r, x)'
    BY <2>1 DEF AttendsTo, Working
  <2>3. QED
    BY <2>1, <2>2, OthersAttend
<1>7. ASSUME NEW r \in Relay, Settle(r)
      PROVE  Attended'
  <2>1. /\ pc[r] = "settling" /\ pc'[r] = "draining"
        /\ pick[r] \in Row /\ cursor'[r] = pick[r]
        /\ pass'[r] = CountedPass(r)
        /\ ack[r] \in {"accepted", "transient", "structural"}
        /\ UNCHANGED <<timer, notified, health>>
        /\ \A q \in Relay : q # r =>
             pc'[q] = pc[q] /\ cursor'[q] = cursor[q] /\ pass'[q] = pass[q] /\ pick'[q] = pick[q]
    BY <1>7 DEF Settle, DropWork, Typed, TypeOK, InHand, Working, Held, AckKnown
  <2>2. /\ status'[pick[r]] = NextStatus(r)
        /\ \A x \in Row : x # pick[r] => status'[x] = status[x]
    BY <1>7, <2>1 DEF Settle, Transition, Typed, TypeOK
  <2>3. ASSUME NEW x \in Row, status'[x] = "PENDING"
        PROVE  \E q \in Relay : AttendsTo(q, x)'
    <3>1. CASE x = pick[r]
      BY <2>1, <2>2, <2>3, <3>1, CountedPassShape DEF AttendsTo
    <3>2. CASE x # pick[r]
      <4>1. PICK q \in Relay : AttendsTo(q, x)
        BY <2>2, <2>3, <3>2 DEF Attended
      <4>2. CASE q # r
        BY <2>1, <4>1, <4>2 DEF AttendsTo
      <4>3. CASE q = r
        <5>1. pick[r] \in Nat /\ x \in Nat /\ cursor'[r] = pick[r]
          BY <2>1, RowAssumption
        <5>2. CASE pass[r].retry \/ pass[r].structural
          BY <2>1, <5>2, CountedPassShape DEF AttendsTo
        <5>3. CASE notified[r]
          BY <2>1, <5>3 DEF AttendsTo
        <5>4. CASE pick[r] <= x
          <6>1. cursor'[r] < x
            BY <3>2, <5>1, <5>4
          <6>2. QED
            BY <2>1, <6>1 DEF AttendsTo
        <5>5. QED
          BY <2>1, <3>2, <4>1, <4>3, <5>2, <5>3, <5>4 DEF AttendsTo
      <4>4. QED
        BY <4>2, <4>3
    <3>3. QED
      BY <3>1, <3>2
  <2>4. QED
    BY <2>3 DEF Attended
<1>8. ASSUME NEW r \in Relay, CommitReplyLost(r)
      PROVE  Attended'
  <2>1. pc'[r] = "down"
    BY <1>8 DEF CommitReplyLost, Exit, Typed, TypeOK
  <2>2. \A x \in Row : AttendsTo(r, x)'
    BY <2>1 DEF AttendsTo
  <2>3. QED
    BY <2>2 DEF Attended
<1>9. ASSUME NEW r \in Relay, EndPass(r)
      PROVE  Attended'
  <2>1. /\ pc[r] = "draining" /\ pc'[r] = "parked"
        /\ UNCHANGED <<status, notified, pick>>
        /\ timer'[r] = ScheduleAfter(pass[r])
        /\ pass[r].structural => health'[r] = "Degraded"
        /\ pass[r].picked \in Nat
        /\ \A q \in Relay : q # r =>
             /\ pc'[q] = pc[q] /\ timer'[q] = timer[q] /\ health'[q] = health[q]
             /\ pass'[q] = pass[q] /\ cursor'[q] = cursor[q]
    BY <1>9 DEF EndPass, Typed, TypeOK, db, work
  <2>2. ASSUME NEW x \in Row, status[x] = "PENDING", AttendsTo(r, x)
        PROVE  \E q \in Relay : AttendsTo(q, x)'
    <3>1. CASE pass[r].retry \/ pass[r].structural \/ notified[r]
      BY <2>1, <3>1 DEF AttendsTo, ScheduleAfter
    <3>2. CASE pass[r].picked >= BatchCap
      <4>1. pass[r].progress \/ pass[r].retry \/ pass[r].structural
        BY <2>1, <3>2, BatchCapPositive DEF PassShape
      <4>2. QED
        BY <2>1, <3>1, <3>2, <4>1 DEF AttendsTo, ScheduleAfter
    <3>3. CASE cursor[r] < x /\ Claimable(r) = {}
      <4>1. PICK q \in Relay : q # r /\ pc[q] \in Working /\ pick[q] = x
        BY <2>1, <2>2, <3>3, HolderAttends
      <4>2. QED
        BY <2>1, <4>1 DEF AttendsTo
    <3>4. QED
      BY <1>9, <2>1, <2>2, <3>1, <3>2, <3>3 DEF AttendsTo, EndPass, Working
  <2>3. QED
    BY <2>1, <2>2, OthersAttend
<1>10. ASSUME NEW r \in Relay, ListenerReconnects(r)
       PROVE  Attended'
  <2>1. notified'[r] /\ UNCHANGED status
    BY <1>10 DEF ListenerReconnects, Typed, TypeOK, db
  <2>2. \A x \in Row : AttendsTo(r, x)'
    BY <2>1 DEF AttendsTo
  <2>3. QED
    BY <2>2 DEF Attended
<1>11. QED
  BY <1>1, <1>2, <1>3, <1>4, <1>5, <1>6, <1>7, <1>8, <1>9, <1>10 DEF Next, RelayStep, RelayFault

\* If nothing is going to wake any relay, either no row is pending or some relay says
\* it is Degraded: no interleaving of relays, crashes and lost sessions strands a row
\* that nobody will look at and nobody reports.
THEOREM NoStrandingCorrect == Spec => []NoSilentStranding
<1>1. Covered => NoSilentStranding
  BY DEF Covered, Attended, AttendsTo, NoSilentStranding, Quiescent, Working
<1>2. Typed /\ Held /\ Covered /\ [Next]_vars => Covered'
  BY AttendedNext, PassShapeNext DEF Covered
<1>3. QED
  BY TypedInit, TypedNext, HeldInit, HeldNext, CoveredInit, <1>1, <1>2, PTL DEF Spec
=============================================================================
