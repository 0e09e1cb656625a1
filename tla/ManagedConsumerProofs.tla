------------------------ MODULE ManagedConsumerProofs ------------------------
(***************************************************************************)
(* Proofs about ManagedConsumer, for any frames, loops, budget, delays and *)
(* bounds.                                                                 *)
(*                                                                         *)
(* Five inductive invariants, each of the last four on top of Typed:       *)
(*   Typed     types, and that whatever is held is a published frame;      *)
(*   Counted   what a loop counts against the errors it has really had;    *)
(*   Settled   why a frame may be closed, and what a loop about to settle  *)
(*             one knows of it;                                            *)
(*   Shared    how a frame comes to be held twice;                         *)
(*   Paced     how a loop's delay and its count of failures go together.   *)
(* OneRunPerDelivery is inductive over Typed as it stands; its proof rests *)
(* on lemmas about finite sums, which say what the step of one loop does   *)
(* to the copies of a frame in all of them.                                *)
(***************************************************************************)
EXTENDS ManagedConsumer, BackoffProofs, FiniteSetTheorems

Busy == {"handling", "acking", "terming", "reporting"}

\* Buffers hold published frames, a busy loop has one in hand, and the failure count
\* of a loop that is down is as fresh as that of one that runs.
InHand ==
  /\ \A i \in Loop : Buffered(i) \subseteq published
  /\ \A i \in Loop : hand[i] # NoFrame => hand[i] \in published
  /\ \A i \in Loop : pc[i] \in Busy => hand[i] \in Frame
  /\ \A i \in Loop : failures[i] <= Budget

Typed == TypeOK /\ InHand

LEMMA NoCopiesTyped == NoCopies \in [Frame -> Nat] /\ \A f \in Frame : NoCopies[f] = 0
BY DEF NoCopies

LEMMA TypedInit == Init => Typed
<1> SUFFICES ASSUME Init
             PROVE  Typed
  OBVIOUS
<1>1. TypeOK
  BY NoCopiesTyped, DelayAssumption DEF Init, TypeOK
<1>2. InHand
  BY NoCopiesTyped, BoundAssumption DEF Init, InHand, Buffered, Busy
<1>3. QED
  BY <1>1, <1>2 DEF Typed

\* What a run_* call that returned leaves behind.
LEMMA ExitTyped ==
  ASSUME Typed, NEW i \in Loop, Exit(i), UNCHANGED published
  PROVE  /\ buffer' \in [Loop -> [Frame -> Nat]]
         /\ pc' \in [Loop -> {"down", "receiving", "handling", "acking", "terming",
                              "reporting", "rebinding"}]
         /\ hand' \in [Loop -> Frame \cup {NoFrame}]
         /\ outcome' \in [Loop -> {"none", "Ack", "Nak", "Term"}]
         /\ failures' \in [Loop -> Nat] /\ delay' \in [Loop -> Nat]
         /\ sinceFrame' \in [Loop -> Nat]
         /\ InHand'
BY NoCopiesTyped, BoundAssumption, DelayAssumption
DEF Typed, TypeOK, InHand, Busy, Buffered, Exit, NewRecovery

LEMMA RecoverTyped ==
  ASSUME Typed, NEW i \in Loop, NEW kind, Recover(i, kind), pc[i] \notin Busy, UNCHANGED published
  PROVE  /\ buffer' \in [Loop -> [Frame -> Nat]]
         /\ pc' \in [Loop -> {"down", "receiving", "handling", "acking", "terming",
                              "reporting", "rebinding"}]
         /\ hand' \in [Loop -> Frame \cup {NoFrame}]
         /\ outcome' \in [Loop -> {"none", "Ack", "Nak", "Term"}]
         /\ failures' \in [Loop -> Nat] /\ delay' \in [Loop -> Nat]
         /\ sinceFrame' \in [Loop -> Nat]
         /\ InHand'
<1> DEFINE counted == IF kind = "Other" THEN failures[i] + 1 ELSE failures[i]
<1>1. CASE counted > Budget
  BY <1>1, ExitTyped DEF Recover
<1>2. CASE ~(counted > Budget)
  <2>1. counted \in Nat /\ NextDelay(delay[i]) \in Nat
    BY DelayAssumption DEF Typed, TypeOK, NextDelay
  <2>2. /\ failures' = [failures EXCEPT ![i] = counted]
        /\ delay' = [delay EXCEPT ![i] = NextDelay(@)]
        /\ sinceFrame' = [sinceFrame EXCEPT ![i] = @ + 1]
        /\ pc' = [pc EXCEPT ![i] = "rebinding"]
        /\ UNCHANGED <<buffer, hand, outcome>>
    BY <1>2 DEF Recover
  <2>3. /\ failures' \in [Loop -> Nat] /\ delay' \in [Loop -> Nat]
        /\ sinceFrame' \in [Loop -> Nat]
    BY <2>1, <2>2 DEF Typed, TypeOK
  <2>4. \A j \in Loop : failures'[j] <= Budget
    BY <1>2, <2>1, <2>2, BoundAssumption DEF Typed, TypeOK, InHand
  <2>5. pc' \in [Loop -> {"down", "receiving", "handling", "acking", "terming",
                         "reporting", "rebinding"}]
    BY <2>2 DEF Typed, TypeOK
  <2>6. InHand'
    BY <2>2, <2>4 DEF Typed, TypeOK, InHand, Busy, Buffered
  <2>7. QED
    BY <2>2, <2>3, <2>5, <2>6 DEF Typed, TypeOK
<1>3. QED
  BY <1>1, <1>2

LEMMA ApplyTyped ==
  ASSUME Typed, NEW f \in published, NEW kind, Apply(kind, f)
  PROVE  /\ published' = published /\ deliveries' = deliveries /\ early' = early
         /\ closed' \subseteq published /\ outstanding' \subseteq published
BY DEF Typed, TypeOK, Apply

LEMMA TypedNext == Typed /\ [Next]_vars => Typed'
<1> SUFFICES ASSUME Typed, [Next]_vars
             PROVE  Typed'
  OBVIOUS
<1> USE FrameAssumption, BoundAssumption, DelayAssumption DEF Typed, InHand, Busy
<1>1. ASSUME NEW f \in Frame, Publish(f)
      PROVE  Typed'
  BY <1>1 DEF TypeOK, Publish, Buffered, recovery, service
<1>2. ASSUME NEW f \in Frame, AckWaitElapses(f)
      PROVE  Typed'
  BY <1>2 DEF TypeOK, AckWaitElapses, Buffered, recovery, service
<1>3. ASSUME NEW f \in Frame, NEW i \in Loop, Deliver(i, f)
      PROVE  Typed'
  <2>1. \A j \in Loop : Buffered(j)' \subseteq published
    BY <1>3 DEF TypeOK, Deliver, Buffered
  <2>2. QED
    BY <1>3, <2>1 DEF TypeOK, Deliver, recovery, service
<1>4. ASSUME NEW i \in Loop, Bind(i)
      PROVE  Typed'
  BY <1>4 DEF TypeOK, Bind, StartCounting, Buffered, broker, service
<1>5. ASSUME NEW i \in Loop, Receive(i)
      PROVE  Typed'
  <2>1. PICK f \in Buffered(i) :
          /\ buffer' = [buffer EXCEPT ![i][f] = @ - 1]
          /\ hand' = [hand EXCEPT ![i] = f]
          /\ IF f \in Undecodable
               THEN /\ pc' = [pc EXCEPT ![i] = "terming"]
                    /\ UNCHANGED <<failures, delay, spent>>
               ELSE /\ pc' = [pc EXCEPT ![i] = "handling"]
                    /\ NoteDelivery(i) /\ StartCounting(i)
    BY <1>5 DEF Receive
  <2>2. f \in Frame /\ f \in published /\ buffer[i][f] > 0
    BY DEF Buffered
  <2>3. buffer' \in [Loop -> [Frame -> Nat]] /\ \A j \in Loop : Buffered(j)' \subseteq published
    BY <2>1, <2>2 DEF TypeOK, Buffered
  <2>4. /\ failures' \in [Loop -> Nat] /\ delay' \in [Loop -> Nat] /\ spent' \in [Loop -> Nat]
        /\ \A j \in Loop : failures'[j] <= Budget
    <3>1. CASE UNCHANGED <<failures, delay, spent>>
      BY <3>1 DEF TypeOK
    <3>2. CASE NoteDelivery(i) /\ StartCounting(i)
      BY <3>2 DEF TypeOK, NoteDelivery, StartCounting
    <3>3. QED
      BY <2>1, <3>1, <3>2
  <2>5. /\ pc' \in [Loop -> {"down", "receiving", "handling", "acking", "terming",
                             "reporting", "rebinding"}]
        /\ hand' \in [Loop -> Frame \cup {NoFrame}]
    BY <2>1, <2>2 DEF TypeOK
  <2>6. sinceFrame' \in [Loop -> Nat]
    BY <1>5 DEF Receive, TypeOK
  <2>7. UNCHANGED <<broker, outcome, service, errors, faults>>
    BY <1>5 DEF Receive
  <2>8. \A j \in Loop : /\ hand'[j] # NoFrame => hand'[j] \in published
                        /\ pc'[j] \in Busy => hand'[j] \in Frame
    BY <2>1, <2>2 DEF TypeOK
  <2>9. QED
    BY <2>3, <2>4, <2>5, <2>6, <2>7, <2>8 DEF TypeOK, broker, service
<1>6. ASSUME NEW i \in Loop, Handle(i)
      PROVE  Typed'
  <2>1. hand[i] \in Frame
    BY <1>6 DEF Handle
  <2>2. runs' \in [Frame -> Nat] /\ naks' \in [Frame -> Nat] /\ concluded' \subseteq Frame
    <3>1. runs' = [runs EXCEPT ![hand[i]] = @ + 1]
      BY <1>6 DEF Handle
    <3>2. /\ naks' = naks \/ naks' = [naks EXCEPT ![hand[i]] = @ + 1]
          /\ concluded' = concluded \/ concluded' = concluded \cup {hand[i]}
      BY <1>6 DEF Handle
    <3>3. QED
      BY <2>1, <3>1, <3>2 DEF TypeOK
  <2>3. outcome' \in [Loop -> {"none", "Ack", "Nak", "Term"}]
    BY <1>6 DEF Handle, TypeOK
  <2>4. QED
    BY <1>6, <2>1, <2>2, <2>3 DEF TypeOK, Handle, Buffered, broker, recovery
<1>7. ASSUME NEW i \in Loop, Settle(i)
      PROVE  Typed'
  <2>1. hand[i] \in published
    BY <1>7 DEF Settle
  <2>2. /\ UNCHANGED <<published, deliveries, early>> /\ faults' \in Nat
        /\ closed' \subseteq published /\ outstanding' \subseteq published
    BY <1>7, <2>1, ApplyTyped DEF Settle, TypeOK, broker
  <2>3. QED
    BY <1>7, <2>2 DEF TypeOK, Settle, Buffered, recovery, service
<1>8. ASSUME NEW i \in Loop, TermPoison(i)
      PROVE  Typed'
  <2>1. hand[i] \in published
    BY <1>8 DEF TermPoison
  <2>2. /\ UNCHANGED <<published, deliveries, early>> /\ faults' \in Nat
        /\ closed' \subseteq published /\ outstanding' \subseteq published
    BY <1>8, <2>1, ApplyTyped DEF TermPoison, TypeOK, broker
  <2>3. QED
    BY <1>8, <2>2 DEF TypeOK, TermPoison, Buffered, recovery, service
<1>9. ASSUME NEW i \in Loop, ReportPoison(i)
      PROVE  Typed'
  BY <1>9 DEF TypeOK, ReportPoison, Buffered, broker, recovery
<1>10. ASSUME NEW i \in Loop, Rebind(i)
       PROVE  Typed'
  BY <1>10, NoCopiesTyped DEF TypeOK, Rebind, Buffered, broker, recovery, service
<1>11. ASSUME NEW i \in Loop, BindFails(i)
       PROVE  Typed'
  BY <1>11 DEF TypeOK, BindFails, Buffered, broker, recovery, service
<1>12. ASSUME NEW i \in Loop, StreamError(i) \/ RebindFails(i)
       PROVE  Typed'
  <2>1. /\ pc[i] \notin Busy /\ errors' \in Nat /\ UNCHANGED <<broker, service, faults>>
        /\ Exit(i) \/ \E kind \in Recoverable : Recover(i, kind)
        /\ StartCounting(i) \/ \E kind \in Recoverable : Spend(i, kind)
    BY <1>12 DEF StreamError, RebindFails, TypeOK, Recoverable
  <2>2. UNCHANGED published /\ spent' \in [Loop -> Nat]
    <3>1. spent[i] + 1 \in Nat /\ spent \in [Loop -> Nat]
      BY DEF TypeOK
    <3>2. \/ spent' = spent \/ spent' = [spent EXCEPT ![i] = 0]
          \/ spent' = [spent EXCEPT ![i] = spent[i] + 1]
      BY <2>1 DEF StartCounting, Spend
    <3>3. QED
      BY <2>1, <3>1, <3>2 DEF broker
  <2>3. QED
    BY <2>1, <2>2, ExitTyped, RecoverTyped DEF TypeOK, broker, service
<1>13. ASSUME NEW i \in Loop, Crash(i)
       PROVE  Typed'
  <2>1. /\ faults' \in Nat /\ UNCHANGED <<broker, service, errors>> /\ Exit(i)
        /\ spent' \in [Loop -> Nat]
    BY <1>13 DEF Crash, StartCounting, TypeOK
  <2>2. QED
    BY <2>1, ExitTyped DEF TypeOK, broker, service
<1>14. CASE UNCHANGED vars
  BY <1>14 DEF TypeOK, Buffered, vars, broker, recovery, service
<1>15. QED
  BY <1>1, <1>2, <1>3, <1>4, <1>5, <1>6, <1>7, <1>8, <1>9, <1>10, <1>11, <1>12, <1>13, <1>14
  DEF Next, LoopStep, LoopFault

LEMMA AlwaysTyped == Spec => []Typed
BY TypedInit, TypedNext, PTL DEF Spec

\* Every variable keeps its type; no frame is closed that was never published.
THEOREM TypeCorrect == Spec => []TypeOK
<1>1. Typed => TypeOK
  BY DEF Typed
<1>2. QED
  BY AlwaysTyped, <1>1, PTL

-----------------------------------------------------------------------------
(* The failure budget *)

\* A running loop counts the errors it has really had, and one that returned counts none:
\* what it leaves behind is the error it gave up over, or nothing.
Counted ==
  \A i \in Loop : IF pc[i] = "down" THEN failures[i] = 0 /\ spent[i] \in {0, Budget + 1}
                                    ELSE failures[i] = spent[i]

LEMMA CountedInit == Init => Counted
BY DEF Init, Counted

\* A step that leaves the recovery of every loop alone, and starts and stops none.
LEMMA CountedKept ==
  ASSUME Typed, Counted, UNCHANGED <<failures, spent>>,
         \A i \in Loop : pc'[i] = "down" <=> pc[i] = "down"
  PROVE  Counted'
BY DEF Counted

LEMMA RecoverCounted ==
  ASSUME Typed, Counted, NEW i \in Loop, NEW kind, pc[i] # "down", Recover(i, kind), Spend(i, kind)
  PROVE  Counted'
<1>1. failures[i] \in Nat /\ failures[i] <= Budget /\ spent[i] = failures[i]
  BY DEF Typed, TypeOK, InHand, Counted
<1>2. CASE kind = "Other" /\ failures[i] + 1 > Budget
  <2>1. failures[i] + 1 = Budget + 1
    BY <1>1, <1>2, BoundAssumption
  <2>2. Exit(i) /\ spent' = [spent EXCEPT ![i] = Budget + 1]
    BY <1>1, <1>2, <2>1 DEF Recover, Spend
  <2>3. QED
    BY <2>2 DEF Counted, Exit, NewRecovery, Typed, TypeOK
<1>3. CASE ~(kind = "Other" /\ failures[i] + 1 > Budget)
  <2> DEFINE counted == IF kind = "Other" THEN failures[i] + 1 ELSE failures[i]
  <2>0. ~(counted > Budget)
    BY <1>1, <1>3, BoundAssumption
  <2>1. /\ pc' = [pc EXCEPT ![i] = "rebinding"]
        /\ failures' = [failures EXCEPT ![i] = counted]
        /\ spent' = [spent EXCEPT ![i] = counted]
    <3>1. pc' = [pc EXCEPT ![i] = "rebinding"] /\ failures' = [failures EXCEPT ![i] = counted]
      BY <2>0 DEF Recover
    <3>2. spent' = [spent EXCEPT ![i] = counted]
      BY <1>1 DEF Spend, Typed, TypeOK
    <3>3. QED
      BY <3>1, <3>2
  <2>2. QED
    BY <1>1, <2>1 DEF Counted, Typed, TypeOK
<1>4. QED
  BY <1>2, <1>3

LEMMA CountedNext == Typed /\ Counted /\ [Next]_vars => Counted'
<1> SUFFICES ASSUME Typed, Counted, [Next]_vars
             PROVE  Counted'
  OBVIOUS
<1>1. ASSUME NEW f \in Frame, Publish(f) \/ AckWaitElapses(f) \/ \E i \in Loop : Deliver(i, f)
      PROVE  Counted'
  BY <1>1, CountedKept DEF Publish, AckWaitElapses, Deliver, recovery
<1>2. ASSUME NEW i \in Loop,
             \/ Handle(i) \/ Settle(i) \/ TermPoison(i) \/ ReportPoison(i) \/ Rebind(i)
             \/ BindFails(i)
      PROVE  Counted'
  <2>1. /\ UNCHANGED <<failures, spent>>
        /\ UNCHANGED pc \/ /\ pc[i] # "down"
                           /\ \E at \in {"acking", "receiving", "reporting"} : pc' = [pc EXCEPT ![i] = at]
    BY <1>2 DEF Handle, Settle, TermPoison, ReportPoison, Rebind, BindFails, recovery
  <2>2. \A j \in Loop : pc'[j] = "down" <=> pc[j] = "down"
    BY <2>1 DEF Typed, TypeOK
  <2>3. QED
    BY <2>1, <2>2, CountedKept
<1>3. ASSUME NEW i \in Loop, Bind(i)
      PROVE  Counted'
  BY <1>3 DEF Bind, StartCounting, Counted, Typed, TypeOK
<1>4. ASSUME NEW i \in Loop, Receive(i)
      PROVE  Counted'
  <2>1. /\ pc[i] # "down"
        /\ \E at \in {"terming", "handling"} : pc' = [pc EXCEPT ![i] = at]
        /\ UNCHANGED <<failures, spent>> \/ (NoteDelivery(i) /\ StartCounting(i))
    BY <1>4 DEF Receive
  <2>2. QED
    BY <2>1 DEF NoteDelivery, StartCounting, Counted, Typed, TypeOK
<1>5. ASSUME NEW i \in Loop, Exit(i), StartCounting(i)
      PROVE  Counted'
  BY <1>5 DEF Exit, NewRecovery, StartCounting, Counted, Typed, TypeOK
<1>6. ASSUME NEW i \in Loop, StreamError(i) \/ RebindFails(i) \/ Crash(i)
      PROVE  Counted'
  <2>1. /\ pc[i] # "down"
        /\ \/ Exit(i) /\ StartCounting(i)
           \/ \E kind : Recover(i, kind) /\ Spend(i, kind)
    BY <1>6 DEF StreamError, RebindFails, Crash
  <2>2. QED
    BY <1>5, <2>1, RecoverCounted
<1>7. CASE UNCHANGED vars
  BY <1>7, CountedKept DEF vars, recovery
<1>8. QED
  BY <1>1, <1>2, <1>3, <1>4, <1>6, <1>7 DEF Next, LoopStep, LoopFault

\* No loop goes on over a spent budget, and none gives up over a counted error before the
\* errors since the last decoded frame have really spent it.
THEOREM BudgetCorrect == Spec => []EscalatesAtTheBudget
<1>1. Typed /\ Counted => EscalatesAtTheBudget
  BY DEF Typed, TypeOK, InHand, Counted, EscalatesAtTheBudget
<1>2. QED
  BY AlwaysTyped, CountedInit, CountedNext, <1>1, PTL DEF Spec

-----------------------------------------------------------------------------
(* Why a frame may be closed *)

\* A loop about to settle a frame with Ack or Term has a handler's word for it; one on
\* the decode error path has a frame that does not decode.
Settled ==
  /\ NothingLost
  /\ \A i \in Loop :
       /\ pc[i] = "acking" => outcome[i] = "Nak" \/ hand[i] \in concluded
       /\ pc[i] = "terming" => hand[i] \in Undecodable

LEMMA SettledInit == Init => Settled
BY DEF Init, Settled, NothingLost

LEMMA ExitSettled ==
  ASSUME Typed, Settled, NEW i \in Loop, UNCHANGED <<broker, service>>,
         Exit(i) \/ (pc' = [pc EXCEPT ![i] = "rebinding"] /\ UNCHANGED <<hand, outcome>>)
  PROVE  Settled'
BY DEF Typed, TypeOK, Settled, NothingLost, Exit, broker, service

LEMMA SettledNext == Typed /\ Settled /\ [Next]_vars => Settled'
<1> SUFFICES ASSUME Typed, Settled, [Next]_vars
             PROVE  Settled'
  OBVIOUS
<1> USE DEF Typed, TypeOK, Settled, NothingLost
<1>1. ASSUME NEW f \in Frame, Publish(f) \/ AckWaitElapses(f) \/ \E i \in Loop : Deliver(i, f)
      PROVE  Settled'
  BY <1>1 DEF Publish, AckWaitElapses, Deliver, service
<1>2. ASSUME NEW i \in Loop, Bind(i) \/ Rebind(i)
      PROVE  Settled'
  BY <1>2 DEF Bind, Rebind, broker, service
<1>3. ASSUME NEW i \in Loop, Receive(i)
      PROVE  Settled'
  BY <1>3 DEF Receive, broker, service
<1>4. ASSUME NEW i \in Loop, Handle(i)
      PROVE  Settled'
  <2>1. /\ pc' = [pc EXCEPT ![i] = "acking"] /\ UNCHANGED <<hand, closed>>
        /\ \/ concluded' = concluded \cup {hand[i]}
           \/ outcome' = [outcome EXCEPT ![i] = "Nak"] /\ concluded' = concluded
        /\ \A j \in Loop \ {i} : outcome'[j] = outcome[j]
    BY <1>4 DEF Handle, broker
  <2>2. QED
    BY <2>1
<1>5. ASSUME NEW i \in Loop, Settle(i)
      PROVE  Settled'
  <2>1. \A f \in closed' : f \in concluded \/ f \in Undecodable
    BY <1>5 DEF Settle, Apply, broker
  <2>2. QED
    BY <1>5, <2>1 DEF Settle, service
<1>6. ASSUME NEW i \in Loop, TermPoison(i)
      PROVE  Settled'
  <2>1. \A f \in closed' : f \in concluded \/ f \in Undecodable
    BY <1>6 DEF TermPoison, Apply, broker
  <2>2. QED
    BY <1>6, <2>1 DEF TermPoison, service
<1>7. ASSUME NEW i \in Loop, ReportPoison(i) \/ BindFails(i)
      PROVE  Settled'
  BY <1>7 DEF ReportPoison, BindFails, broker, service
<1>8. ASSUME NEW i \in Loop, StreamError(i) \/ RebindFails(i) \/ Crash(i)
      PROVE  Settled'
  <2>1. /\ UNCHANGED <<broker, service>>
        /\ Exit(i) \/ (pc' = [pc EXCEPT ![i] = "rebinding"] /\ UNCHANGED <<hand, outcome>>)
    <3>1. ASSUME NEW kind, Recover(i, kind)
          PROVE  Exit(i) \/ (pc' = [pc EXCEPT ![i] = "rebinding"] /\ UNCHANGED <<hand, outcome>>)
      BY <3>1 DEF Recover
    <3>2. QED
      BY <1>8, <3>1 DEF StreamError, RebindFails, Crash
  <2>2. QED
    BY <2>1, ExitSettled
<1>9. CASE UNCHANGED vars
  BY <1>9 DEF vars, broker, service
<1>10. QED
  BY <1>1, <1>2, <1>3, <1>4, <1>5, <1>6, <1>7, <1>8, <1>9 DEF Next, LoopStep, LoopFault

\* No crash, lost ack, re-bind or redelivery takes a frame off the durable that no
\* handler concluded, unless it never decodes.
THEOREM NothingLostCorrect == Spec => []NothingLost
<1>1. Settled => NothingLost
  BY DEF Settled
<1>2. QED
  BY AlwaysTyped, SettledInit, SettledNext, <1>1, PTL DEF Spec

-----------------------------------------------------------------------------
(* How a frame comes to be held twice *)

Holds(i, f) == f \in Buffered(i) \/ hand[i] = f

\* A held frame is outstanding, closed, or one whose ack wait ran out too soon; the
\* last is the only way two loops, or the buffer and the hand of one, share a frame.
Shared ==
  /\ \A i \in Loop : \A f \in Frame :
       Holds(i, f) => f \in outstanding \/ f \in closed \/ early[f] > 0
  /\ \A i, j \in Loop : \A f \in Frame :
       (i # j /\ Holds(i, f) /\ Holds(j, f)) => early[f] > 0
  /\ \A i \in Loop : \A f \in Frame : hand[i] = f /\ f \in Buffered(i) => early[f] > 0
  /\ \A i \in Loop : \A f \in Frame : buffer[i][f] > 1 => early[f] > 0

LEMMA SharedInit == Init => Shared
BY FrameAssumption, NoCopiesTyped DEF Init, Shared, Holds, Buffered

\* A step that only lets go of frames, and settles none.
LEMMA LetGo ==
  ASSUME Typed, Shared,
         UNCHANGED <<closed, outstanding, early>>,
         \A i \in Loop : \A f \in Frame : buffer'[i][f] <= buffer[i][f],
         \A i \in Loop : hand'[i] = hand[i] \/ hand'[i] = NoFrame,
         buffer' \in [Loop -> [Frame -> Nat]]
  PROVE  Shared'
<1>1. \A i \in Loop : \A f \in Frame : /\ f \in Buffered(i)' => f \in Buffered(i)
                                       /\ buffer'[i][f] > 1 => buffer[i][f] > 1
  BY DEF Typed, TypeOK, Buffered
<1>2. \A i \in Loop : \A f \in Frame : hand'[i] = f => hand[i] = f
  BY FrameAssumption
<1>3. \A i \in Loop : \A f \in Frame : Holds(i, f)' => Holds(i, f)
  BY <1>1, <1>2 DEF Holds
<1>4. QED
  BY <1>1, <1>2, <1>3 DEF Shared

LEMMA NoCopiesFewer ==
  ASSUME Typed, NEW i \in Loop, buffer' = [buffer EXCEPT ![i] = NoCopies]
  PROVE  \A j \in Loop : \A f \in Frame : buffer'[j][f] <= buffer[j][f]
BY NoCopiesTyped DEF Typed, TypeOK

\* A settlement by a loop that then lets go of the frame, or has closed it.
LEMMA SettleShares ==
  ASSUME Typed, Shared, NEW i \in Loop, NEW kind, hand[i] \in Frame, Apply(kind, hand[i]),
         UNCHANGED buffer,
         (hand' = hand /\ kind # "Nak") \/ hand' = [hand EXCEPT ![i] = NoFrame]
  PROVE  Shared'
<1>1. \A j \in Loop : \A f \in Frame : hand'[j] = f => hand[j] = f
  BY FrameAssumption DEF Typed, TypeOK
<1>2. \A j \in Loop : \A f \in Frame : Holds(j, f)' => Holds(j, f)
  BY <1>1 DEF Holds, Buffered
<1>3. early' = early /\ closed \subseteq closed'
  BY DEF Apply
<1>4. ASSUME NEW j \in Loop, NEW f \in Frame, Holds(j, f)'
      PROVE  f \in outstanding' \/ f \in closed' \/ early'[f] > 0
  <2>1. CASE f # hand[i]
    BY <1>2, <1>3, <1>4, <2>1 DEF Shared, Apply
  <2>2. CASE f = hand[i] /\ kind # "Nak"
    BY <2>2 DEF Apply
  <2>3. CASE f = hand[i] /\ hand' = [hand EXCEPT ![i] = NoFrame]
    <3>1. j # i \/ f \in Buffered(i)
      BY <1>4, <2>3, FrameAssumption DEF Holds, Buffered, Typed, TypeOK
    <3>2. Holds(i, f) /\ Holds(j, f)
      BY <1>2, <1>4, <2>3 DEF Holds
    <3>3. early[f] > 0
      BY <2>3, <3>1, <3>2 DEF Shared
    <3>4. QED
      BY <1>3, <3>3
  <2>4. QED
    BY <2>1, <2>2, <2>3
<1>5. QED
  BY <1>1, <1>2, <1>3, <1>4 DEF Shared, Buffered

LEMMA SharedNext == Typed /\ Shared /\ [Next]_vars => Shared'
<1> SUFFICES ASSUME Typed, Shared, [Next]_vars
             PROVE  Shared'
  OBVIOUS
<1> USE DEF Typed, TypeOK
<1>1. ASSUME NEW f \in Frame, Publish(f)
      PROVE  Shared'
  BY <1>1 DEF Publish, Shared, Holds, Buffered
<1>2. ASSUME NEW f \in Frame, AckWaitElapses(f)
      PROVE  Shared'
  <2>1. CASE Held(f)
    <3>1. early'[f] > 0 /\ \A g \in Frame : early[g] > 0 => early'[g] > 0
      BY <1>2, <2>1 DEF AckWaitElapses
    <3>2. UNCHANGED <<buffer, hand, closed>> /\ outstanding' = outstanding \ {f}
      BY <1>2 DEF AckWaitElapses
    <3>3. \A j \in Loop : \A g \in Frame : Holds(j, g)' = Holds(j, g)
      BY <3>2 DEF Holds, Buffered
    <3>4. QED
      BY <3>1, <3>2, <3>3 DEF Shared, Buffered
  <2>2. CASE ~Held(f)
    <3>1. UNCHANGED <<buffer, hand, closed, early>> /\ outstanding' = outstanding \ {f}
      BY <1>2, <2>2 DEF AckWaitElapses
    <3>2. \A j \in Loop : ~Holds(j, f)
      BY <2>2 DEF Held, Holds
    <3>3. \A j \in Loop : \A g \in Frame : Holds(j, g)' = Holds(j, g)
      BY <3>1 DEF Holds, Buffered
    <3>4. QED
      BY <3>1, <3>2, <3>3 DEF Shared, Buffered
  <2>3. QED
    BY <2>1, <2>2
<1>3. ASSUME NEW f \in Frame, NEW i \in Loop, Deliver(i, f)
      PROVE  Shared'
  <2>1. /\ f \notin closed /\ f \notin outstanding /\ outstanding' = outstanding \cup {f}
        /\ buffer' = [buffer EXCEPT ![i][f] = @ + 1] /\ UNCHANGED <<hand, closed, early>>
    BY <1>3 DEF Deliver
  <2>2. (\E j \in Loop : Holds(j, f)) => early[f] > 0
    BY <2>1 DEF Shared
  <2>3. \A j \in Loop : \A g \in Frame : g # f \/ j # i => buffer'[j][g] = buffer[j][g]
    BY <2>1
  <2>4. \A j \in Loop : \A g \in Frame : g # f \/ j # i => Holds(j, g)' = Holds(j, g)
    BY <2>1, <2>3 DEF Holds, Buffered
  <2>5. buffer'[i][f] > 1 => Holds(i, f)
    BY <2>1 DEF Holds, Buffered
  <2>6. \A j \in Loop : \A g \in Frame :
          (g # f \/ j # i) => (g \in Buffered(j)' <=> g \in Buffered(j))
    BY <2>3 DEF Buffered
  <2>7. \A j \in Loop : \A g \in Frame :
          Holds(j, g)' => g \in outstanding' \/ g \in closed' \/ early'[g] > 0
    BY <2>1, <2>4 DEF Shared
  <2>8. \A j, k \in Loop : \A g \in Frame :
          (j # k /\ Holds(j, g)' /\ Holds(k, g)') => early'[g] > 0
    BY <2>1, <2>2, <2>4 DEF Shared
  <2>9. \A j \in Loop : \A g \in Frame :
          /\ hand'[j] = g /\ g \in Buffered(j)' => early'[g] > 0
          /\ buffer'[j][g] > 1 => early'[g] > 0
    <3>1. hand[i] = f => Holds(i, f)
      BY DEF Holds
    <3>2. QED
      BY <2>1, <2>2, <2>3, <2>5, <2>6, <3>1 DEF Shared
  <2>10. QED
    BY <2>7, <2>8, <2>9 DEF Shared
<1>4. ASSUME NEW i \in Loop, Receive(i)
      PROVE  Shared'
  <2>1. PICK f \in Buffered(i) : /\ buffer' = [buffer EXCEPT ![i][f] = @ - 1]
                                 /\ hand' = [hand EXCEPT ![i] = f]
    BY <1>4 DEF Receive
  <2>2. f \in Frame /\ buffer[i][f] > 0 /\ UNCHANGED <<closed, outstanding, early>>
    BY <1>4 DEF Receive, Buffered, broker
  <2>3. \A j \in Loop : \A g \in Frame :
          /\ g \in Buffered(j)' => g \in Buffered(j)
          /\ buffer'[j][g] > 1 => buffer[j][g] > 1
          /\ Holds(j, g)' => Holds(j, g)
          /\ hand'[j] = g => hand[j] = g \/ (j = i /\ g = f)
    BY <2>1, <2>2 DEF Buffered, Holds
  <2>4. f \in Buffered(i)' => buffer[i][f] > 1
    BY <2>1, <2>2 DEF Buffered
  <2>5. QED
    <3>1. \A j \in Loop : \A g \in Frame : hand'[j] = g /\ g \in Buffered(j)' => early[g] > 0
      <4>1. ASSUME NEW j \in Loop, NEW g \in Frame, hand'[j] = g, g \in Buffered(j)'
            PROVE  early[g] > 0
        <5>1. CASE j = i /\ g = f
          BY ONLY Shared, <2>2, <2>4, <4>1, <5>1, i \in Loop DEF Shared
        <5>2. CASE ~(j = i /\ g = f)
          <6>1. hand[j] = g /\ g \in Buffered(j)
            BY ONLY <2>3, <4>1, <5>2
          <6>2. QED
            BY ONLY Shared, <6>1, g \in Frame, j \in Loop DEF Shared
        <5>3. QED
          BY <5>1, <5>2
      <4>2. QED
        BY <4>1
    <3>2. QED
      BY <2>2, <2>3, <3>1 DEF Shared
<1>5. ASSUME NEW i \in Loop, Settle(i)
      PROVE  Shared'
  <2>1. /\ hand[i] \in Frame /\ UNCHANGED buffer /\ hand' = [hand EXCEPT ![i] = NoFrame]
        /\ Apply(outcome[i], hand[i]) \/ UNCHANGED broker
    BY <1>5 DEF Settle, InHand, Busy
  <2>2. CASE UNCHANGED broker
    BY <2>1, <2>2, LetGo DEF broker
  <2>3. QED
    BY <2>1, <2>2, SettleShares
<1>6. ASSUME NEW i \in Loop, TermPoison(i)
      PROVE  Shared'
  <2>1. /\ hand[i] \in Frame /\ UNCHANGED <<buffer, hand>>
        /\ Apply("Term", hand[i]) \/ UNCHANGED broker
    BY <1>6 DEF TermPoison, InHand, Busy
  <2>2. CASE UNCHANGED broker
    BY <2>1, <2>2, LetGo DEF broker
  <2>3. QED
    BY <2>1, <2>2, SettleShares
<1>7. ASSUME NEW i \in Loop, Handle(i) \/ ReportPoison(i) \/ Bind(i) \/ BindFails(i)
      PROVE  Shared'
  <2>1. /\ UNCHANGED <<broker, buffer>>
        /\ UNCHANGED hand \/ hand' = [hand EXCEPT ![i] = NoFrame]
    BY <1>7 DEF Handle, ReportPoison, Bind, BindFails
  <2>2. QED
    BY <2>1, LetGo DEF broker
<1>8. ASSUME NEW i \in Loop, Rebind(i) \/ StreamError(i) \/ RebindFails(i) \/ Crash(i)
      PROVE  Shared'
  <2>1. ASSUME NEW kind, Recover(i, kind)
        PROVE  Exit(i) \/ UNCHANGED <<buffer, hand>>
    BY <2>1 DEF Recover
  <2>2. /\ UNCHANGED broker
        /\ UNCHANGED buffer \/ buffer' = [buffer EXCEPT ![i] = NoCopies]
        /\ UNCHANGED hand \/ hand' = [hand EXCEPT ![i] = NoFrame]
    BY <1>8, <2>1 DEF Rebind, StreamError, RebindFails, Crash, Exit
  <2>3. /\ \A j \in Loop : \A f \in Frame : buffer'[j][f] <= buffer[j][f]
        /\ buffer' \in [Loop -> [Frame -> Nat]]
    <3>1. CASE UNCHANGED buffer
      BY <3>1
    <3>2. CASE buffer' = [buffer EXCEPT ![i] = NoCopies]
      <4>1. \A j \in Loop : \A f \in Frame : buffer'[j][f] <= buffer[j][f]
        BY <3>2, NoCopiesFewer
      <4>2. buffer' \in [Loop -> [Frame -> Nat]]
        BY <3>2, NoCopiesTyped
      <4>3. QED
        BY <4>1, <4>2
    <3>3. QED
      BY <2>2, <3>1, <3>2
  <2>4. QED
    BY <2>2, <2>3, LetGo DEF broker
<1>9. CASE UNCHANGED vars
  BY <1>9, LetGo DEF vars, broker
<1>10. QED
  BY <1>1, <1>2, <1>3, <1>4, <1>5, <1>6, <1>7, <1>8, <1>9 DEF Next, LoopStep, LoopFault

\* Two loops work on the same frame only if its ack wait ran out under the first.
THEOREM SharingCorrect == Spec => []SharedOnlyAfterExpiry
<1>1. Shared => SharedOnlyAfterExpiry
  BY DEF Shared, SharedOnlyAfterExpiry, Holds
<1>2. QED
  BY AlwaysTyped, SharedInit, SharedNext, <1>1, PTL DEF Spec

-----------------------------------------------------------------------------
(* The backoff *)

\* The delay of every loop, asleep or not, keeps pace with its count of failures: the two
\* are reset together, and where one grows the other doubles.
Paced == \A i \in Loop : KeepsPace(delay[i], failures[i])

LEMMA PacedInit == Init => Paced
BY PaceStarts DEF Init, Paced

\* A new Recovery and a delivered frame reset both.
LEMMA ResetPaced ==
  ASSUME Typed, Paced, NEW i \in Loop,
         failures' = [failures EXCEPT ![i] = 0], delay' = [delay EXCEPT ![i] = InitialDelay]
  PROVE  Paced'
BY PaceStarts DEF Typed, TypeOK, Paced

LEMMA RecoverPaced ==
  ASSUME Typed, Paced, NEW i \in Loop, NEW kind, Recover(i, kind)
  PROVE  Paced'
<1> DEFINE counted == IF kind = "Other" THEN failures[i] + 1 ELSE failures[i]
<1>1. CASE counted > Budget
  BY <1>1, ResetPaced DEF Recover, Exit, NewRecovery
<1>2. CASE ~(counted > Budget)
  <2>1. /\ failures' = [failures EXCEPT ![i] = counted]
        /\ delay' = [delay EXCEPT ![i] = NextDelay(delay[i])]
    BY <1>2 DEF Recover
  <2>2. delay[i] \in Nat /\ failures[i] \in Nat /\ counted \in Nat
    BY DEF Typed, TypeOK
  <2>3. counted = failures[i] \/ counted = failures[i] + 1
    OBVIOUS
  <2> HIDE DEF counted
  <2>4. KeepsPace(NextDelay(delay[i]), counted)
    BY <2>2, <2>3, PaceKept DEF Paced
  <2>5. QED
    BY <2>1, <2>4 DEF Typed, TypeOK, Paced
<1>3. QED
  BY <1>1, <1>2

LEMMA PacedNext == Typed /\ Paced /\ [Next]_vars => Paced'
<1> SUFFICES ASSUME Typed, Paced, [Next]_vars
             PROVE  Paced'
  OBVIOUS
<1>1. ASSUME UNCHANGED recovery
      PROVE  Paced'
  BY <1>1 DEF Paced, recovery
<1>2. ASSUME NEW f \in Frame, Publish(f) \/ AckWaitElapses(f) \/ \E i \in Loop : Deliver(i, f)
      PROVE  Paced'
  BY <1>1, <1>2 DEF Publish, AckWaitElapses, Deliver
<1>3. ASSUME NEW i \in Loop,
             \/ Bind(i) \/ BindFails(i) \/ Handle(i) \/ Settle(i)
             \/ TermPoison(i) \/ ReportPoison(i) \/ Rebind(i)
      PROVE  Paced'
  BY <1>1, <1>3 DEF Paced, Bind, BindFails, Handle, Settle, TermPoison, ReportPoison, Rebind
<1>4. ASSUME NEW i \in Loop, Receive(i)
      PROVE  Paced'
  <2>1. UNCHANGED <<failures, delay>> \/ NoteDelivery(i)
    BY <1>4 DEF Receive
  <2>2. CASE UNCHANGED <<failures, delay>>
    BY <2>2 DEF Paced
  <2>3. CASE NoteDelivery(i)
    BY <2>3, ResetPaced DEF NoteDelivery
  <2>4. QED
    BY <2>1, <2>2, <2>3
<1>5. ASSUME NEW i \in Loop, StreamError(i) \/ RebindFails(i) \/ Crash(i)
      PROVE  Paced'
  <2>1. Exit(i) \/ \E kind : Recover(i, kind)
    BY <1>5 DEF StreamError, RebindFails, Crash
  <2>2. CASE Exit(i)
    BY <2>2, ResetPaced DEF Exit, NewRecovery
  <2>3. QED
    BY <2>1, <2>2, RecoverPaced
<1>6. CASE UNCHANGED vars
  BY <1>1, <1>6 DEF vars
<1>7. QED
  BY <1>2, <1>3, <1>4, <1>5, <1>6 DEF Next, LoopStep, LoopFault

\* No sleep of a recovering loop is shorter than the failures since the last delivered frame
\* ask for, up to the cap: re-binds that succeed in between reset nothing.
THEOREM BackoffCorrect == Spec => []BackoffKeepsPace
<1>1. Paced => BackoffKeepsPace
  BY DEF Paced, BackoffKeepsPace
<1>2. QED
  BY AlwaysTyped, PacedInit, PacedNext, <1>1, PTL DEF Spec

-----------------------------------------------------------------------------
(* Sums over the loops *)

\* it sums the copies of f over the sets of loops, an element at a time.
Sums(b, f, it) ==
  it = [T \in SUBSET Loop |-> IF T = {} THEN 0
                           ELSE b[CHOOSE x \in T : TRUE][f] + it[T \ {CHOOSE x \in T : TRUE}]]

LEMMA NoLoops == \A T \in SUBSET Loop : Cardinality(T) <= 0 => T = {}
<1>1. TAKE T \in SUBSET Loop
<1>2. IsFiniteSet(T) /\ Cardinality(T) \in Nat
  BY LoopAssumption, FS_Subset, FS_CardinalityType
<1>3. Cardinality(T) = 0 => T = {}
  BY <1>2, FS_EmptySet
<1>4. QED
  BY <1>2, <1>3

LEMMA SmallerSets ==
  ASSUME NEW n \in Nat,
         NEW T \in SUBSET Loop, T # {}, Cardinality(T) <= n + 1
  PROVE  LET x == CHOOSE y \in T : TRUE IN
         /\ x \in T /\ T \ {x} \in SUBSET Loop /\ Cardinality(T \ {x}) <= n
         /\ Cardinality(T) # 0
<1>1. (CHOOSE y \in T : TRUE) \in T
  OBVIOUS
<1>2. IsFiniteSet(T)
  BY LoopAssumption, FS_Subset
<1>3. Cardinality(T) \in Nat /\ Cardinality(T) # 0
  BY <1>2, FS_CardinalityType, FS_EmptySet
<1>4. Cardinality(T \ {CHOOSE y \in T : TRUE}) = Cardinality(T) - 1
  BY <1>1, <1>2, FS_RemoveElement
<1>5. QED
  BY <1>1, <1>3, <1>4

LEMMA SumsExists ==
  ASSUME NEW b \in [Loop -> [Frame -> Nat]], NEW f \in Frame
  PROVE  \E it : Sums(b, f, it)
<1> DEFINE c(T) == CHOOSE x \in T : TRUE
           Upto(n) == {T \in SUBSET Loop : Cardinality(T) <= n}
           Partial(h, n) == \A T \in Upto(n) : h[T] = IF T = {} THEN 0 ELSE b[c(T)][f] + h[T \ {c(T)}]
           N == {n \in Nat : \E h : Partial(h, n)}
<1>1. 0 \in N
  <2>1. \A T \in Upto(0) : T = {}
    BY NoLoops
  <2>2. Partial([T \in SUBSET Loop |-> 0], 0)
    BY <2>1
  <2>3. QED
    BY <2>2
<1>2. ASSUME NEW n \in N
      PROVE  n + 1 \in N
  <2>1. PICK h : Partial(h, n)
    OBVIOUS
  <2>2. n \in Nat
    OBVIOUS
  <2> DEFINE k == [T \in SUBSET Loop |-> IF T = {} THEN 0 ELSE b[c(T)][f] + h[T \ {c(T)}]]
  <2>3. \A T \in Upto(n) : k[T] = h[T]
    BY <2>1
  <2>4. ASSUME NEW T \in Upto(n + 1), T # {}
        PROVE  T \ {c(T)} \in Upto(n)
    BY <2>2, <2>4, SmallerSets
  <2>5. Partial(k, n + 1)
    <3> HIDE DEF c
    <3> QED BY <2>3, <2>4
  <2> HIDE DEF Partial, k
  <2>6. QED
    BY <2>2, <2>5
<1>3. N \in SUBSET Nat
  OBVIOUS
<1>4. N = Nat
  <2> HIDE DEF N
  <2> QED
    BY <1>1, <1>2, <1>3, SetInduction
<1>5. PICK h : Partial(h, Cardinality(Loop))
  <2>1. Cardinality(Loop) \in Nat
    BY LoopAssumption, FS_CardinalityType
  <2> HIDE DEF Partial
  <2>2. Cardinality(Loop) \in N
    BY ONLY <1>4, <2>1
  <2>3. QED
    BY ONLY <2>2
<1>6. Upto(Cardinality(Loop)) = SUBSET Loop
  BY LoopAssumption, FS_Subset
<1> DEFINE it == [T \in SUBSET Loop |-> h[T]]
<1>7. \A T \in SUBSET Loop : T # {} => T \ {c(T)} \in SUBSET Loop
  OBVIOUS
<1>8. Sums(b, f, it)
  <2>1. \A T \in SUBSET Loop : it[T] = IF T = {} THEN 0 ELSE b[c(T)][f] + it[T \ {c(T)}]
    <3> HIDE DEF c
    <3> QED BY <1>5, <1>6, <1>7
  <2>2. QED
    BY <2>1 DEF Sums
<1>9. QED
  BY <1>8

LEMMA WaitingDef ==
  ASSUME NEW b \in [Loop -> [Frame -> Nat]], NEW f \in Frame
  PROVE  \E it : Sums(b, f, it) /\ Waiting(b, f) = it[Loop]
<1> DEFINE it == CHOOSE it : Sums(b, f, it)
<1>1. Sums(b, f, it)
  BY SumsExists
<1>2. Waiting(b, f) = it[Loop]
  BY DEF Waiting, MapThenSumSet, MapThenFoldSet, Sums
<1>3. QED
  BY <1>1, <1>2

LEMMA SumsTyped ==
  ASSUME NEW b \in [Loop -> [Frame -> Nat]], NEW f \in Frame, NEW it, Sums(b, f, it)
  PROVE  \A T \in SUBSET Loop : it[T] \in Nat
<1> DEFINE N == {n \in Nat : \A T \in SUBSET Loop : Cardinality(T) <= n => it[T] \in Nat}
<1>1. 0 \in N
  <2>1. \A T \in SUBSET Loop : Cardinality(T) <= 0 => T = {}
    BY NoLoops
  <2>2. QED
    BY <2>1 DEF Sums
<1>2. ASSUME NEW n \in N
      PROVE  n + 1 \in N
  <2>1. SUFFICES ASSUME NEW T \in SUBSET Loop, Cardinality(T) <= n + 1
                 PROVE  it[T] \in Nat
    OBVIOUS
  <2>2. CASE T = {}
    BY <2>2 DEF Sums
  <2>3. CASE T # {}
    <3> DEFINE x == CHOOSE y \in T : TRUE
    <3>1. x \in T /\ T \ {x} \in SUBSET Loop /\ Cardinality(T \ {x}) <= n
      BY <2>1, <2>3, SmallerSets
    <3>2. it[T \ {x}] \in Nat
      BY <3>1
    <3>3. it[T] = b[x][f] + it[T \ {x}]
      BY <2>3 DEF Sums
    <3> HIDE DEF x
    <3>4. QED
      BY <3>1, <3>2, <3>3
  <2>4. QED
    BY <2>2, <2>3
<1>3. N \in SUBSET Nat
  OBVIOUS
<1>4. N = Nat
  <2> HIDE DEF N
  <2> QED
    BY <1>1, <1>2, <1>3, SetInduction
<1>5. QED
  <2>1. TAKE T \in SUBSET Loop
  <2>2. Cardinality(T) \in Nat
    BY LoopAssumption, FS_Subset, FS_CardinalityType
  <2>3. QED
    BY <1>4, <2>2

\* Empty buffers hold no copies.
LEMMA SumsZero ==
  ASSUME NEW b \in [Loop -> [Frame -> Nat]], NEW f \in Frame, NEW it, Sums(b, f, it),
         \A i \in Loop : b[i][f] = 0
  PROVE  it[Loop] = 0
<1> DEFINE N == {n \in Nat : \A T \in SUBSET Loop : Cardinality(T) <= n => it[T] = 0}
<1>1. 0 \in N
  <2>1. \A T \in SUBSET Loop : Cardinality(T) <= 0 => T = {}
    BY NoLoops
  <2>2. QED
    BY <2>1 DEF Sums
<1>2. ASSUME NEW n \in N
      PROVE  n + 1 \in N
  <2>1. SUFFICES ASSUME NEW T \in SUBSET Loop, Cardinality(T) <= n + 1
                 PROVE  it[T] = 0
    OBVIOUS
  <2>2. CASE T = {}
    BY <2>2 DEF Sums
  <2>3. CASE T # {}
    <3> DEFINE x == CHOOSE y \in T : TRUE
    <3>1. x \in T /\ T \ {x} \in SUBSET Loop /\ Cardinality(T \ {x}) <= n
      BY <2>1, <2>3, SmallerSets
    <3>2. it[T \ {x}] = 0
      BY <3>1
    <3>3. it[T] = b[x][f] + it[T \ {x}]
      BY <2>3 DEF Sums
    <3> HIDE DEF x
    <3>4. QED
      BY <3>1, <3>2, <3>3
  <2>4. QED
    BY <2>2, <2>3
<1>3. N \in SUBSET Nat
  OBVIOUS
<1>4. N = Nat
  <2> HIDE DEF N
  <2> QED
    BY <1>1, <1>2, <1>3, SetInduction
<1>5. QED
  BY <1>4, LoopAssumption, FS_CardinalityType

LEMMA WaitingTyped ==
  ASSUME NEW b \in [Loop -> [Frame -> Nat]], NEW f \in Frame
  PROVE  Waiting(b, f) \in Nat
BY WaitingDef, SumsTyped

\* A change of one loop's buffer changes the sum by as much.
LEMMA WaitingChange ==
  ASSUME NEW b \in [Loop -> [Frame -> Nat]], NEW c \in [Loop -> [Frame -> Nat]],
         NEW f \in Frame, NEW i \in Loop, \A j \in Loop : j # i => c[j][f] = b[j][f]
  PROVE  Waiting(c, f) + b[i][f] = Waiting(b, f) + c[i][f]
<1>1. PICK it : Sums(b, f, it) /\ Waiting(b, f) = it[Loop]
  BY WaitingDef
<1>2. PICK jt : Sums(c, f, jt) /\ Waiting(c, f) = jt[Loop]
  BY WaitingDef
<1>3. \A T \in SUBSET Loop : it[T] \in Nat /\ jt[T] \in Nat
  BY <1>1, <1>2, SumsTyped
<1> DEFINE Shifted(T) == /\ i \in T => jt[T] + b[i][f] = it[T] + c[i][f]
                         /\ i \notin T => jt[T] = it[T]
           N == {n \in Nat : \A T \in SUBSET Loop : Cardinality(T) <= n => Shifted(T)}
<1>4. 0 \in N
  <2>1. \A T \in SUBSET Loop : Cardinality(T) <= 0 => T = {}
    BY NoLoops
  <2>2. it[{}] = 0 /\ jt[{}] = 0
    BY <1>1, <1>2 DEF Sums
  <2>3. QED
    BY <2>1, <2>2
<1>5. ASSUME NEW n \in N
      PROVE  n + 1 \in N
  <2>1. SUFFICES ASSUME NEW T \in SUBSET Loop, Cardinality(T) <= n + 1
                 PROVE  Shifted(T)
    OBVIOUS
  <2>2. CASE T = {}
    BY <2>2, <1>1, <1>2 DEF Sums
  <2>3. CASE T # {}
    <3> DEFINE x == CHOOSE y \in T : TRUE
    <3>1. x \in T /\ T \ {x} \in SUBSET Loop /\ Cardinality(T \ {x}) <= n
      BY <2>1, <2>3, SmallerSets
    <3>2. Shifted(T \ {x})
      BY <3>1
    <3>3. it[T] = b[x][f] + it[T \ {x}] /\ jt[T] = c[x][f] + jt[T \ {x}]
      BY <1>1, <1>2, <2>3 DEF Sums
    <3> HIDE DEF x
    <3>4. x \in Loop /\ b[x][f] \in Nat /\ c[x][f] \in Nat /\ b[i][f] \in Nat /\ c[i][f] \in Nat
      BY <3>1
    <3>5. it[T \ {x}] \in Nat /\ jt[T \ {x}] \in Nat
      BY <1>3, <3>1
    <3>6. CASE x = i
      BY <3>1, <3>2, <3>3, <3>4, <3>5, <3>6
    <3>7. CASE x # i
      <4>1. c[x][f] = b[x][f]
        BY <3>4, <3>7
      <4>2. i \in T \ {x} <=> i \in T
        BY <3>7
      <4> DEFINE p == it[T \ {x}]
                 q == jt[T \ {x}]
      <4>3. /\ i \in T => q + b[i][f] = p + c[i][f]
            /\ i \notin T => q = p
        BY <3>2, <4>2
      <4>4. it[T] = b[x][f] + p /\ jt[T] = b[x][f] + q /\ p \in Nat /\ q \in Nat
        BY <3>3, <3>5, <4>1
      <4> HIDE DEF p, q
      <4>5. /\ b[x][f] \in Nat /\ b[i][f] \in Nat /\ c[i][f] \in Nat
        BY <3>4
      <4>6. PICK m \in Nat, v \in Nat, w \in Nat :
              m = b[x][f] /\ v = b[i][f] /\ w = c[i][f]
        BY <4>5
      <4>7. i \in T => jt[T] + b[i][f] = it[T] + c[i][f]
        <5>1. SUFFICES ASSUME i \in T
                       PROVE  (m + q) + v = (m + p) + w
          BY <4>4, <4>6
        <5>2. q + v = p + w
          BY <4>3, <4>6, <5>1
        <5>3. QED
          BY <4>4, <5>2
      <4>8. QED
        BY <4>3, <4>4, <4>7
    <3>8. QED
      BY <3>6, <3>7
  <2>4. QED
    BY <2>2, <2>3
<1>6. N \in SUBSET Nat
  OBVIOUS
<1>7. N = Nat
  <2> HIDE DEF N
  <2> QED
    BY <1>4, <1>5, <1>6, SetInduction
<1>8. Cardinality(Loop) \in Nat
  BY LoopAssumption, FS_CardinalityType
<1>9. Shifted(Loop)
  BY <1>7, <1>8
<1>10. QED
  BY <1>1, <1>2, <1>9

-----------------------------------------------------------------------------
(* One run of the handler per delivery *)

\* One loop's buffer is replaced by h.
LEMMA WaitingStep ==
  ASSUME Typed, NEW i \in Loop, NEW h \in [Frame -> Nat], buffer' = [buffer EXCEPT ![i] = h]
  PROVE  \A f \in Frame :
           /\ Waiting(buffer, f) \in Nat /\ Waiting(buffer', f) \in Nat
           /\ Waiting(buffer', f) + buffer[i][f] = Waiting(buffer, f) + h[f]
<1>1. buffer \in [Loop -> [Frame -> Nat]] /\ buffer' \in [Loop -> [Frame -> Nat]]
  BY DEF Typed, TypeOK
<1>2. TAKE f \in Frame
<1>3. Waiting(buffer, f) \in Nat /\ Waiting(buffer', f) \in Nat
  BY <1>1, WaitingTyped
<1>4. buffer'[i][f] = h[f] /\ \A j \in Loop : j # i => buffer'[j][f] = buffer[j][f]
  BY <1>1
<1>5. Waiting(buffer', f) + buffer[i][f] = Waiting(buffer, f) + buffer'[i][f]
  <2>1. \A b, c \in [Loop -> [Frame -> Nat]] :
          (\A j \in Loop : j # i => c[j][f] = b[j][f])
            => Waiting(c, f) + b[i][f] = Waiting(b, f) + c[i][f]
    BY WaitingChange
  <2>2. QED
    BY <1>1, <1>4, <2>1
<1>6. QED
  BY <1>3, <1>4, <1>5

LEMMA HandlingStep ==
  ASSUME NEW i \in Loop, \A j \in Loop \ {i} : pc'[j] = pc[j] /\ hand'[j] = hand[j],
         NEW f \in Frame
  PROVE  /\ Cardinality(Handling(f)) \in Nat
         /\ Cardinality(Handling(f)') =
              Cardinality(Handling(f)) + (IF i \in Handling(f)' THEN 1 ELSE 0)
                                       - (IF i \in Handling(f) THEN 1 ELSE 0)
<1>1. IsFiniteSet(Handling(f))
  BY LoopAssumption, FS_Subset DEF Handling
<1>2. Cardinality(Handling(f)) \in Nat
  BY <1>1, FS_CardinalityType
<1>3. CASE i \in Handling(f)'
  <2>1. Handling(f)' = Handling(f) \cup {i}
    BY <1>3 DEF Handling
  <2>2. Cardinality(Handling(f) \cup {i}) =
          IF i \in Handling(f) THEN Cardinality(Handling(f)) ELSE Cardinality(Handling(f)) + 1
    BY <1>1, FS_AddElement
  <2>3. QED
    BY <1>2, <1>3, <2>1, <2>2
<1>4. CASE i \notin Handling(f)'
  <2>1. Handling(f)' = Handling(f) \ {i}
    BY <1>4 DEF Handling
  <2>2. Cardinality(Handling(f) \ {i}) =
          IF i \in Handling(f) THEN Cardinality(Handling(f)) - 1 ELSE Cardinality(Handling(f))
    BY <1>1, FS_RemoveElement
  <2>3. QED
    BY <1>2, <1>4, <2>1, <2>2
<1>5. QED
  BY <1>3, <1>4

\* A step after which loop i handles nothing, and its buffer is as it was or empty.
LEMMA QuietStep ==
  ASSUME Typed, OneRunPerDelivery, NEW i \in Loop, UNCHANGED <<runs, deliveries>>,
         \A j \in Loop \ {i} : pc'[j] = pc[j] /\ hand'[j] = hand[j],
         (pc'[i] = pc[i] /\ hand'[i] = hand[i]) \/ pc'[i] # "handling",
         UNCHANGED buffer \/ buffer' = [buffer EXCEPT ![i] = NoCopies]
  PROVE  OneRunPerDelivery'
<1>1. SUFFICES ASSUME NEW f \in Frame
               PROVE  runs[f] + Waiting(buffer', f) + Cardinality(Handling(f)') <= deliveries[f]
  BY DEF OneRunPerDelivery
<1>2. /\ Cardinality(Handling(f)) \in Nat /\ Cardinality(Handling(f)') \in Nat
      /\ Cardinality(Handling(f)') <= Cardinality(Handling(f))
  <2>1. i \in Handling(f)' => i \in Handling(f)
    BY DEF Handling
  <2>2. /\ Cardinality(Handling(f)) \in Nat
        /\ i \in Handling(f) => Cardinality(Handling(f)) # 0
    <3>1. IsFiniteSet(Handling(f))
      BY LoopAssumption, FS_Subset DEF Handling
    <3>2. QED
      BY <3>1, FS_CardinalityType, FS_EmptySet
  <2>3. QED
    BY <2>1, <2>2, HandlingStep
<1>3. /\ Waiting(buffer, f) \in Nat /\ Waiting(buffer', f) \in Nat
      /\ Waiting(buffer', f) <= Waiting(buffer, f)
  <2>1. CASE UNCHANGED buffer
    BY <2>1, WaitingTyped DEF Typed, TypeOK
  <2>2. CASE buffer' = [buffer EXCEPT ![i] = NoCopies]
    <3>1. /\ Waiting(buffer, f) \in Nat /\ Waiting(buffer', f) \in Nat
          /\ Waiting(buffer', f) + buffer[i][f] = Waiting(buffer, f) + NoCopies[f]
      BY <2>2, WaitingStep, NoCopiesTyped
    <3>2. NoCopies[f] = 0 /\ buffer[i][f] \in Nat
      BY NoCopiesTyped DEF Typed, TypeOK
    <3>3. QED
      BY <3>1, <3>2
  <2>3. QED
    BY <2>1, <2>2
<1>4. runs[f] + Waiting(buffer, f) + Cardinality(Handling(f)) <= deliveries[f]
  BY DEF OneRunPerDelivery
<1>5. runs[f] \in Nat /\ deliveries[f] \in Nat
  BY DEF Typed, TypeOK
<1>6. QED
  BY <1>2, <1>3, <1>4, <1>5

LEMMA OneRunInit == Init => OneRunPerDelivery
<1> SUFFICES ASSUME Init, NEW f \in Frame
             PROVE  runs[f] + Waiting(buffer, f) + Cardinality(Handling(f)) <= deliveries[f]
  BY DEF OneRunPerDelivery
<1>1. Handling(f) = {}
  BY DEF Init, Handling
<1>2. buffer \in [Loop -> [Frame -> Nat]] /\ \A i \in Loop : buffer[i][f] = 0
  BY NoCopiesTyped DEF Init
<1>3. Waiting(buffer, f) = 0
  <2>1. PICK it : Sums(buffer, f, it) /\ Waiting(buffer, f) = it[Loop]
    BY <1>2, WaitingDef
  <2>2. QED
    BY <1>2, <2>1, SumsZero
<1>4. QED
  BY <1>1, <1>3, FS_EmptySet DEF Init

LEMMA OneRunNext == Typed /\ OneRunPerDelivery /\ [Next]_vars => OneRunPerDelivery'
<1> SUFFICES ASSUME Typed, OneRunPerDelivery, [Next]_vars
             PROVE  OneRunPerDelivery'
  OBVIOUS
<1>1. ASSUME UNCHANGED <<runs, deliveries, pc, hand, buffer>>
      PROVE  OneRunPerDelivery'
  BY <1>1 DEF OneRunPerDelivery, Handling
<1>2. ASSUME NEW f \in Frame, Publish(f) \/ AckWaitElapses(f)
      PROVE  OneRunPerDelivery'
  BY <1>1, <1>2 DEF Publish, AckWaitElapses, service
<1>3. ASSUME NEW f \in Frame, NEW i \in Loop, Deliver(i, f)
      PROVE  OneRunPerDelivery'
  <2> DEFINE h == [buffer[i] EXCEPT ![f] = @ + 1]
  <2>1. /\ buffer' = [buffer EXCEPT ![i] = h] /\ h \in [Frame -> Nat]
        /\ deliveries' = [deliveries EXCEPT ![f] = @ + 1]
        /\ UNCHANGED <<runs, pc, hand>>
    BY <1>3 DEF Deliver, service, Typed, TypeOK
  <2>2. SUFFICES ASSUME NEW g \in Frame
                 PROVE  runs[g] + Waiting(buffer', g) + Cardinality(Handling(g)) <= deliveries'[g]
    BY <2>1 DEF OneRunPerDelivery, Handling
  <2>3. /\ Waiting(buffer, g) \in Nat /\ Waiting(buffer', g) \in Nat
        /\ Waiting(buffer', g) + buffer[i][g] = Waiting(buffer, g) + h[g]
    <3> HIDE DEF h
    <3> QED BY <2>1, WaitingStep
  <2>4. runs[g] + Waiting(buffer, g) + Cardinality(Handling(g)) <= deliveries[g]
    BY DEF OneRunPerDelivery
  <2>5. /\ runs[g] \in Nat /\ deliveries[g] \in Nat /\ buffer[i][g] \in Nat
        /\ h[g] = buffer[i][g] + (IF g = f THEN 1 ELSE 0)
        /\ deliveries'[g] = deliveries[g] + (IF g = f THEN 1 ELSE 0)
    BY <2>1 DEF Typed, TypeOK
  <2>6. Cardinality(Handling(g)) \in Nat
    BY HandlingStep, <2>1
  <2> HIDE DEF h
  <2>7. QED
    BY <2>3, <2>4, <2>5, <2>6
<1>4. ASSUME NEW i \in Loop, Receive(i)
      PROVE  OneRunPerDelivery'
  <2>1. PICK f \in Buffered(i) :
          /\ buffer' = [buffer EXCEPT ![i][f] = @ - 1]
          /\ hand' = [hand EXCEPT ![i] = f]
          /\ \/ pc' = [pc EXCEPT ![i] = "terming"]
             \/ pc' = [pc EXCEPT ![i] = "handling"]
    BY <1>4 DEF Receive
  <2> DEFINE h == [buffer[i] EXCEPT ![f] = @ - 1]
  <2>2. f \in Frame /\ buffer[i][f] > 0
    BY DEF Buffered
  <2>3. /\ buffer' = [buffer EXCEPT ![i] = h] /\ h \in [Frame -> Nat]
        /\ UNCHANGED <<runs, deliveries>> /\ pc[i] = "receiving"
    BY <1>4, <2>1, <2>2 DEF Receive, service, broker, Typed, TypeOK
  <2>4. SUFFICES ASSUME NEW g \in Frame
                 PROVE  runs[g] + Waiting(buffer', g) + Cardinality(Handling(g)') <= deliveries[g]
    BY <2>3 DEF OneRunPerDelivery
  <2>5. /\ Waiting(buffer, g) \in Nat /\ Waiting(buffer', g) \in Nat
        /\ Waiting(buffer', g) + buffer[i][g] = Waiting(buffer, g) + h[g]
    <3> HIDE DEF h
    <3> QED BY <2>3, WaitingStep
  <2>6. runs[g] + Waiting(buffer, g) + Cardinality(Handling(g)) <= deliveries[g]
    BY DEF OneRunPerDelivery
  <2>7. /\ runs[g] \in Nat /\ deliveries[g] \in Nat /\ buffer[i][g] \in Nat
        /\ h[g] = buffer[i][g] - (IF g = f THEN 1 ELSE 0)
    BY <2>2, <2>3 DEF Typed, TypeOK
  <2>8. /\ Cardinality(Handling(g)) \in Nat
        /\ Cardinality(Handling(g)') \in Nat
        /\ Cardinality(Handling(g)') <= Cardinality(Handling(g)) + (IF g = f THEN 1 ELSE 0)
    <3>1. i \notin Handling(g) /\ (i \in Handling(g)' => g = f)
      BY <2>1, <2>3 DEF Handling, Typed, TypeOK
    <3>2. \A j \in Loop \ {i} : pc'[j] = pc[j] /\ hand'[j] = hand[j]
      BY <2>1 DEF Typed, TypeOK
    <3>3. QED
      BY <3>1, <3>2, HandlingStep
  <2> HIDE DEF h
  <2>9. QED
    BY <2>5, <2>6, <2>7, <2>8
<1>5. ASSUME NEW i \in Loop, Handle(i)
      PROVE  OneRunPerDelivery'
  <2>1. /\ pc[i] = "handling" /\ pc' = [pc EXCEPT ![i] = "acking"]
        /\ runs' = [runs EXCEPT ![hand[i]] = @ + 1]
        /\ UNCHANGED <<hand, buffer, deliveries>>
    BY <1>5 DEF Handle, broker
  <2>2. hand[i] \in Frame
    BY <2>1 DEF Typed, InHand, Busy
  <2>3. SUFFICES ASSUME NEW g \in Frame
                 PROVE  runs'[g] + Waiting(buffer, g) + Cardinality(Handling(g)') <= deliveries[g]
    BY <2>1 DEF OneRunPerDelivery
  <2>4. runs[g] + Waiting(buffer, g) + Cardinality(Handling(g)) <= deliveries[g]
    BY DEF OneRunPerDelivery
  <2>5. /\ runs[g] \in Nat /\ deliveries[g] \in Nat /\ Waiting(buffer, g) \in Nat
        /\ runs'[g] = runs[g] + (IF hand[i] = g THEN 1 ELSE 0)
    BY <2>1, <2>2, WaitingTyped DEF Typed, TypeOK
  <2>6. /\ Cardinality(Handling(g)) \in Nat
        /\ Cardinality(Handling(g)') = Cardinality(Handling(g)) - (IF hand[i] = g THEN 1 ELSE 0)
    <3>1. i \notin Handling(g)' /\ (i \in Handling(g) <=> hand[i] = g)
      BY <2>1 DEF Handling, Typed, TypeOK
    <3>2. \A j \in Loop \ {i} : pc'[j] = pc[j] /\ hand'[j] = hand[j]
      BY <2>1 DEF Typed, TypeOK
    <3>3. QED
      BY <3>1, <3>2, HandlingStep
  <2>7. QED
    BY <2>4, <2>5, <2>6
<1>6. ASSUME NEW i \in Loop,
             \/ Bind(i) \/ BindFails(i) \/ Settle(i) \/ TermPoison(i) \/ ReportPoison(i)
             \/ Rebind(i) \/ StreamError(i) \/ RebindFails(i) \/ Crash(i)
      PROVE  OneRunPerDelivery'
  <2>1. ASSUME NEW kind, Recover(i, kind)
        PROVE  \/ Exit(i)
               \/ pc' = [pc EXCEPT ![i] = "rebinding"] /\ UNCHANGED <<buffer, hand>>
    BY <2>1 DEF Recover
  <2>2. UNCHANGED <<runs, deliveries>>
    BY <1>6 DEF Bind, BindFails, Settle, TermPoison, ReportPoison, Rebind, StreamError,
                RebindFails, Crash, Apply, broker, service
  <2>3. UNCHANGED buffer \/ buffer' = [buffer EXCEPT ![i] = NoCopies]
    BY <1>6, <2>1 DEF Bind, BindFails, Settle, TermPoison, ReportPoison, Rebind, StreamError,
                RebindFails, Crash, Exit
  <2>4. /\ UNCHANGED hand \/ hand' = [hand EXCEPT ![i] = NoFrame]
        /\ \/ UNCHANGED <<pc, hand>>
           \/ \E at \in {"down", "receiving", "reporting", "rebinding"} : pc' = [pc EXCEPT ![i] = at]
    BY <1>6, <2>1 DEF Bind, BindFails, Settle, TermPoison, ReportPoison, Rebind, StreamError,
                RebindFails, Crash, Exit
  <2>5. /\ \A j \in Loop \ {i} : pc'[j] = pc[j] /\ hand'[j] = hand[j]
        /\ (pc'[i] = pc[i] /\ hand'[i] = hand[i]) \/ pc'[i] # "handling"
    BY <2>4 DEF Typed, TypeOK
  <2>6. QED
    BY <2>2, <2>3, <2>5, QuietStep
<1>7. CASE UNCHANGED vars
  BY <1>1, <1>7 DEF vars, service, broker
<1>8. QED
  BY <1>2, <1>3, <1>4, <1>5, <1>6, <1>7 DEF Next, LoopStep, LoopFault

\* The handler never runs more often for a frame than the broker delivered it, the copies
\* in hand and in the buffers of all loops counted in, for any number of loops.
THEOREM RunsCorrect == Spec => []OneRunPerDelivery
<1>1. QED
  BY AlwaysTyped, OneRunInit, OneRunNext, PTL DEF Spec
=============================================================================
