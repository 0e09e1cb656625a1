--------------------------- MODULE ManagedConsumer ---------------------------
(***************************************************************************)
(* The managed consumer loop of br-util-nats-fabric (run_commands and      *)
(* run_events): several loops share one durable of an integration stream,  *)
(* decode each frame, hand it to the service's handler, settle it with the *)
(* outcome the handler returned, and re-bind the durable in place when the *)
(* message stream yields a recoverable error.                              *)
(*                                                                         *)
(* The broker keeps a delivered frame outstanding for ack_wait, delivers   *)
(* it again afterwards (max_deliver is -1), and never has more than        *)
(* max_ack_pending frames outstanding.  The client library buffers frames  *)
(* ahead of the loop; a re-bind or a crash loses that buffer.              *)
(***************************************************************************)
EXTENDS Backoff, FiniteSetsExt

CONSTANTS
  Frame,          \* frames a producer may publish under the durable's filter
  Undecodable,    \* those serde_json cannot decode into the envelope
  Loop,           \* run_* calls bound to the durable, one per replica
  NoFrame,        \* "no frame in hand"
  MaxAckPending,  \* ConsumerTuning::max_ack_pending
  Budget,         \* OTHER_FAILURE_BUDGET
  MaxErrors,      \* bound: errors of the message stream, of binds and of re-binds
  MaxFaults,      \* bound: crashes and lost acks
  MaxNaks,        \* bound: times the handler answers Nak to one frame
  MaxExpiries     \* bound: times one frame's ack wait elapses while a loop holds it

ASSUME FrameAssumption ==
  /\ Undecodable \subseteq Frame
  /\ NoFrame \notin Frame
  /\ IsFiniteSet(Frame)
ASSUME LoopAssumption == IsFiniteSet(Loop)
ASSUME BoundAssumption ==
  /\ MaxAckPending \in Nat \ {0} /\ Budget \in Nat
  /\ MaxErrors \in Nat /\ MaxFaults \in Nat /\ MaxNaks \in Nat /\ MaxExpiries \in Nat

VARIABLES
  published,    \* frames on the stream
  closed,       \* frames the durable is done with: acked or termed
  outstanding,  \* frames delivered whose ack wait has not elapsed
  deliveries,   \* times the broker delivered each frame
  early,        \* times a frame's ack wait elapsed while a loop still held it
  buffer,       \* copies of each frame the client library holds for a loop
  pc,           \* where each loop is
  hand,         \* the frame the loop works on
  outcome,      \* the MessageOutcome its handler returned
  failures,     \* Recovery::other_failures
  delay,        \* Backoff::current
  sinceFrame,   \* errors since a frame last reached the loop (history)
  spent,        \* Other errors since a frame last decoded (history)
  runs,         \* times the handler was called with each frame
  naks,         \* times it answered Nak
  concluded,    \* frames it answered Ack or Term
  reported,     \* frames handed to on_poison
  errors,       \* bound counter
  faults        \* bound counter

broker == <<published, closed, outstanding, deliveries, early>>
recovery == <<failures, delay, sinceFrame, spent>>
service == <<runs, naks, concluded, reported>>
vars == <<broker, buffer, pc, hand, outcome, recovery, service, errors, faults>>

NoCopies == [f \in Frame |-> 0]

\* A frame delivered twice is there twice; source.next() may yield any of them.
Buffered(i) == {f \in Frame : buffer[i][f] > 0}

Init ==
  /\ published = {} /\ closed = {} /\ outstanding = {}
  /\ deliveries = [f \in Frame |-> 0]
  /\ early = [f \in Frame |-> 0]
  /\ buffer = [i \in Loop |-> NoCopies]
  /\ pc = [i \in Loop |-> "down"]
  /\ hand = [i \in Loop |-> NoFrame]
  /\ outcome = [i \in Loop |-> "none"]
  /\ failures = [i \in Loop |-> 0]
  /\ delay = [i \in Loop |-> InitialDelay]
  /\ sinceFrame = [i \in Loop |-> 0]
  /\ spent = [i \in Loop |-> 0]
  /\ runs = [f \in Frame |-> 0]
  /\ naks = [f \in Frame |-> 0]
  /\ concluded = {} /\ reported = {}
  /\ errors = 0 /\ faults = 0

-----------------------------------------------------------------------------
(* The producer and the broker (external); the durable has the configuration *)
(* durable_config gives it.                                                  *)

Publish(f) ==
  /\ f \notin published
  /\ published' = published \cup {f}
  /\ UNCHANGED <<closed, outstanding, deliveries, early, buffer, pc, hand, outcome,
                 recovery, service, errors, faults>>

\* mutant: max_deliver is 1
DeliverOnce(i, f) ==
  /\ pc[i] # "down"
  /\ f \in published \ (closed \cup outstanding)
  /\ deliveries[f] = 0
  /\ Cardinality(outstanding) < MaxAckPending
  /\ outstanding' = outstanding \cup {f}
  /\ deliveries' = [deliveries EXCEPT ![f] = @ + 1]
  /\ buffer' = [buffer EXCEPT ![i][f] = @ + 1]
  /\ UNCHANGED <<published, closed, early, pc, hand, outcome, recovery,
                 service, errors, faults>>

\* A frame is pushed to a loop's client; max_deliver is -1, so there is no last time.
Deliver(i, f) ==
  /\ pc[i] # "down"
  /\ f \in published \ (closed \cup outstanding)
  /\ Cardinality(outstanding) < MaxAckPending
  /\ outstanding' = outstanding \cup {f}
  /\ deliveries' = [deliveries EXCEPT ![f] = @ + 1]
  /\ buffer' = [buffer EXCEPT ![i][f] = @ + 1]
  /\ UNCHANGED <<published, closed, early, pc, hand, outcome, recovery,
                 service, errors, faults>>

Held(f) == \E i \in Loop : f \in Buffered(i) \/ hand[i] = f

\* ack_wait runs out: for a frame nobody holds any more, or too soon for one that
\* waits in a buffer or in a slow handler (the loop never sends Progress).
AckWaitElapses(f) ==
  /\ f \in outstanding
  /\ Held(f) => early[f] < MaxExpiries
  /\ early' = IF Held(f) THEN [early EXCEPT ![f] = @ + 1] ELSE early
  /\ outstanding' = outstanding \ {f}
  /\ UNCHANGED <<published, closed, deliveries, buffer, pc, hand, outcome, recovery,
                 service, errors, faults>>

\* mutant: every outcome is sent as an Ack
ApplyAsAck(kind, f) ==
  /\ outstanding' = outstanding \ {f}
  /\ closed' = closed \cup {f}
  /\ UNCHANGED <<published, deliveries, early>>

\* An ack, Nak or Term frame reaches the server.
Apply(kind, f) ==
  /\ outstanding' = outstanding \ {f}
  /\ closed' = IF kind = "Nak" THEN closed ELSE closed \cup {f}
  /\ UNCHANGED <<published, deliveries, early>>

-----------------------------------------------------------------------------
(* What an observer of the loop counts; no guard reads it *)

Spend(i, kind) == spent' = IF kind = "Other" THEN [spent EXCEPT ![i] = @ + 1] ELSE spent

StartCounting(i) == spent' = [spent EXCEPT ![i] = 0]

-----------------------------------------------------------------------------
(* The loop *)

\* Recovery::new
NewRecovery(i) ==
  /\ failures' = [failures EXCEPT ![i] = 0]
  /\ delay' = [delay EXCEPT ![i] = InitialDelay]
  /\ sinceFrame' = [sinceFrame EXCEPT ![i] = 0]

\* run_* returns, with an error or at the end of the stream; what it kept
\* in memory and the frames its client had buffered go with it.
Exit(i) ==
  /\ pc' = [pc EXCEPT ![i] = "down"]
  /\ hand' = [hand EXCEPT ![i] = NoFrame]
  /\ outcome' = [outcome EXCEPT ![i] = "none"]
  /\ buffer' = [buffer EXCEPT ![i] = NoCopies]
  /\ NewRecovery(i)

\* run_*: the first bind, not covered by recovery; run_inner starts a new Recovery.
Bind(i) ==
  /\ pc[i] = "down"
  /\ pc' = [pc EXCEPT ![i] = "receiving"]
  /\ StartCounting(i)
  /\ UNCHANGED <<broker, buffer, hand, outcome, failures, delay, sinceFrame, service, errors,
                 faults>>

BindFails(i) ==
  /\ pc[i] = "down"
  /\ errors < MaxErrors
  /\ errors' = errors + 1
  /\ UNCHANGED <<broker, buffer, pc, hand, outcome, recovery, service, faults>>

\* mutant: a delivery takes one failure back instead of clearing the count
NoteDeliveryDecrements(i) ==
  /\ failures' = [failures EXCEPT ![i] = @ - 1]
  /\ delay' = [delay EXCEPT ![i] = InitialDelay]

\* mutant: a delivery resets the delay and leaves the count
NoteDeliveryKeeps(i) ==
  /\ delay' = [delay EXCEPT ![i] = InitialDelay]
  /\ UNCHANGED failures

\* note_delivery
NoteDelivery(i) ==
  /\ failures' = [failures EXCEPT ![i] = 0]
  /\ delay' = [delay EXCEPT ![i] = InitialDelay]

\* mutant: the frame is looked at without being taken from the buffer
ReceivePeeks(i) ==
  /\ pc[i] = "receiving"
  /\ \E f \in Buffered(i) :
       /\ hand' = [hand EXCEPT ![i] = f]
       /\ pc' = [pc EXCEPT ![i] = IF f \in Undecodable THEN "terming" ELSE "handling"]
  /\ NoteDelivery(i) /\ StartCounting(i)
  /\ sinceFrame' = [sinceFrame EXCEPT ![i] = 0]
  /\ UNCHANGED <<broker, buffer, outcome, service, errors, faults>>

\* mutant: a Nak is sent where Progress was meant, while the handler still runs
ReceiveNaks(i) ==
  /\ pc[i] = "receiving"
  /\ \E f \in Buffered(i) :
       /\ buffer' = [buffer EXCEPT ![i][f] = @ - 1]
       /\ hand' = [hand EXCEPT ![i] = f]
       /\ pc' = [pc EXCEPT ![i] = IF f \in Undecodable THEN "terming" ELSE "handling"]
       /\ Apply("Nak", f)
  /\ NoteDelivery(i) /\ StartCounting(i)
  /\ sinceFrame' = [sinceFrame EXCEPT ![i] = 0]
  /\ UNCHANGED <<outcome, service, errors, faults>>

\* source.next() yields a frame.  Only one that decodes resets the recovery state.
Receive(i) ==
  /\ pc[i] = "receiving"
  /\ \E f \in Buffered(i) :
       /\ buffer' = [buffer EXCEPT ![i][f] = @ - 1]
       /\ hand' = [hand EXCEPT ![i] = f]
       /\ IF f \in Undecodable
            THEN /\ pc' = [pc EXCEPT ![i] = "terming"]
                 /\ UNCHANGED <<failures, delay, spent>>
            ELSE /\ pc' = [pc EXCEPT ![i] = "handling"]
                 /\ NoteDelivery(i) /\ StartCounting(i)
  /\ sinceFrame' = [sinceFrame EXCEPT ![i] = 0]
  /\ UNCHANGED <<broker, outcome, service, errors, faults>>

\* The handler's future resolves.
Handle(i) ==
  /\ pc[i] = "handling"
  /\ LET f == hand[i] IN
       /\ runs' = [runs EXCEPT ![f] = @ + 1]
       /\ \/ \E o \in {"Ack", "Term"} :
               /\ outcome' = [outcome EXCEPT ![i] = o]
               /\ concluded' = concluded \cup {f}
               /\ UNCHANGED naks
          \/ /\ naks[f] < MaxNaks
             /\ naks' = [naks EXCEPT ![f] = @ + 1]
             /\ outcome' = [outcome EXCEPT ![i] = "Nak"]
             /\ UNCHANGED concluded
  /\ pc' = [pc EXCEPT ![i] = "acking"]
  /\ UNCHANGED <<broker, buffer, hand, recovery, reported, errors, faults>>

\* The ack is sent, or it is lost: apply_outcome only warns.
Settle(i) ==
  /\ pc[i] = "acking"
  /\ \/ Apply(outcome[i], hand[i]) /\ UNCHANGED faults
     \/ faults < MaxFaults /\ faults' = faults + 1 /\ UNCHANGED broker
  /\ pc' = [pc EXCEPT ![i] = "receiving"]
  /\ hand' = [hand EXCEPT ![i] = NoFrame]
  /\ outcome' = [outcome EXCEPT ![i] = "none"]
  /\ UNCHANGED <<buffer, recovery, service, errors>>

\* The decode error path: Term first, its result ignored, then on_poison.
TermPoison(i) ==
  /\ pc[i] = "terming"
  /\ \/ Apply("Term", hand[i]) /\ UNCHANGED faults
     \/ faults < MaxFaults /\ faults' = faults + 1 /\ UNCHANGED broker
  /\ pc' = [pc EXCEPT ![i] = "reporting"]
  /\ UNCHANGED <<buffer, hand, outcome, recovery, service, errors>>

ReportPoison(i) ==
  /\ pc[i] = "reporting"
  /\ reported' = reported \cup {hand[i]}
  /\ pc' = [pc EXCEPT ![i] = "receiving"]
  /\ hand' = [hand EXCEPT ![i] = NoFrame]
  /\ UNCHANGED <<broker, buffer, outcome, recovery, runs, naks, concluded,
                 errors, faults>>

\* recover(), up to the re-bind: only Other counts against the budget.
Recover(i, kind) ==
  LET counted == IF kind = "Other" THEN failures[i] + 1 ELSE failures[i] IN
  IF counted > Budget
    THEN Exit(i)
    ELSE /\ failures' = [failures EXCEPT ![i] = counted]
         /\ delay' = [delay EXCEPT ![i] = NextDelay(@)]
         /\ sinceFrame' = [sinceFrame EXCEPT ![i] = @ + 1]
         /\ pc' = [pc EXCEPT ![i] = "rebinding"]
         /\ UNCHANGED <<buffer, hand, outcome>>

Recoverable == {"HeartbeatMissed", "NoResponders", "Other"}

\* source.next() yields an error, or the stream ends and run_* returns Ok.
StreamError(i) ==
  /\ pc[i] = "receiving"
  /\ errors < MaxErrors
  /\ errors' = errors + 1
  /\ \/ \E kind \in Recoverable : Recover(i, kind) /\ Spend(i, kind)
     \/ Exit(i) /\ StartCounting(i)    \* ConsumerGone, or the end of the stream
  /\ UNCHANGED <<broker, service, faults>>

\* mutant: a successful re-bind resets the backoff
RebindResets(i) ==
  /\ pc[i] = "rebinding"
  /\ buffer' = [buffer EXCEPT ![i] = NoCopies]
  /\ pc' = [pc EXCEPT ![i] = "receiving"]
  /\ delay' = [delay EXCEPT ![i] = InitialDelay]
  /\ UNCHANGED <<broker, hand, outcome, failures, sinceFrame, spent, service, errors, faults>>

\* rebind() after the sleep: create-or-bind and a new message stream.
Rebind(i) ==
  /\ pc[i] = "rebinding"
  /\ buffer' = [buffer EXCEPT ![i] = NoCopies]
  /\ pc' = [pc EXCEPT ![i] = "receiving"]
  /\ UNCHANGED <<broker, hand, outcome, recovery, service, errors, faults>>

RebindFails(i) ==
  /\ pc[i] = "rebinding"
  /\ errors < MaxErrors
  /\ errors' = errors + 1
  /\ \/ Recover(i, "Other") /\ Spend(i, "Other")
     \/ Exit(i) /\ StartCounting(i)    \* NoStream
  /\ UNCHANGED <<broker, service, faults>>

\* The process dies at any await.
Crash(i) ==
  /\ pc[i] # "down"
  /\ faults < MaxFaults
  /\ faults' = faults + 1
  /\ Exit(i) /\ StartCounting(i)
  /\ UNCHANGED <<broker, service, errors>>

-----------------------------------------------------------------------------
LoopStep(i) ==
  Bind(i) \/ Receive(i) \/ Handle(i) \/ Settle(i) \/ TermPoison(i) \/ ReportPoison(i) \/ Rebind(i)

LoopFault(i) == BindFails(i) \/ StreamError(i) \/ RebindFails(i) \/ Crash(i)

Next ==
  \/ \E f \in Frame : Publish(f) \/ AckWaitElapses(f) \/ \E i \in Loop : Deliver(i, f)
  \/ \E i \in Loop : LoopStep(i) \/ LoopFault(i)

Spec == Init /\ [][Next]_vars

\* Loops are polled, whoever runs run_* calls it again when it returns, and the
\* broker goes on delivering and expiring.
FairSpec ==
  /\ Spec
  /\ \A i \in Loop : WF_vars(LoopStep(i))
  /\ \A f \in Frame : WF_vars(\E i \in Loop : Deliver(i, f)) /\ WF_vars(AckWaitElapses(f))

-----------------------------------------------------------------------------
(* Properties *)

TypeOK ==
  /\ published \subseteq Frame /\ closed \subseteq published /\ outstanding \subseteq published
  /\ deliveries \in [Frame -> Nat] /\ early \in [Frame -> Nat]
  /\ buffer \in [Loop -> [Frame -> Nat]]
  /\ pc \in [Loop -> {"down", "receiving", "handling", "acking", "terming", "reporting",
                      "rebinding"}]
  /\ hand \in [Loop -> Frame \cup {NoFrame}]
  /\ outcome \in [Loop -> {"none", "Ack", "Nak", "Term"}]
  /\ failures \in [Loop -> Nat] /\ delay \in [Loop -> Nat] /\ sinceFrame \in [Loop -> Nat]
  /\ spent \in [Loop -> Nat]
  /\ runs \in [Frame -> Nat] /\ naks \in [Frame -> Nat]
  /\ concluded \subseteq Frame /\ reported \subseteq Frame
  /\ errors \in Nat /\ faults \in Nat

\* A frame leaves the durable only over a handler that concluded it, or because it
\* never decodes: no crash, lost ack, re-bind or redelivery loses a message.
NothingLost == \A f \in closed : f \in concluded \/ f \in Undecodable

\* Each delivery reaches the handler at most once, whatever is redelivered, thrown away
\* by a re-bind or replayed: the copies still to be handled included.
Waiting(b, f) == MapThenSumSet(LAMBDA i : b[i][f], Loop)
Handling(f) == {i \in Loop : hand[i] = f /\ pc[i] = "handling"}
OneRunPerDelivery ==
  \A f \in Frame : runs[f] + Waiting(buffer, f) + Cardinality(Handling(f)) <= deliveries[f]

\* Two loops have the same frame only if its ack wait elapsed under the first.
SharedOnlyAfterExpiry ==
  \A i, j \in Loop : \A f \in Frame :
    (i # j /\ hand[i] = f /\ hand[j] = f) => early[f] > 0

\* The schedule never falls behind the failure count: a successful re-bind resets
\* neither, so a broker that accepts binds and then fails again cannot turn the
\* recovery into a hot loop.
BackoffKeepsPace ==
  \A i \in Loop : pc[i] = "rebinding" => KeepsPace(delay[i], failures[i])

\* A loop never goes on after Budget errors of kind Other since the last frame it decoded,
\* and gives up over such an error only when that one exceeds the budget: errors before a
\* delivered frame, over however many re-binds, are never held against it, and neither
\* uncounted errors nor poison in between forgive any.
EscalatesAtTheBudget ==
  \A i \in Loop : IF pc[i] = "down" THEN spent[i] \in {0, Budget + 1}
                                    ELSE spent[i] <= Budget

\* Every published frame is settled in the end, under finitely many stream errors,
\* crashes, lost acks and Naks: nothing waits in a buffer nobody reads, and no lost
\* ack holds a max_ack_pending slot for ever.
EventuallySettled == \A f \in Frame : f \in published ~> f \in closed

\* README.md:235 of the crate: an undecodable payload is Term-ed and routed to the
\* poison handler, "it is never silently dropped".
PoisonIsReported ==
  \A f \in closed \cap Undecodable :
    f \in reported \/ \E i \in Loop : hand[i] = f /\ pc[i] = "reporting"

\* README.md:273 of the crate: budget and backoff reset on a delivered frame only, "so a
\* flapping broker cannot defeat the escalation".  Granting every counted failure one
\* uncounted trigger, the loop has given up after twice the budget.
FlappingEscalates ==
  \A i \in Loop : sinceFrame[i] > 2 * (Budget + 1) => pc[i] = "down"
=============================================================================
