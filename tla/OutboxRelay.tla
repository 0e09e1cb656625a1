---------------------------- MODULE OutboxRelay ----------------------------
(***************************************************************************)
(* The transactional outbox of br-util-nats-fabric: rows staged in         *)
(* Postgres, relays that drain them to the INTEGRATION_EVT stream, and the *)
(* stream's duplicate window.                                              *)
(*                                                                         *)
(* A relay's pass (run_once_detailed) takes rows in id order, one database *)
(* transaction per row: lock the row (FOR UPDATE SKIP LOCKED), publish,    *)
(* wait for the ack, write the transition, commit.  Between passes the     *)
(* relay is parked in a select over a notification, a sleep and shutdown.  *)
(* The steps of several relays interleave at every await.                  *)
(***************************************************************************)
EXTENDS Naturals

CONSTANTS
  Row,           \* row ids; a smaller id is an older UUIDv7
  Relay,         \* relay processes sharing the table
  EventId,       \* the usable top-level event_id of a row's payload, or NoEventId
  NoEventId,
  Unrenderable,  \* rows whose stored subject does not parse (legacy raw subjects)
  MaxAttempts,   \* RelayPolicy::max_attempts
  MaxMessages,   \* RelayPolicy::max_messages
  Free,          \* "no relay holds this row"
  MaxFaults,     \* bound: crashes, lost sessions, lost replies and outages
  MaxExpiries    \* bound: times the duplicate window of one id elapses

ASSUME RowAssumption == Row \subseteq Nat \ {0} /\ Unrenderable \subseteq Row
ASSUME RelayAssumption == Relay # {} /\ Free \notin Relay
ASSUME PolicyAssumption ==
  MaxAttempts \in Nat /\ MaxMessages \in Nat /\ MaxFaults \in Nat /\ MaxExpiries \in Nat

\* message_id_for: the envelope's event_id, else the row id.
MessageId == [x \in Row |-> IF EventId[x] = NoEventId THEN x ELSE EventId[x]]
MsgId == {MessageId[x] : x \in Row}

\* Both policy values are clamped to at least 1 where they are used.
AttemptCap == IF MaxAttempts = 0 THEN 1 ELSE MaxAttempts
BatchCap == IF MaxMessages = 0 THEN 1 ELSE MaxMessages

VARIABLES
  status,     \* integration_outbox.status ("ABSENT": no such row)
  attempts,   \* integration_outbox.attempts
  lock,       \* the relay whose open transaction holds the row lock
  frames,     \* frames the stream holds, counted per message id
  carried,    \* rows whose own payload is among those frames
  window,     \* message ids inside the stream's duplicate window
  expiries,   \* times the window has elapsed, per message id
  late,       \* frames a relay stopped waiting for that may still arrive
  reachable,  \* a JetStream answers on the event subjects
  pc,         \* where each relay is: down, parked, draining, publishing, settling
  pick,       \* the row the relay works on
  seen,       \* the attempts it read with that row
  ack,        \* the classified publish result
  cursor,     \* the last id of the pass
  pass,       \* RelayPass, down to what schedule_after and update_health read
  timer,      \* a sleep is armed in the select
  notified,   \* a notification waits in the listener
  health,     \* RelayHealth
  faults      \* faults so far (bound)

db == <<status, attempts, lock>>
stream == <<frames, carried, window, expiries, late, reachable>>
work == <<pick, seen, ack>>
loop == <<cursor, pass, timer, notified, health>>
vars == <<db, stream, work, loop, pc, faults>>

EmptyPass == [picked |-> 0, progress |-> FALSE, retry |-> FALSE, structural |-> FALSE]

Init ==
  /\ status = [x \in Row |-> "ABSENT"]
  /\ attempts = [x \in Row |-> 0]
  /\ lock = [x \in Row |-> Free]
  /\ frames = [m \in MsgId |-> 0]
  /\ carried = {}
  /\ window = {}
  /\ expiries = [m \in MsgId |-> 0]
  /\ late = {}
  /\ reachable = TRUE
  /\ pc = [r \in Relay |-> "down"]
  /\ pick = [r \in Relay |-> 0]
  /\ seen = [r \in Relay |-> 0]
  /\ ack = [r \in Relay |-> "none"]
  /\ cursor = [r \in Relay |-> 0]
  /\ pass = [r \in Relay |-> EmptyPass]
  /\ timer = [r \in Relay |-> FALSE]
  /\ notified = [r \in Relay |-> FALSE]
  /\ health = [r \in Relay |-> "Healthy"]
  /\ faults = 0

-----------------------------------------------------------------------------
(* The staging service *)

\* stage() commits: ON CONFLICT (id) DO NOTHING keeps an existing row as it is,
\* and pg_notify fires either way.  Listeners of running relays receive it.
Stage(x) ==
  /\ status' = IF status[x] = "ABSENT" THEN [status EXCEPT ![x] = "PENDING"] ELSE status
  /\ notified' = [r \in Relay |-> pc[r] # "down"]
  /\ UNCHANGED <<attempts, lock, stream, work, cursor, pass, timer, health, pc, faults>>

-----------------------------------------------------------------------------
(* The broker (external): one stream, deduplicating on the message id *)

\* mutant: published without a Nats-Msg-Id header, the broker cannot deduplicate
StoreWithoutId(x) ==
  /\ frames' = [frames EXCEPT ![MessageId[x]] = @ + 1]
  /\ carried' = carried \cup {x}
  /\ window' = window \cup {MessageId[x]}

Store(x) ==
  IF MessageId[x] \in window
    THEN UNCHANGED <<frames, carried, window>>
    ELSE /\ frames' = [frames EXCEPT ![MessageId[x]] = @ + 1]
         /\ carried' = carried \cup {x}
         /\ window' = window \cup {MessageId[x]}

\* A frame whose publisher gave up waiting is stored after all, or is lost.
LateArrival(x) ==
  /\ x \in late
  /\ reachable
  /\ late' = late \ {x}
  /\ Store(x) \/ UNCHANGED <<frames, carried, window>>
  /\ UNCHANGED <<db, expiries, reachable, work, loop, pc, faults>>

WindowElapses(m) ==
  /\ m \in window
  /\ expiries[m] < MaxExpiries
  /\ window' = window \ {m}
  /\ expiries' = [expiries EXCEPT ![m] = @ + 1]
  /\ UNCHANGED <<db, frames, carried, late, reachable, work, loop, pc, faults>>

\* No responder on the subject: async-nats reports it as StreamNotFound.
Outage ==
  /\ reachable
  /\ faults < MaxFaults
  /\ reachable' = FALSE
  /\ faults' = faults + 1
  /\ UNCHANGED <<db, frames, carried, window, expiries, late, work, loop, pc>>

Recovery ==
  /\ ~reachable
  /\ reachable' = TRUE
  /\ UNCHANGED <<db, frames, carried, window, expiries, late, work, loop, pc, faults>>

-----------------------------------------------------------------------------
(* The relay *)

\* mutant: run() parks on the listener without the initial drain
StartParked(r) ==
  /\ pc[r] = "down"
  /\ pc' = [pc EXCEPT ![r] = "parked"]
  /\ UNCHANGED <<db, stream, work, loop, faults>>

\* run(): LISTEN first, then the initial drain.
Start(r) ==
  /\ pc[r] = "down"
  /\ pc' = [pc EXCEPT ![r] = "draining"]
  /\ UNCHANGED <<db, stream, work, loop, faults>>

\* The row in hand is let go of: process_one's locals go out of scope.
DropWork(r) ==
  /\ pick' = [pick EXCEPT ![r] = 0]
  /\ seen' = [seen EXCEPT ![r] = 0]
  /\ ack' = [ack EXCEPT ![r] = "none"]

\* The session ends: Postgres rolls the open transaction back, which frees its row.
Unlocked(r) == [x \in Row |-> IF lock[x] = r THEN Free ELSE lock[x]]

\* run() is over: what it kept in memory goes, with the listener's backlog.
Exit(r) ==
  /\ pc' = [pc EXCEPT ![r] = "down"]
  /\ DropWork(r)
  /\ lock' = Unlocked(r)
  /\ cursor' = [cursor EXCEPT ![r] = 0]
  /\ pass' = [pass EXCEPT ![r] = EmptyPass]
  /\ timer' = [timer EXCEPT ![r] = FALSE]
  /\ notified' = [notified EXCEPT ![r] = FALSE]
  /\ UNCHANGED stream

\* The process dies or shuts down, at any await; the next one builds a new
\* OutboxRelay, whose health starts Healthy.
Crash(r) ==
  /\ pc[r] # "down"
  /\ faults < MaxFaults
  /\ faults' = faults + 1
  /\ Exit(r)
  /\ health' = [health EXCEPT ![r] = "Healthy"]
  /\ UNCHANGED <<status, attempts>>

\* What fetch_one_pending can return: the pending rows past the cursor, less those
\* another transaction holds (SKIP LOCKED).
Claimable(r) ==
  {x \in Row : status[x] = "PENDING" /\ x > cursor[r] /\ lock[x] = Free}

\* begin, fetch_one_pending: the smallest claimable id, locked.
Fetch(r) ==
  /\ pc[r] = "draining"
  /\ pass[r].picked < BatchCap
  /\ \E x \in Claimable(r) \ Unrenderable :
       /\ \A y \in Claimable(r) : x <= y
       /\ lock' = [lock EXCEPT ![x] = r]
       /\ pick' = [pick EXCEPT ![r] = x]
       /\ seen' = [seen EXCEPT ![r] = attempts[x]]
  /\ pc' = [pc EXCEPT ![r] = "publishing"]
  /\ UNCHANGED <<status, attempts, stream, ack, loop, faults>>

\* The smallest claimable row has a subject that does not parse: process_one
\* fails with Destination, the transaction rolls back and run() returns the error.
FetchUnrenderable(r) ==
  /\ pc[r] = "draining"
  /\ pass[r].picked < BatchCap
  /\ \E x \in Claimable(r) \cap Unrenderable : \A y \in Claimable(r) : x <= y
  /\ Exit(r)
  /\ UNCHANGED <<status, attempts, health, faults>>

\* publish_event_value_with_id and classify_failure.  The row lock plays no part:
\* a relay that lost its session publishes all the same.
Publish(r) ==
  /\ pc[r] = "publishing"
  /\ pc' = [pc EXCEPT ![r] = "settling"]
  /\ \/ /\ reachable
        /\ Store(pick[r])
        /\ \/ ack' = [ack EXCEPT ![r] = "accepted"]
           \/ ack' = [ack EXCEPT ![r] = "transient"]       \* the ack is lost
        /\ UNCHANGED late
     \/ /\ ~reachable
        /\ ack' = [ack EXCEPT ![r] = "structural"]
        /\ UNCHANGED <<frames, carried, window, late>>
     \/ /\ ack' = [ack EXCEPT ![r] = "transient"]          \* timed out
        /\ late' = late \cup {pick[r]}
        /\ UNCHANGED <<frames, carried, window>>
  /\ UNCHANGED <<db, expiries, reachable, pick, seen, loop, faults>>

\* mutant: a retry gets a status of its own that no reader knows
NextStatusRetry(r) ==
  IF ack[r] = "accepted" THEN "PUBLISHED" ELSE "RETRY"

\* mutant: giving up counts as done
NextStatusSettled(r) ==
  IF ack[r] = "accepted" \/ (ack[r] = "transient" /\ seen[r] + 1 >= AttemptCap)
  THEN "PUBLISHED" ELSE "PENDING"

\* mutant: off by one at the attempt cap
NextStatusLate(r) ==
  IF ack[r] = "accepted" THEN "PUBLISHED"
  ELSE IF ack[r] = "transient" /\ seen[r] + 1 > AttemptCap THEN "FAILED"
  ELSE "PENDING"

\* next_after_attempt, and the structural case that bypasses it.
NextStatus(r) ==
  IF ack[r] = "accepted" THEN "PUBLISHED"
  ELSE IF ack[r] = "transient" /\ seen[r] + 1 >= AttemptCap THEN "FAILED"
  ELSE "PENDING"

NextAttempts(r) == IF ack[r] = "structural" THEN seen[r] ELSE seen[r] + 1

\* classify_pass
CountedPass(r) ==
  [picked     |-> pass[r].picked + 1,
   progress   |-> pass[r].progress \/ NextStatus(r) # "PENDING",
   retry      |-> pass[r].retry \/ (ack[r] = "transient" /\ NextStatus(r) = "PENDING"),
   structural |-> pass[r].structural \/ ack[r] = "structural"]

Transition(r) ==
  /\ status' = [status EXCEPT ![pick[r]] = NextStatus(r)]
  /\ attempts' = [attempts EXCEPT ![pick[r]] = NextAttempts(r)]

\* mutant: the transition is written on a session that no longer holds the row
SettleUnlocked(r) ==
  /\ pc[r] = "settling"
  /\ Transition(r)
  /\ lock' = Unlocked(r)
  /\ pass' = [pass EXCEPT ![r] = CountedPass(r)]
  /\ cursor' = [cursor EXCEPT ![r] = pick[r]]
  /\ pc' = [pc EXCEPT ![r] = "draining"]
  /\ DropWork(r)
  /\ UNCHANGED <<stream, timer, notified, health, faults>>

\* apply_transition and commit, over a session that still holds the row.
Settle(r) ==
  /\ pc[r] = "settling"
  /\ lock[pick[r]] = r
  /\ Transition(r)
  /\ lock' = [lock EXCEPT ![pick[r]] = Free]
  /\ pass' = [pass EXCEPT ![r] = CountedPass(r)]
  /\ cursor' = [cursor EXCEPT ![r] = pick[r]]
  /\ pc' = [pc EXCEPT ![r] = "draining"]
  /\ DropWork(r)
  /\ UNCHANGED <<stream, timer, notified, health, faults>>

\* Postgres drops the session and rolls back; the relay has not noticed yet.
LoseSession(r) ==
  /\ faults < MaxFaults
  /\ \E x \in Row : lock[x] = r
  /\ lock' = Unlocked(r)
  /\ faults' = faults + 1
  /\ UNCHANGED <<status, attempts, stream, work, loop, pc>>

\* The relay finds out at its next statement: run() returns the store error.
SettleFails(r) ==
  /\ pc[r] = "settling"
  /\ lock[pick[r]] # r
  /\ Exit(r)
  /\ UNCHANGED <<status, attempts, health, faults>>

\* The commit took effect but its reply was lost: the row has moved, and the
\* relay leaves with an error all the same.
CommitReplyLost(r) ==
  /\ pc[r] = "settling"
  /\ lock[pick[r]] = r
  /\ faults < MaxFaults
  /\ faults' = faults + 1
  /\ Transition(r)
  /\ Exit(r)
  /\ UNCHANGED health

\* schedule_after: whether the select is armed with a sleep.
ScheduleAfter(p) == (p.picked >= BatchCap /\ p.progress) \/ p.retry

\* The pass is over: its budget is spent or nothing is claimable.  health and
\* the next retry follow from what the pass counted.
EndPass(r) ==
  /\ pc[r] = "draining"
  /\ pass[r].picked >= BatchCap \/ Claimable(r) = {}
  /\ health' = [health EXCEPT ![r] = IF pass[r].structural THEN "Degraded" ELSE "Healthy"]
  /\ timer' = [timer EXCEPT ![r] = ScheduleAfter(pass[r])]
  /\ cursor' = [cursor EXCEPT ![r] = 0]
  /\ pass' = [pass EXCEPT ![r] = EmptyPass]
  /\ pc' = [pc EXCEPT ![r] = "parked"]
  /\ UNCHANGED <<db, stream, work, notified, faults>>

\* The select fires and the next drain starts, on a notification or on the sleep.
WakeUp(r) ==
  /\ pc[r] = "parked"
  /\ \/ notified[r] /\ notified' = [notified EXCEPT ![r] = FALSE]
     \/ timer[r] /\ UNCHANGED notified
  /\ timer' = [timer EXCEPT ![r] = FALSE]
  /\ pc' = [pc EXCEPT ![r] = "draining"]
  /\ UNCHANGED <<db, stream, work, cursor, pass, health, faults>>

\* try_recv answers None after the listener reconnected: the relay drains, for
\* notifications may have been missed.
ListenerReconnects(r) ==
  /\ pc[r] # "down"
  /\ ~notified[r]
  /\ faults < MaxFaults
  /\ faults' = faults + 1
  /\ notified' = [notified EXCEPT ![r] = TRUE]
  /\ UNCHANGED <<db, stream, work, cursor, pass, timer, health, pc>>

-----------------------------------------------------------------------------
RelayStep(r) ==
  \/ Start(r) \/ Fetch(r) \/ FetchUnrenderable(r) \/ Publish(r)
  \/ Settle(r) \/ SettleFails(r) \/ EndPass(r) \/ WakeUp(r)

RelayFault(r) ==
  Crash(r) \/ LoseSession(r) \/ CommitReplyLost(r) \/ ListenerReconnects(r)

Next ==
  \/ \E x \in Row : Stage(x) \/ LateArrival(x)
  \/ \E m \in MsgId : WindowElapses(m)
  \/ Outage \/ Recovery
  \/ \E r \in Relay : RelayStep(r) \/ RelayFault(r)

Spec == Init /\ [][Next]_vars

-----------------------------------------------------------------------------
(* Properties *)

TypeOK ==
  /\ status \in [Row -> {"ABSENT", "PENDING", "PUBLISHED", "FAILED"}]
  /\ attempts \in [Row -> Nat]
  /\ lock \in [Row -> Relay \cup {Free}]
  /\ frames \in [MsgId -> Nat]
  /\ carried \in SUBSET Row
  /\ window \in SUBSET MsgId
  /\ expiries \in [MsgId -> Nat]
  /\ late \in SUBSET Row
  /\ reachable \in BOOLEAN
  /\ pc \in [Relay -> {"down", "parked", "draining", "publishing", "settling"}]
  /\ pick \in [Relay -> Row \cup {0}]
  /\ seen \in [Relay -> Nat]
  /\ ack \in [Relay -> {"none", "accepted", "transient", "structural"}]
  /\ cursor \in [Relay -> Row \cup {0}]
  /\ pass \in [Relay -> [picked : Nat, progress : BOOLEAN,
                          retry : BOOLEAN, structural : BOOLEAN]]
  /\ timer \in [Relay -> BOOLEAN]
  /\ notified \in [Relay -> BOOLEAN]
  /\ health \in [Relay -> {"Healthy", "Degraded"}]
  /\ faults \in Nat

\* What the outbox promises: OutboxDelivery, with the frames of the stream as the
\* messages delivered.  Whatever crashes, lost sessions and racing relays do, a
\* settled row stays settled and PUBLISHED is never written over an empty stream.
Delivery == INSTANCE OutboxDelivery WITH delivered <- {m \in MsgId : frames[m] > 0}

DeliverySpec == Delivery!Spec

\* When no two rows share a message id, a PUBLISHED row is one whose own payload is
\* on the stream (the README's "one event_id = one frame": rows that do share one
\* lose every frame but the first).
DistinctIds == \A x, y \in Row : MessageId[x] = MessageId[y] => x = y

PublishedCarriesItsPayload ==
  DistinctIds => \A x \in Row : status[x] = "PUBLISHED" => x \in carried

\* Retries, crash replays and two relays at once put one frame per message id on
\* the stream for each duplicate window: the id is stable over all of them.
OneFramePerWindow == \A m \in MsgId : frames[m] <= expiries[m] + 1

\* Rows leave PENDING when the budget is spent and not before; a crash or a lost
\* session may forget an attempt but never invents one.
BudgetRespected ==
  \A x \in Row :
    /\ status[x] = "PENDING" => attempts[x] < AttemptCap
    /\ status[x] = "FAILED" => attempts[x] = AttemptCap

\* Nobody is going to look at the table again.
Quiescent ==
  \A r \in Relay : pc[r] = "parked" /\ ~notified[r] /\ ~timer[r]

\* A pending row is never left behind in silence: if every relay is parked with
\* neither a notification nor a sleep to wake it, some relay reports Degraded.
\* (A structural failure arms no sleep, so such rows do wait for the next NOTIFY.)
NoSilentStranding ==
  Quiescent => \/ \A x \in Row : status[x] # "PENDING"
               \/ \E r \in Relay : health[r] = "Degraded"

\* While the broker stays reachable, every staged row that no unparseable row stands
\* in front of is settled in the end, under any finite number of crashes, lost
\* sessions and lost acks: no wake-up is missed and no row waits for a retry that
\* nobody scheduled.
EventuallySettled ==
  []reachable =>
    \A x \in Row :
      (status[x] = "PENDING" /\ \A y \in Unrenderable : x < y)
        ~> status[x] \in {"PUBLISHED", "FAILED"}

-----------------------------------------------------------------------------
\* Every relay task is polled, and whoever runs it starts it again when it exits.
FairSpec == Spec /\ \A r \in Relay : WF_vars(RelayStep(r))
=============================================================================
