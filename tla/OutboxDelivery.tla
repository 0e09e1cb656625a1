--------------------------- MODULE OutboxDelivery ---------------------------
(***************************************************************************)
(* What the transactional outbox promises to the service that stages into  *)
(* it, with no relay, no lock, no broker window and no wake-up in sight:   *)
(* a staged row ends PUBLISHED or FAILED and stays there, and it is never  *)
(* PUBLISHED before the event stream holds a frame under its message id.   *)
(* Delivery is at least once: a frame may reach the stream for a row that  *)
(* is still PENDING, or that has been given up on.                         *)
(***************************************************************************)
CONSTANTS Row,            \* the outbox rows that may ever be staged
          MessageId       \* the Nats-Msg-Id each row is published under

VARIABLES status,         \* status of each row, as the table stores it
          delivered       \* message ids with at least one frame on the stream

vars == <<status, delivered>>

Init ==
  /\ status = [x \in Row |-> "ABSENT"]
  /\ delivered = {}

\* The service commits a transaction that stages the row.
Stage(x) ==
  /\ status[x] = "ABSENT"
  /\ status' = [status EXCEPT ![x] = "PENDING"]
  /\ UNCHANGED delivered

\* A frame of a staged row reaches the stream, possibly again, possibly late.
Deliver(x) ==
  /\ status[x] # "ABSENT"
  /\ delivered' = delivered \cup {MessageId[x]}
  /\ UNCHANGED status

\* The row is settled as published: only over a frame the stream holds.
Publish(x) ==
  /\ status[x] = "PENDING"
  /\ MessageId[x] \in delivered
  /\ status' = [status EXCEPT ![x] = "PUBLISHED"]
  /\ UNCHANGED delivered

\* The attempt budget is spent.
GiveUp(x) ==
  /\ status[x] = "PENDING"
  /\ status' = [status EXCEPT ![x] = "FAILED"]
  /\ UNCHANGED delivered

Next == \E x \in Row : Stage(x) \/ Deliver(x) \/ Publish(x) \/ GiveUp(x)

Spec == Init /\ [][Next]_vars
=============================================================================
