------------------------- MODULE PostCommitBroadcast -------------------------
(***************************************************************************)
(* br-util-broadcast: commands of one process fill a PendingBroadcast      *)
(* while their transaction runs and fan it out on the EventBus after the   *)
(* commit; subscription resolvers come, read, lag and go on other threads. *)
(*                                                                         *)
(* The channel is tokio's: a send needs a receiver at that moment, and a   *)
(* receiver that is more than `Capacity` events behind loses the oldest.   *)
(***************************************************************************)
EXTENDS Naturals, Sequences

CONSTANTS
  Command, Subscriber,
  Capacity,   \* EventBus::new(capacity), which panics on zero; a power of two, as tokio rounds up
  MaxEvents   \* bound: events of one command

VARIABLES
  phase,      \* per command: running, committed, rolled back, publishing, done
  pending,    \* per command, its PendingBroadcast
  sent,       \* per command, how many events its publish has sent
  report,     \* per command, what publish_after_commit returned
  channel,    \* every event that was sent, in order
  audience,   \* per event of the channel, who was subscribed when it was sent (history)
  since,      \* per subscriber, where in the channel it subscribed, 0 for not subscribed
  position,   \* per subscriber, the next event of the channel it reads
  heard,      \* per subscriber, the events it received since it subscribed
  lagged      \* per subscriber, how many events it was told it lost

command == <<phase, pending, sent, report>>
bus == <<channel, audience>>
subscriber == <<since, position, heard, lagged>>
vars == <<command, bus, subscriber>>

None == [is |-> "none", unheard |-> 0]
Ok == [is |-> "ok", unheard |-> 0]
NoSubscribers(unheard) == [is |-> "no_subscribers", unheard |-> unheard]

\* PendingBroadcast::new: a buffer without a channel
Init ==
  /\ phase = [c \in Command |-> "running"]
  /\ pending = [c \in Command |-> <<>>]
  /\ sent = [c \in Command |-> 0]
  /\ report = [c \in Command |-> None]
  /\ channel = <<>> /\ audience = <<>>
  /\ since = [s \in Subscriber |-> 0]
  /\ position = [s \in Subscriber |-> 1]
  /\ heard = [s \in Subscriber |-> <<>>]
  /\ lagged = [s \in Subscriber |-> 0]

Receivers == {s \in Subscriber : since[s] # 0}

-----------------------------------------------------------------------------
(* The command, as the README lays it out *)

\* PendingBroadcast::push, extend, from_events and from_iter: in order, at the end.
Push(c) ==
  /\ phase[c] = "running" /\ Len(pending[c]) < MaxEvents
  /\ pending' = [pending EXCEPT ![c] = Append(@, <<c, Len(@) + 1>>)]
  /\ UNCHANGED <<phase, sent, report, bus, subscriber>>

\* The transaction ends; a buffer whose transaction rolled back is dropped.
End(c, outcome) ==
  /\ phase[c] = "running"
  /\ phase' = [phase EXCEPT ![c] = outcome]
  /\ pending' = [pending EXCEPT ![c] = IF outcome = "committed" THEN @ ELSE <<>>]
  /\ UNCHANGED <<sent, report, bus, subscriber>>

Publish(c) ==
  /\ phase[c] = "committed"
  /\ phase' = [phase EXCEPT ![c] = "publishing"]
  /\ UNCHANGED <<pending, sent, report, bus, subscriber>>

Finish(c, result) ==
  /\ phase' = [phase EXCEPT ![c] = "done"]
  /\ report' = [report EXCEPT ![c] = result]
  /\ UNCHANGED <<pending, sent, bus, subscriber>>

\* mutant: the event that found nobody is taken for a sent one
UnheardLate(c) == Len(pending[c]) - sent[c] - 1

\* total - sent, the event that found nobody included
Unheard(c) == Len(pending[c]) - sent[c]

\* mutant: the batch goes on behind an event nobody heard
StepOver(c) ==
  /\ phase[c] = "publishing"
  /\ IF sent[c] = Len(pending[c]) THEN Finish(c, Ok)
     ELSE /\ sent' = [sent EXCEPT ![c] = @ + 1]
          /\ IF Receivers = {} THEN UNCHANGED bus
             ELSE /\ channel' = Append(channel, pending[c][sent[c] + 1])
                  /\ audience' = Append(audience, Receivers)
          /\ UNCHANGED <<phase, pending, report, subscriber>>

\* One turn of the loop of publish_after_commit: other threads come between two sends.
Step(c) ==
  /\ phase[c] = "publishing"
  /\ IF sent[c] = Len(pending[c]) THEN Finish(c, Ok)
     ELSE IF Receivers = {} THEN Finish(c, NoSubscribers(Unheard(c)))
     ELSE /\ channel' = Append(channel, pending[c][sent[c] + 1])
          /\ audience' = Append(audience, Receivers)
          /\ sent' = [sent EXCEPT ![c] = @ + 1]
          /\ UNCHANGED <<phase, pending, report, subscriber>>

-----------------------------------------------------------------------------
(* The subscribers *)

\* mutant: a subscriber starts at the oldest event the channel still holds
SubscribeReplays(s) ==
  /\ since[s] = 0
  /\ since' = [since EXCEPT ![s] = Len(channel) + 1]
  /\ position' = [position EXCEPT ![s] = IF channel = <<>> THEN 1 ELSE Len(channel)]
  /\ heard' = [heard EXCEPT ![s] = <<>>]
  /\ lagged' = [lagged EXCEPT ![s] = 0]
  /\ UNCHANGED <<command, bus>>

\* EventBus::subscribe: the receiver sees what is sent from now on.
Subscribe(s) ==
  /\ since[s] = 0
  /\ since' = [since EXCEPT ![s] = Len(channel) + 1]
  /\ position' = [position EXCEPT ![s] = Len(channel) + 1]
  /\ heard' = [heard EXCEPT ![s] = <<>>]
  /\ lagged' = [lagged EXCEPT ![s] = 0]
  /\ UNCHANGED <<command, bus>>

Unsubscribe(s) ==
  /\ since[s] # 0
  /\ since' = [since EXCEPT ![s] = 0]
  /\ UNCHANGED <<command, bus, position, heard, lagged>>

\* Receiver::recv: the next event, or that it lagged, and from the oldest kept one on.
Recv(s) ==
  /\ since[s] # 0 /\ position[s] <= Len(channel)
  /\ LET oldest == IF Len(channel) > Capacity THEN Len(channel) - Capacity + 1 ELSE 1 IN
     IF position[s] < oldest
       THEN /\ lagged' = [lagged EXCEPT ![s] = @ + oldest - position[s]]
            /\ position' = [position EXCEPT ![s] = oldest]
            /\ UNCHANGED heard
       ELSE /\ heard' = [heard EXCEPT ![s] = Append(@, channel[position[s]])]
            /\ position' = [position EXCEPT ![s] = @ + 1]
            /\ UNCHANGED lagged
  /\ UNCHANGED <<command, bus, since>>

Next ==
  \/ \E c \in Command :
       \/ Push(c) \/ Publish(c) \/ Step(c)
       \/ \E outcome \in {"committed", "rolled back"} : End(c, outcome)
  \/ \E s \in Subscriber : Subscribe(s) \/ Unsubscribe(s) \/ Recv(s)

Spec == Init /\ [][Next]_vars

-----------------------------------------------------------------------------
(* Properties *)

TypeOK ==
  /\ phase \in [Command -> {"running", "committed", "rolled back", "publishing", "done"}]
  /\ \A c \in Command : sent[c] \in 0..Len(pending[c]) /\ Len(pending[c]) <= MaxEvents
  /\ Len(audience) = Len(channel)
  /\ \A s \in Subscriber : since[s] \in 0..Len(channel) + 1 /\ position[s] \in 1..Len(channel) + 1

\* Where the events of a command are on the channel.
EventsOf(c) == {n \in DOMAIN channel : channel[n][1] = c}

\* They are the first k of its batch, each of them once and in its order.
FannedOut(c, k) ==
  /\ {channel[n] : n \in EventsOf(c)} = {pending[c][i] : i \in 1..k}
  /\ \A m, n \in EventsOf(c) : m < n => channel[m][2] < channel[n][2]

\* README.md:77-92 of br-util-broadcast: what publish_after_commit reports is what happened,
\* whoever came and went meanwhile: the events up to the first that found nobody were fanned
\* out in order, each to somebody, and the rest, that one included, are the unheard ones.
ReportIsTrue ==
  \A c \in Command :
    /\ phase[c] = "rolled back" => EventsOf(c) = {}
    /\ phase[c] = "done" =>
         /\ FannedOut(c, Len(pending[c]) - report[c].unheard)
         /\ report[c].is = "ok" <=> report[c].unheard = 0
    /\ \A n \in DOMAIN channel : audience[n] # {}

\* Events that are at these places of the channel, and in the order of the places.
InOrder(events, places) ==
  \A n, m \in 1..Len(events) :
    n <= m => \E a, b \in places :
                events[n] = channel[a] /\ events[m] = channel[b] /\ (n < m => a < b)

\* README.md:68-75, :77-80: a subscriber hears the events since it subscribed, in the order in which
\* every other one hears them, whether or not it lagged in between; what is missing is what it was
\* told it lost, also when two commands publish at once.
HeardInOrder ==
  \A s \in Receivers :
    /\ Len(heard[s]) + lagged[s] = position[s] - since[s]
    /\ InOrder(heard[s], since[s]..position[s] - 1)
    /\ lagged[s] = 0 => heard[s] = SubSeq(channel, since[s], position[s] - 1)
    /\ \A n \in since[s]..Len(channel) : s \in audience[n]

-----------------------------------------------------------------------------
(* The inductive invariant *)

Event == Command \X Nat

Typed ==
  /\ phase \in [Command -> {"running", "committed", "rolled back", "publishing", "done"}]
  /\ pending \in [Command -> Seq(Event)] /\ sent \in [Command -> Nat]
  /\ report \in [Command -> [is : {"none", "ok", "no_subscribers"}, unheard : Nat]]
  /\ channel \in Seq(Event) /\ audience \in Seq(SUBSET Subscriber) /\ Len(audience) = Len(channel)
  /\ since \in [Subscriber -> Nat] /\ position \in [Subscriber -> Nat]
  /\ heard \in [Subscriber -> Seq(Event)] /\ lagged \in [Subscriber -> Nat]

\* The events of a batch are numbered, and only publish sends any.
Batches ==
  \A c \in Command :
    /\ Len(pending[c]) <= MaxEvents /\ sent[c] <= Len(pending[c])
    /\ \A i \in 1..Len(pending[c]) : pending[c][i] = <<c, i>>
    /\ phase[c] \in {"running", "committed", "rolled back"} => sent[c] = 0
    /\ phase[c] = "done" => /\ report[c].unheard = Len(pending[c]) - sent[c]
                            /\ report[c].is = "ok" <=> report[c].unheard = 0

\* The first k events of a command are on the channel, once and in its order.
OnChannel(c, k) ==
  /\ \A n \in 1..Len(channel) : channel[n][1] = c => channel[n][2] \in 1..k
  /\ \A i \in 1..k : \E n \in 1..Len(channel) : channel[n] = <<c, i>>
  /\ \A m, n \in 1..Len(channel) :
       channel[m][1] = c /\ channel[n][1] = c /\ m < n => channel[m][2] < channel[n][2]

Sends == \A c \in Command : OnChannel(c, sent[c])

\* A subscriber has heard what it did not lose.
Hears(s) ==
  /\ since[s] <= position[s]
  /\ Len(heard[s]) + lagged[s] = position[s] - since[s]
  /\ lagged[s] = 0 => \A i \in 1..Len(heard[s]) : heard[s][i] = channel[since[s] + i - 1]
  /\ InOrder(heard[s], since[s]..position[s] - 1)
  /\ \A n \in 1..Len(channel) : since[s] <= n => s \in audience[n]

Hearing ==
  /\ \A n \in 1..Len(channel) : audience[n] # {}
  /\ \A s \in Subscriber :
       /\ since[s] <= Len(channel) + 1 /\ position[s] \in 1..Len(channel) + 1
       /\ since[s] # 0 => Hears(s)
=============================================================================
