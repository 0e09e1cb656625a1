--------------------------- MODULE ProjectorHealth ---------------------------
(***************************************************************************)
(* The composed health of a DirectoryProjector (br-util-directory,         *)
(* consumer/health.rs, and watch() of consumer/project.rs): each watch()   *)
(* activates its streams, sets them Healthy when their consumers are bound *)
(* and Degraded when they return, and clears them when its future ends or  *)
(* is dropped.                                                             *)
(*                                                                         *)
(* Every change goes through mutate, which composes the worst of the       *)
(* streams under a lock and sends it after the lock is released: two steps *)
(* here.  Within one watch() they follow each other; a second watch() on   *)
(* another thread may run between them.                                    *)
(***************************************************************************)
EXTENDS Naturals

CONSTANTS
  Task,         \* calls of watch(), each on a thread of its own
  Stream,       \* Users, Groups, ServiceAccounts
  Users,        \* the stream every projector has
  Overlapping,  \* a watch() may start while another one still runs or is being dropped
  MaxWatches    \* bound: activations

VARIABLES
  generation,  \* Activation::generation
  streams,     \* Activation::streams; "none" for a stream that is not active
  channel,     \* what the receivers of health() see
  stage,       \* per task, where its watch() is
  guard,       \* per task, the generation its ActiveStreams carries
  binding,     \* per task, its streams whose consumer is not bound yet
  following,   \* per task, its streams whose watch is in flight
  composed     \* per task, what mutate has composed and not sent; "none" otherwise

pvars == <<generation, streams, channel, stage, guard, binding, following, composed>>

Health == {"Healthy", "Degraded"}

Init ==
  /\ generation = 0
  /\ streams = [s \in Stream |-> "none"]
  /\ channel = "Degraded"
  /\ stage = [t \in Task |-> "idle"]
  /\ guard = [t \in Task |-> 0]
  /\ binding = [t \in Task |-> {}]
  /\ following = [t \in Task |-> {}]
  /\ composed = [t \in Task |-> "none"]

Active(f) == {s \in Stream : f[s] # "none"}

\* worst_of
WorstOf(f) ==
  IF Active(f) # {} /\ \A s \in Active(f) : f[s] = "Healthy" THEN "Healthy" ELSE "Degraded"

\* The locked half of mutate.
Mutate(t, f) ==
  /\ composed[t] = "none"
  /\ streams' = f
  /\ composed' = [composed EXCEPT ![t] = WorstOf(f)]
  /\ UNCHANGED channel

\* The other half: send_if_modified.
Send(t) ==
  /\ composed[t] # "none"
  /\ channel' = composed[t]
  /\ composed' = [composed EXCEPT ![t] = "none"]
  /\ stage' = [stage EXCEPT ![t] = IF @ = "dropped" THEN "idle" ELSE @]
  /\ UNCHANGED <<generation, streams, guard, binding, following>>

\* watch() has read the manifest and activates the streams it is to follow; a watch() that
\* finds no manifest returns before this and changes nothing.
Activate(t, active) ==
  /\ stage[t] = "idle"
  /\ Overlapping \/ \A u \in Task : stage[u] = "idle"
  /\ generation < MaxWatches
  /\ generation' = generation + 1
  /\ guard' = [guard EXCEPT ![t] = generation + 1]
  /\ Mutate(t, [s \in Stream |-> IF s \in active THEN "Degraded" ELSE "none"])
  /\ stage' = [stage EXCEPT ![t] = "watching"]
  /\ binding' = [binding EXCEPT ![t] = active]
  /\ UNCHANGED following

\* set: only a stream of the current activation has a slot.
Set(t, s, h) ==
  Mutate(t, IF streams[s] = "none" THEN streams ELSE [streams EXCEPT ![s] = h])

\* The consumer of a stream is bound to the bucket.
Bound(t, s) ==
  /\ stage[t] = "watching" /\ s \in binding[t]
  /\ Set(t, s, "Healthy")
  /\ binding' = [binding EXCEPT ![t] = @ \ {s}]
  /\ following' = [following EXCEPT ![t] = @ \cup {s}]
  /\ UNCHANGED <<generation, stage, guard>>

\* Its watch returns; with an error the other streams of the try_join are dropped.
Returned(t, s, failed) ==
  /\ stage[t] = "watching" /\ s \in following[t]
  /\ Set(t, s, "Degraded")
  /\ following' = [following EXCEPT ![t] = IF failed THEN {} ELSE @ \ {s}]
  /\ binding' = [binding EXCEPT ![t] = IF failed THEN {} ELSE @]
  /\ UNCHANGED <<generation, stage, guard>>

\* mutant: the streams of the generation stay
DeactivateKeeps(t) == Mutate(t, streams)

\* deactivate, which ActiveStreams calls when it is dropped
Deactivate(t) ==
  Mutate(t, IF generation = guard[t] THEN [s \in Stream |-> "none"] ELSE streams)

\* The future of watch() ends or is dropped, at an await: no send is pending then.
Dropped(t) ==
  /\ stage[t] = "watching"
  /\ Deactivate(t)
  /\ stage' = [stage EXCEPT ![t] = "dropped"]
  /\ binding' = [binding EXCEPT ![t] = {}]
  /\ following' = [following EXCEPT ![t] = {}]
  /\ UNCHANGED <<generation, guard>>

Next ==
  \E t \in Task :
    \/ Send(t) \/ Dropped(t)
    \/ \E active \in SUBSET Stream : Users \in active /\ Activate(t, active)
    \/ \E s \in Stream : Bound(t, s) \/ \E failed \in BOOLEAN : Returned(t, s, failed)

Spec == Init /\ [][Next]_pvars

-----------------------------------------------------------------------------
(* Properties *)

TypeOK ==
  /\ generation \in 0..MaxWatches
  /\ streams \in [Stream -> Health \cup {"none"}]
  /\ channel \in Health
  /\ stage \in [Task -> {"idle", "watching", "dropped"}]
  /\ guard \in [Task -> 0..MaxWatches]
  /\ binding \in [Task -> SUBSET Stream] /\ following \in [Task -> SUBSET Stream]
  /\ composed \in [Task -> Health \cup {"none"}]

Quiet == \A t \in Task : composed[t] = "none"

\* README.md:269-288 of the crate, one watch() at a time: between two changes, Healthy means
\* that a watch() runs with every one of its streams bound and in flight.
HealthyMeansInFlight ==
  Quiet /\ channel = "Healthy" =>
    \E t \in Task : stage[t] = "watching" /\ binding[t] = {} /\ following[t] = Active(streams)

\* README.md:281-284: a torn-down watch cannot leave the composition pinned on Healthy with
\* nothing running behind it, and a superseded activation dropped late does no harm.
NothingRunningIsDegraded == (\A t \in Task : stage[t] = "idle") => channel = "Degraded"

-----------------------------------------------------------------------------
(* The inductive invariant, one watch() at a time *)

\* A watch() is in flight: nothing is Healthy that is not followed, until a stream has
\* failed and taken the others with it.
InFlight(t) ==
  \/ /\ binding[t] \cup following[t] \subseteq Active(streams)
     /\ \A s \in binding[t] : streams[s] = "Degraded"
     /\ \A s \in Stream : streams[s] = "Healthy" => s \in following[t]
  \/ /\ binding[t] = {} /\ following[t] = {}
     /\ \E s \in Stream : streams[s] = "Degraded"

\* One task at a time owns the activation, and what is composed is the worst of it.
Composed ==
  /\ \A t, u \in Task : stage[t] # "idle" /\ stage[u] # "idle" => t = u
  /\ \A t \in Task : composed[t] # "none" => stage[t] # "idle" /\ composed[t] = WorstOf(streams)
  /\ \A t \in Task : stage[t] = "dropped" => composed[t] # "none"
  /\ \A t \in Task : stage[t] = "watching" => guard[t] = generation /\ InFlight(t)
  /\ \A t \in Task : stage[t] # "watching" => binding[t] = {} /\ following[t] = {}
  /\ (\A t \in Task : stage[t] # "watching") => \A s \in Stream : streams[s] = "none"
  /\ Quiet => channel = WorstOf(streams)
=============================================================================
