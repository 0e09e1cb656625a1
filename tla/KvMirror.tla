------------------------------- MODULE KvMirror -------------------------------
(***************************************************************************)
(* PublishedLanguageConsumer::run of br-util-nats-fabric: a supervised     *)
(* mirror of the PUBLISHED_LANGUAGE bucket in a projection sink.  Each     *)
(* cycle scans the selected prefixes, projects what passes the copy filter,*)
(* retracts the orphans of the sink, reports Healthy, subscribes to the    *)
(* whole bucket and applies what it is sent, until the watch ends; then it *)
(* backs off and starts again.                                             *)
(*                                                                         *)
(* Nothing of this is atomic: the scan lists the keys and then reads them  *)
(* one at a time, the sink is awaited for each key, and the watch only     *)
(* brings entries written after it was opened.  Publishers write at any    *)
(* moment.                                                                 *)
(***************************************************************************)
EXTENDS Backoff, Sequences

CONSTANTS
  Key,
  Selected,      \* keys under the prefixes the consumer selected
  Value,
  Passing,       \* values that pass its copy filter
  Corrupt,       \* bytes that do not decode
  Nothing,       \* absent, deleted or purged
  MaxWrites,     \* bound: entries ever written to the bucket
  MaxIdle,       \* bound: sleeps the history variable idle counts
  MaxFaults      \* bound: failures of the broker or the sink, and crashes

ASSUME KeyAssumption == Selected \subseteq Key
ASSUME ValueAssumption ==
  Passing \subseteq Value /\ Corrupt \subseteq Value \ Passing /\ Nothing \notin Value
ASSUME NumberAssumption ==
  MaxWrites \in Nat /\ MaxIdle \in Nat /\ MaxFaults \in Nat

VARIABLES
  log,         \* the bucket's stream: its n-th entry has revision n
  mirror,      \* the sink's rows
  pc,          \* where supervise is
  todo,        \* keys the current loop over keys has still to visit
  desired,     \* what the scan found passing
  position,    \* revision the watch has delivered up to
  progressed,  \* the watch has delivered an entry
  health,      \* the WatchHealth channel
  delay,       \* Backoff::current
  scanned,     \* per key, the revision the scan has seen it at (history)
  opened,      \* revision at which the watch was opened (history)
  idle,        \* sleeps since a watch last delivered an entry (history)
  faults

cycle == <<todo, desired, position, progressed, scanned, opened>>
vars == <<log, mirror, pc, cycle, health, delay, idle, faults>>

Entry == [key : Key, val : Value \cup {Nothing}]
Empty == [k \in Key |-> Nothing]

\* The bucket at revision n.
ValueAt(k, n) ==
  IF \E m \in 1..n : log[m].key = k
  THEN log[CHOOSE m \in 1..n : log[m].key = k /\ \A l \in (m + 1)..n : log[l].key # k].val
  ELSE Nothing

Current(k) == ValueAt(k, Len(log))

\* mutant: the copy filter is not asked
ImageUnfiltered(v) == v

\* decide_put and the filter of scan_passing: what the sink should hold for a value.
Image(v) == IF v \in Passing THEN v ELSE Nothing

Init ==
  /\ log = <<>>
  /\ mirror = Empty
  /\ pc = "down"
  /\ todo = {} /\ desired = Empty
  /\ position = 0 /\ progressed = FALSE
  /\ health = "Degraded"
  /\ delay = InitialDelay
  /\ scanned = [k \in Key |-> 0]
  /\ opened = 0
  /\ idle = 0
  /\ faults = 0

Fault == faults < MaxFaults /\ faults' = faults + 1

-----------------------------------------------------------------------------
(* Publishers (put, update, update_if; retract, delete_if) *)

Write(k, v) ==
  /\ Len(log) < MaxWrites
  /\ log' = Append(log, [key |-> k, val |-> v])
  /\ UNCHANGED <<mirror, pc, cycle, health, delay, idle, faults>>

-----------------------------------------------------------------------------
\* What one cycle keeps in memory goes; Degraded.
EndCycle ==
  /\ todo' = {} /\ desired' = Empty
  /\ position' = 0 /\ progressed' = FALSE
  /\ scanned' = [k \in Key |-> 0] /\ opened' = 0
  /\ health' = "Degraded"

\* The cycle ends in front of the backoff's sleep.
Pause == EndCycle /\ pc' = "pausing"

\* run() is spawned: Degraded before the first cycle.
Start ==
  /\ pc = "down"
  /\ EndCycle
  /\ pc' = "listing"
  /\ UNCHANGED <<log, mirror, delay, idle, faults>>

(* reconcile: bootstrap *)

\* scan_passing: the keys of the bucket, of which the selected ones are read.
List ==
  /\ pc = "listing"
  /\ todo' = {k \in Selected : Current(k) # Nothing}
  /\ desired' = Empty
  /\ scanned' = [k \in Key |-> Len(log)]
  /\ pc' = "getting"
  /\ UNCHANGED <<log, mirror, position, progressed, opened, health, delay, idle, faults>>

Get(k) ==
  /\ pc = "getting"
  /\ k \in todo
  /\ IF Current(k) \in Corrupt
       THEN Pause
       ELSE /\ desired' = [desired EXCEPT ![k] = Image(Current(k))]
            /\ scanned' = [scanned EXCEPT ![k] = Len(log)]
            /\ todo' = todo \ {k}
            /\ UNCHANGED <<pc, health, position, progressed, opened>>
  /\ UNCHANGED <<log, mirror, delay, idle, faults>>

ScanDone ==
  /\ pc = "getting" /\ todo = {}
  /\ todo' = {k \in Key : desired[k] # Nothing}
  /\ pc' = "projecting"
  /\ UNCHANGED <<log, mirror, desired, position, progressed, scanned, opened, health, delay,
                 idle, faults>>

Project(k) ==
  /\ pc = "projecting"
  /\ k \in todo
  /\ mirror' = [mirror EXCEPT ![k] = desired[k]]
  /\ todo' = todo \ {k}
  /\ UNCHANGED <<log, pc, desired, position, progressed, scanned, opened, health, delay,
                 idle, faults>>

\* mutant: orphans are never looked for
NoOrphans == {}

\* orphans: keys of the sink, under a selected prefix, that the scan did not find passing.
Orphans == {k \in Selected : mirror[k] # Nothing /\ desired[k] = Nothing}

KnownKeys ==
  /\ pc = "projecting" /\ todo = {}
  /\ todo' = Orphans
  /\ pc' = "retracting"
  /\ UNCHANGED <<log, mirror, desired, position, progressed, scanned, opened, health, delay,
                 idle, faults>>

Retract(k) ==
  /\ pc = "retracting"
  /\ k \in todo
  /\ mirror' = [mirror EXCEPT ![k] = Nothing]
  /\ todo' = todo \ {k}
  /\ UNCHANGED <<log, pc, desired, position, progressed, scanned, opened, health, delay,
                 idle, faults>>

\* mutant: a successful reconcile resets the backoff
BootstrappedResets ==
  /\ pc = "retracting" /\ todo = {}
  /\ pc' = "subscribing"
  /\ health' = "Healthy"
  /\ desired' = Empty
  /\ delay' = InitialDelay
  /\ UNCHANGED <<log, mirror, todo, position, progressed, scanned, opened, idle, faults>>

Bootstrapped ==
  /\ pc = "retracting" /\ todo = {}
  /\ pc' = "subscribing"
  /\ health' = "Healthy"
  /\ desired' = Empty
  /\ UNCHANGED <<log, mirror, todo, position, progressed, scanned, opened, delay, idle, faults>>

\* A statement of the scan or of the sink fails.
ReconcileFails ==
  /\ pc \in {"listing", "getting", "projecting", "retracting"}
  /\ Fault
  /\ Pause
  /\ UNCHANGED <<log, mirror, delay, idle>>

-----------------------------------------------------------------------------
(* follow *)

\* watch_all: new entries only.
Subscribe ==
  /\ pc = "subscribing"
  /\ position' = Len(log)
  /\ opened' = Len(log)
  /\ progressed' = FALSE
  /\ pc' = "following"
  /\ UNCHANGED <<log, mirror, todo, desired, scanned, health, delay, idle, faults>>

\* A watch that delivered an entry resets the backoff before the sleep.
StopFollowing(delivered) ==
  /\ Pause
  /\ delay' = IF delivered THEN InitialDelay ELSE delay
  /\ idle' = IF delivered THEN 0 ELSE idle

Superseded(n) == \E m \in (n + 1)..Len(log) : log[m].key = log[n].key

\* The next entry of the watch.  The bucket keeps one entry per key: one that is
\* superseded before it is sent is not sent.
NextEntry(n) == n > position /\ \A m \in (position + 1)..(n - 1) : Superseded(m)

\* mutant: a tombstone is not an entry to apply
ApplyPutsOnly(n) ==
  LET e == log[n] IN
  IF e.key \in Selected /\ e.val # Nothing
  THEN mirror' = [mirror EXCEPT ![e.key] = Image(e.val)]
  ELSE UNCHANGED mirror

\* apply_entry: a put that passes is projected; one that does not, a delete or a purge
\* is retracted.
Apply(n) ==
  LET e == log[n] IN
  IF e.key \in Selected
  THEN mirror' = [mirror EXCEPT ![e.key] = Image(e.val)]
  ELSE UNCHANGED mirror

Deliver(n) ==
  /\ pc = "following"
  /\ NextEntry(n)
  /\ IF log[n].key \in Selected /\ log[n].val \in Corrupt
       THEN StopFollowing(TRUE) /\ UNCHANGED mirror
       ELSE /\ Apply(n)
            /\ position' = n
            /\ progressed' = TRUE
            /\ UNCHANGED <<pc, todo, desired, scanned, opened, health, delay, idle>>
  /\ UNCHANGED <<log, faults>>

\* watch_all fails, the watch yields an error or ends, or the sink fails on an entry.
FollowEnds ==
  /\ Fault
  /\ \/ pc = "subscribing" /\ StopFollowing(FALSE)
     \/ pc = "following" /\ StopFollowing(progressed)
     \/ /\ pc = "following"
        /\ \E n \in 1..Len(log) : NextEntry(n) /\ log[n].key \in Selected
        /\ StopFollowing(TRUE)
  /\ UNCHANGED <<log, mirror>>

-----------------------------------------------------------------------------
(* The supervised loop *)

\* mutant: run() returns when its watch ends
SleepReturns ==
  /\ pc = "pausing"
  /\ pc' = "returned"
  /\ delay' = NextDelay(delay)
  /\ idle' = IF idle < MaxIdle THEN idle + 1 ELSE idle
  /\ UNCHANGED <<log, mirror, cycle, health, faults>>

Sleep ==
  /\ pc = "pausing"
  /\ pc' = "listing"
  /\ delay' = NextDelay(delay)
  /\ idle' = IF idle < MaxIdle THEN idle + 1 ELSE idle
  /\ UNCHANGED <<log, mirror, cycle, health, faults>>

\* The next run() has a Backoff of its own.
NewBackoff == delay' = InitialDelay /\ idle' = 0

\* The process dies; the sink is durable.
Crash ==
  /\ pc # "down"
  /\ Fault
  /\ EndCycle
  /\ pc' = "down"
  /\ NewBackoff
  /\ UNCHANGED <<log, mirror>>

\* The future of run() is dropped in a process that lives on: nobody touches the channel.
Drop ==
  /\ pc # "down"
  /\ Fault
  /\ pc' = "down"
  /\ todo' = {} /\ desired' = Empty
  /\ position' = 0 /\ progressed' = FALSE /\ opened' = 0
  /\ NewBackoff
  /\ UNCHANGED <<log, mirror, scanned, health>>

-----------------------------------------------------------------------------
Step ==
  \/ Start \/ List \/ ScanDone \/ KnownKeys \/ Bootstrapped \/ Subscribe \/ Sleep
  \/ \E k \in Key : Get(k) \/ Project(k) \/ Retract(k)
  \/ \E n \in 1..Len(log) : Deliver(n)

Next ==
  \/ Step \/ ReconcileFails \/ FollowEnds \/ Crash \/ Drop
  \/ \E k \in Key, v \in Value \cup {Nothing} : Write(k, v)

Spec == Init /\ [][Next]_vars

\* The task is polled, its supervisor spawns run() again, and the broker delivers.
FairSpec == Spec /\ WF_vars(Step)

-----------------------------------------------------------------------------
(* Properties *)

TypeOK ==
  /\ log \in Seq(Entry)
  /\ mirror \in [Key -> Passing \cup {Nothing}]
  /\ pc \in {"down", "listing", "getting", "projecting", "retracting", "subscribing",
             "following", "pausing"}
  /\ todo \subseteq Selected
  /\ desired \in [Key -> Passing \cup {Nothing}]
  /\ position \in Nat /\ progressed \in BOOLEAN
  /\ health \in {"Healthy", "Degraded"}
  /\ delay \in Nat
  /\ scanned \in [Key -> Nat] /\ opened \in Nat /\ idle \in Nat /\ faults \in Nat

\* The last write of a key fell between its scan and the opening of the watch: the gap
\* README.md:700-704 of the crate admits.
Missed(k) == \E n \in (scanned[k] + 1)..opened : log[n].key = k /\ ~Superseded(n)

\* A mirror that reports Healthy holds, for every selected key, something the bucket held
\* since this cycle's scan: never what an earlier cycle, another process or a watch that
\* is gone left behind, whatever was written, deleted or lost meanwhile.
HealthyIsFresh ==
  health = "Healthy" =>
    \A k \in Selected : \E n \in scanned[k]..Len(log) : mirror[k] = Image(ValueAt(k, n))

\* Nothing the mirror holds while it is Healthy is out of date, beyond what the gap before
\* its watch hides, and every variable has its type (kv/consumer.rs, kv/supervisor.rs).
MirrorIsFresh == TypeOK /\ HealthyIsFresh

\* A watch that has caught up has the bucket's own value of every selected key, but for
\* the keys whose last write fell into the gap: nothing else is lost.
OnlyTheGapIsMissed ==
  (pc = "following" /\ position = Len(log)) =>
    \A k \in Selected : Missed(k) \/ mirror[k] = Image(Current(k))

\* A mirror that flaps without delivering anything backs off ever longer, up to the cap,
\* although each of its scans succeeds.
FlappingBacksOff == KeepsPace(delay, idle)

\* Once no selected value is corrupt, and under finitely many writes and failures, the
\* mirror is healthy for good and equals the bucket up to the gap.
EventuallyMirrored ==
  <>[](\A k \in Selected : Current(k) \notin Corrupt)
    => <>[](health = "Healthy" /\ \A k \in Selected : Missed(k) \/ mirror[k] = Image(Current(k)))
=============================================================================
