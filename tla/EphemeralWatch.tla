--------------------------- MODULE EphemeralWatch ---------------------------
(***************************************************************************)
(* EphemeralAuthWatcher::run of br-util-nats-fabric: a supervised watch of *)
(* the EPHEMERAL_AUTH bucket that only re-subscribes, and the consumer of  *)
(* README.md:996-1005 of the crate, which keeps state derived from the     *)
(* changes and reads the bucket again when health turns Healthy and when   *)
(* an entry was skipped.                                                   *)
(*                                                                         *)
(* The loop is the one of KvMirror with another cycle: its reconcile only  *)
(* probes the bucket, and an entry it cannot read is counted, not fatal.   *)
(***************************************************************************)
EXTENDS Backoff, Sequences

CONSTANTS
  Key,
  Value,
  Corrupt,       \* bytes that do not decode
  Unnamable,     \* keys the bucket takes and KvKey does not: those with an = in them
  Nothing,       \* absent, deleted, purged or expired
  MaxWrites,     \* bound: entries ever written to the bucket
  MaxIdle,       \* bound: sleeps the history variable idle counts
  MaxFaults      \* bound: failures of the broker, and times the bucket goes away

VARIABLES
  log,        \* the bucket's stream: its n-th entry has revision n
  stored,     \* per key, the revision of the entry the bucket still holds; 0 for none
  present,    \* the bucket exists
  pc,         \* where supervise is
  position,   \* revision the watch has delivered up to
  observed,   \* WatchProgress::observed has grown since the watch was opened
  health,     \* the WatchHealth channel
  delay,      \* Backoff::current
  derived,    \* the consumer's state
  due,        \* keys the consumer has still to read again
  missable,   \* per key, revision and presence of its last direct read (history)
  idle,       \* sleeps since a watch last observed an entry (history)
  faults

watch == <<pc, position, observed, health, delay, idle>>
consumer == <<derived, due, missable>>
vars == <<log, stored, present, watch, consumer, faults>>

Entry == [key : Key, val : Value \cup {Nothing}]

\* KvKey::new
IsKvKey(k) == k \notin Unnamable
Named == {k \in Key : IsKvKey(k)}

\* What get_with_revision can read of a key.
Readable(k) ==
  IF stored[k] = 0 \/ log[stored[k]].val \in Corrupt THEN Nothing ELSE log[stored[k]].val

Init ==
  /\ log = <<>>
  /\ stored = [k \in Key |-> 0]
  /\ present = TRUE
  /\ pc = "probing"
  /\ position = 0 /\ observed = FALSE
  /\ health = "Degraded"
  /\ delay = InitialDelay
  /\ derived = [k \in Key |-> Nothing]
  /\ due = {}
  /\ missable = {}
  /\ idle = 0
  /\ faults = 0

Fault == faults < MaxFaults /\ faults' = faults + 1

-----------------------------------------------------------------------------
(* The bucket *)

\* A key's entry changes while no subscription brings it: what was read before is stale.
Unwatched(k) == missable' = IF pc = "watching" THEN missable ELSE missable \cup {k}

Write(k, v) ==
  /\ present
  /\ Len(log) < MaxWrites
  /\ log' = Append(log, [key |-> k, val |-> v])
  /\ stored' = [stored EXCEPT ![k] = Len(log) + 1]
  /\ Unwatched(k)
  /\ UNCHANGED <<present, watch, derived, due, faults>>

\* A TTL is over; the bucket is declared with delete markers, so it is a Write of Nothing
\* when the marker is written, and an entry that just goes when it is not.
Expire(k) ==
  /\ present
  /\ stored[k] # 0 /\ log[stored[k]].val # Nothing
  /\ stored' = [stored EXCEPT ![k] = 0]
  /\ missable' = missable \cup {k}
  /\ UNCHANGED <<log, present, watch, derived, due, faults>>

BucketGoes == present /\ Fault /\ present' = FALSE
              /\ UNCHANGED <<log, stored, watch, consumer>>

BucketReturns == ~present /\ present' = TRUE
                 /\ UNCHANGED <<log, stored, watch, consumer, faults>>

-----------------------------------------------------------------------------
(* The supervised loop *)

\* health.set; the consumer notices Degraded turning Healthy.
SetHealth(h) ==
  /\ health' = h
  /\ due' = IF health = "Degraded" /\ h = "Healthy" THEN Named ELSE due

\* bucket_present passes: Healthy, and on to follow.
Probe ==
  /\ pc = "probing" /\ present
  /\ SetHealth("Healthy")
  /\ pc' = "opening"
  /\ UNCHANGED <<log, stored, present, position, observed, delay, idle, derived, missable, faults>>

\* It fails: Degraded, and the backoff's sleep.
ProbeFails ==
  /\ pc = "probing"
  /\ \/ ~present /\ UNCHANGED faults
     \/ present /\ Fault
  /\ SetHealth("Degraded")
  /\ pc' = "pausing"
  /\ UNCHANGED <<log, stored, present, position, observed, delay, idle, derived, missable>>

\* watch_all: new entries only.
Open ==
  /\ pc = "opening" /\ present
  /\ position' = Len(log)
  /\ observed' = FALSE
  /\ pc' = "watching"
  /\ UNCHANGED <<log, stored, present, health, delay, idle, consumer, faults>>

\* The next entry of the watch; one that was superseded or has expired is not sent.
NextEntry(n) ==
  /\ n > position
  /\ stored[log[n].key] = n
  /\ \A m \in (position + 1)..(n - 1) : stored[log[m].key] # m

\* classify: a delete and a purge are one change.
Classify(val) == IF val = Nothing THEN "Removed" ELSE "Set"

\* Why an entry is skipped: its key first; a removal has no value to decode.
SkipReason(n) ==
  IF ~IsKvKey(log[n].key) THEN "invalid key"
  ELSE IF Classify(log[n].val) = "Set" /\ log[n].val \in Corrupt THEN "undecodable value"
  ELSE "none"

\* WatchProgress::observed: changes and skips both count.
Observed == observed' = TRUE

\* mutant: an entry that cannot be read is counted nowhere
SkipSilently(n) == UNCHANGED <<observed, derived, due>>

\* record_skip; the consumer reads the bucket again.
Skip(n) == Observed /\ due' = Named /\ UNCHANGED derived

\* change_from and on_change: Set or Removed, counted.
Change(n) ==
  /\ Observed
  /\ derived' = [derived EXCEPT ![log[n].key] = log[n].val]
  /\ UNCHANGED due

Deliver(n) ==
  /\ pc = "watching"
  /\ NextEntry(n)
  /\ position' = n
  /\ IF SkipReason(n) = "none" THEN Change(n) ELSE Skip(n)
  /\ UNCHANGED <<log, stored, present, pc, health, delay, idle, missable, faults>>

\* watch_all fails, the stream yields an error, or it ends: the watch degrades health, and
\* an attempt that observed an entry, read or skipped, resets the backoff.
FollowEnds ==
  /\ Fault
  /\ \/ pc = "opening" /\ UNCHANGED <<delay, idle>>
     \/ /\ pc = "watching"
        /\ delay' = IF observed THEN InitialDelay ELSE delay
        /\ idle' = IF observed THEN 0 ELSE idle
  /\ SetHealth("Degraded")
  /\ pc' = "pausing"
  /\ observed' = FALSE
  /\ missable' = missable \cup {log[n].key : n \in (position + 1)..Len(log)}
  /\ position' = 0
  /\ UNCHANGED <<log, stored, present, derived>>

Sleep ==
  /\ pc = "pausing"
  /\ pc' = "probing"
  /\ delay' = NextDelay(delay)
  /\ idle' = IF idle < MaxIdle THEN idle + 1 ELSE idle
  /\ UNCHANGED <<log, stored, present, position, observed, health, consumer, faults>>

-----------------------------------------------------------------------------
(* The consumer of the changes *)

\* It reads a key again.
ReRead(k) ==
  /\ k \in due
  /\ derived' = [derived EXCEPT ![k] = Readable(k)]
  /\ due' = due \ {k}
  /\ missable' = missable \ {k}
  /\ UNCHANGED <<log, stored, present, watch, faults>>

-----------------------------------------------------------------------------
Next ==
  \/ \E k \in Key : Expire(k) \/ ReRead(k) \/ \E v \in Value \cup {Nothing} : Write(k, v)
  \/ BucketGoes \/ BucketReturns
  \/ Probe \/ ProbeFails \/ Open \/ FollowEnds \/ Sleep
  \/ \E n \in 1..Len(log) : Deliver(n)

Spec == Init /\ [][Next]_vars

-----------------------------------------------------------------------------
(* Properties *)

TypeOK ==
  /\ log \in Seq(Entry)
  /\ stored \in [Key -> 0..Len(log)]
  /\ present \in BOOLEAN
  /\ pc \in {"probing", "opening", "watching", "pausing"}
  /\ position \in 0..Len(log) /\ observed \in BOOLEAN
  /\ health \in {"Healthy", "Degraded"}
  /\ delay \in Nat /\ idle \in Nat /\ faults \in Nat
  /\ derived \in [Key -> Value \cup {Nothing}]
  /\ due \subseteq Key /\ missable \subseteq Key

CaughtUp == pc = "watching" /\ due = {} /\ \A n \in 1..Len(log) : ~NextEntry(n)

\* A consumer that re-reads on both signals, once it has nothing left to read and the watch
\* has caught up, agrees with the bucket on every key but those that changed between its
\* re-read and the opening of the watch, or expired without a marker; and a key it has no name for
\* never gets into its state.
DerivedUpToTheGap ==
  /\ CaughtUp => \A k \in Named : k \in missable \/ derived[k] = Readable(k)
  /\ \A k \in Key \ Named : derived[k] = Nothing

\* An attempt that observed nothing never resets the backoff, although the bucket is there
\* each time.
FlappingBacksOff == KeepsPace(delay, idle)

-----------------------------------------------------------------------------
(* The inductive invariant *)

\* The entry of a key is one of that key.
Stored == \A k \in Key : stored[k] # 0 => log[stored[k]].key = k

\* The watch has the key's entry still before it.
Ahead(k) == pc = "watching" /\ stored[k] > position

Accounted(k) == k \in missable \/ k \in due \/ derived[k] = Readable(k) \/ Ahead(k)

Inv ==
  /\ TypeOK
  /\ Stored
  /\ due \subseteq Named
  /\ \A k \in Named : Accounted(k)
  /\ \A k \in Key \ Named : derived[k] = Nothing
=============================================================================
