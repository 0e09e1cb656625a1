------------------------ MODULE DirectoryPublication ------------------------
(***************************************************************************)
(* The publisher side of br-util-directory: DirectoryPublisher::reconcile  *)
(* at the boot of each identity process, and the incremental publish_ and  *)
(* retract_ calls made on domain events meanwhile, over one bucket.        *)
(*                                                                         *)
(* A reconcile takes the kinds in turn.  It reads the desired roster of a  *)
(* kind, scans the bucket key by key, and puts and deletes one key at a    *)
(* time, never looking back; the manifest comes last.  It may fail or die  *)
(* between any two of these, and the roster changes under it.              *)
(***************************************************************************)
EXTENDS Naturals, Sequences

CONSTANTS
  Publisher,
  Kinds,      \* <<users, groups, service accounts>>: the order of the reconcile
  Id,
  Value,
  Absent,
  Manifests,  \* the sets of kinds that deployed versions declare
  MaxEvents,  \* bound: domain events
  MaxFaults   \* bound: failed calls and crashes

VARIABLES
  truth,     \* the DirectorySource, per kind and id
  bucket,    \* what the bucket holds
  meta,      \* identity/_meta
  calls,     \* publish_ and retract_ calls the domain events still have to make, in order
  at,        \* per publisher: idle, desire, scan, write, meta
  manifest,  \* per publisher, source.manifest()
  turn,      \* per publisher, the kind its reconcile is at
  desired,   \* per publisher, the desired map of that kind
  observed,  \* per publisher, what its scan has seen of it
  pending,   \* per publisher, the keys it has still to scan or to write
  settled,   \* per kind, what the last finished reconcile of it declared (history)
  touched,   \* per publisher, ids of its kind that a call was made for since it read the source
  stale,     \* per kind, ids that a call and a reconcile raced for (history)
  events,
  faults

pass == <<at, manifest, turn, desired, observed, pending>>
history == <<settled, touched, stale>>
vars == <<truth, bucket, meta, calls, pass, history, events, faults>>

Kind == {Kinds[n] : n \in DOMAIN Kinds}
Roster == [Id -> Value \cup {Absent}]
Nobody == [i \in Id |-> Absent]
Live(f) == {i \in Id : f[i] # Absent}

\* The bucket may hold keys of an earlier life.
Init ==
  /\ truth \in [Kind -> Roster]
  /\ bucket = truth
  /\ meta = Absent
  /\ calls = <<>>
  /\ at = [p \in Publisher |-> "idle"]
  /\ manifest = [p \in Publisher |-> {}]
  /\ turn = [p \in Publisher |-> 1]
  /\ desired = [p \in Publisher |-> Nobody]
  /\ observed = [p \in Publisher |-> Nobody]
  /\ pending = [p \in Publisher |-> {}]
  /\ settled = [k \in Kind |-> "never"]
  /\ touched = [p \in Publisher |-> {}]
  /\ stale = [k \in Kind |-> {}]
  /\ events = 0
  /\ faults = 0

-----------------------------------------------------------------------------
(* Domain events *)

\* The source changes and a call is due.
Event(k, i, v) ==
  /\ events < MaxEvents /\ events' = events + 1
  /\ truth[k][i] # v
  /\ truth' = [truth EXCEPT ![k][i] = v]
  /\ calls' = Append(calls, [kind |-> k, id |-> i, value |-> v])
  /\ UNCHANGED <<bucket, meta, pass, history, faults>>

\* The publishers whose reconcile has read the source for this kind and not finished it.
Busy(k) == {p \in Publisher : at[p] \in {"scan", "write"} /\ Kinds[turn[p]] = k}

Touch(c) ==
  touched' = [p \in Publisher |-> IF p \in Busy(c.kind) THEN touched[p] \cup {c.id} ELSE touched[p]]

\* publish_user, retract_user, publish_group, ...: put or retract, whatever the manifest
\* declares.
Call ==
  LET c == Head(calls) IN
  /\ calls # <<>>
  /\ calls' = Tail(calls)
  /\ bucket' = [bucket EXCEPT ![c.kind][c.id] = c.value]
  /\ Touch(c)
  /\ stale' = IF Busy(c.kind) # {} \/ settled[c.kind] = "undeclared"
                THEN [stale EXCEPT ![c.kind] = @ \cup {c.id}] ELSE stale
  /\ UNCHANGED <<truth, meta, pass, settled, events, faults>>

\* It fails and is not made again.
CallFails ==
  LET c == Head(calls) IN
  /\ calls # <<>>
  /\ faults < MaxFaults /\ faults' = faults + 1
  /\ calls' = Tail(calls)
  /\ Touch(c)
  /\ stale' = [stale EXCEPT ![c.kind] = @ \cup {c.id}]
  /\ UNCHANGED <<truth, bucket, meta, pass, settled, events>>

-----------------------------------------------------------------------------
(* reconcile *)

Start(p, m) ==
  /\ at[p] = "idle"
  /\ manifest' = [manifest EXCEPT ![p] = m]
  /\ turn' = [turn EXCEPT ![p] = 1]
  /\ at' = [at EXCEPT ![p] = "desire"]
  /\ UNCHANGED <<truth, bucket, meta, calls, desired, observed, pending, history, events, faults>>

Declares(p) == Kinds[turn[p]] \in manifest[p]
Declared(p) == IF Declares(p) THEN "declared" ELSE "undeclared"

\* Two versions at once that disagree about the kind: either may undo the other.
Rivals(p) == {q \in Busy(Kinds[turn[p]]) \ {p} : Declares(q) # Declares(p)}

\* desired_users and the like; an undeclared kind is reconciled against nobody.
Desired(p) == IF Declares(p) THEN truth[Kinds[turn[p]]] ELSE Nobody

\* The source is read, and the scan lists the keys.
Desire(p) ==
  /\ at[p] = "desire"
  /\ desired' = [desired EXCEPT ![p] = Desired(p)]
  /\ observed' = [observed EXCEPT ![p] = Nobody]
  /\ pending' = [pending EXCEPT ![p] = Live(bucket[Kinds[turn[p]]])]
  /\ at' = [at EXCEPT ![p] = "scan"]
  /\ touched' = [q \in Publisher |-> IF Rivals(p) # {} /\ q \in Rivals(p) \cup {p} THEN Id
                                     ELSE IF q = p THEN {} ELSE touched[q]]
  /\ stale' = IF Rivals(p) = {} THEN stale ELSE [stale EXCEPT ![Kinds[turn[p]]] = Id]
  /\ UNCHANGED <<truth, bucket, meta, calls, manifest, turn, settled, events, faults>>

\* scan_entries reads the keys it listed; one that is gone by now is skipped.
Scan(p, i) ==
  /\ at[p] = "scan" /\ i \in pending[p]
  /\ observed' = [observed EXCEPT ![p][i] = bucket[Kinds[turn[p]]][i]]
  /\ pending' = [pending EXCEPT ![p] = @ \ {i}]
  /\ UNCHANGED <<truth, bucket, meta, calls, at, manifest, turn, desired, history, events, faults>>

\* mutant: a deletion the source has forgotten about is left alone
PutsOnly(p) == {i \in Live(desired[p]) : desired[p][i] # observed[p][i]}

\* reconcile(desired, observed): puts of what is new or different, deletes of the orphans.
Ops(p) == {i \in Id : desired[p][i] # observed[p][i]}

Compare(p) ==
  /\ at[p] = "scan" /\ pending[p] = {}
  /\ pending' = [pending EXCEPT ![p] = Ops(p)]
  /\ at' = [at EXCEPT ![p] = "write"]
  /\ UNCHANGED <<truth, bucket, meta, calls, manifest, turn, desired, observed, history, events, faults>>

\* The next operation, unconditional; the puts come before the deletes.
Write(p, i) ==
  /\ at[p] = "write" /\ i \in pending[p]
  /\ desired[p][i] = Absent => \A j \in pending[p] : desired[p][j] = Absent
  /\ bucket' = [bucket EXCEPT ![Kinds[turn[p]]][i] = desired[p][i]]
  /\ pending' = [pending EXCEPT ![p] = @ \ {i}]
  /\ UNCHANGED <<truth, meta, calls, at, manifest, turn, desired, observed, history, events, faults>>

\* What raced with this reconcile may still race with the others of its kind.
Leave(p) ==
  touched' = [q \in Publisher |-> IF q = p THEN {}
                                  ELSE IF {p, q} \subseteq Busy(Kinds[turn[p]]) THEN touched[q] \cup touched[p]
                                  ELSE touched[q]]

\* The kind is done, and the next one or the manifest comes.  An id that no call has
\* touched under this or another reconcile is what the source said.
FinishKind(p) ==
  LET k == Kinds[turn[p]] IN
  /\ at[p] = "write" /\ pending[p] = {}
  /\ settled' = [settled EXCEPT ![k] = Declared(p)]
  /\ stale' = [stale EXCEPT ![k] = {i \in @ : \E q \in Busy(k) : i \in touched[q]}]
  /\ Leave(p)
  /\ IF turn[p] < Len(Kinds)
       THEN turn' = [turn EXCEPT ![p] = @ + 1] /\ at' = [at EXCEPT ![p] = "desire"]
       ELSE at' = [at EXCEPT ![p] = "meta"] /\ UNCHANGED turn
  /\ UNCHANGED <<truth, bucket, meta, calls, manifest, desired, observed, pending, events, faults>>

WriteMeta(p) ==
  /\ at[p] = "meta"
  /\ meta' = manifest[p]
  /\ at' = [at EXCEPT ![p] = "idle"]
  /\ UNCHANGED <<truth, bucket, calls, manifest, turn, desired, observed, pending, history, events, faults>>

\* A call on the source or the bucket fails, or the process dies: reconcile is over, and
\* what it has written stays.
Fail(p) ==
  /\ at[p] # "idle"
  /\ faults < MaxFaults /\ faults' = faults + 1
  /\ at' = [at EXCEPT ![p] = "idle"]
  /\ pending' = [pending EXCEPT ![p] = {}]
  /\ Leave(p)
  /\ stale' = IF at[p] \in {"scan", "write"} /\ settled[Kinds[turn[p]]] # Declared(p)
                THEN [stale EXCEPT ![Kinds[turn[p]]] = Id] ELSE stale
  /\ UNCHANGED <<truth, bucket, meta, calls, manifest, turn, desired, observed, settled, events>>

-----------------------------------------------------------------------------
Next ==
  \/ \E k \in Kind, i \in Id, v \in Value \cup {Absent} : Event(k, i, v)
  \/ Call \/ CallFails
  \/ \E p \in Publisher :
       \/ \E m \in Manifests : Start(p, m)
       \/ Desire(p) \/ Compare(p) \/ FinishKind(p) \/ WriteMeta(p) \/ Fail(p)
       \/ \E i \in Id : Scan(p, i) \/ Write(p, i)

Spec == Init /\ [][Next]_vars

-----------------------------------------------------------------------------
(* Properties *)

TypeOK ==
  /\ truth \in [Kind -> Roster] /\ bucket \in [Kind -> Roster]
  /\ meta \in {Absent} \cup SUBSET Kind
  /\ at \in [Publisher -> {"idle", "desire", "scan", "write", "meta"}]
  /\ turn \in [Publisher -> DOMAIN Kinds]
  /\ pending \in [Publisher -> SUBSET Id] /\ touched \in [Publisher -> SUBSET Id]
  /\ settled \in [Kind -> {"never", "declared", "undeclared"}]
  /\ stale \in [Kind -> SUBSET Id]

Quiet == calls = <<>> /\ \A p \in Publisher : at[p] = "idle"

Wanted(k) == IF settled[k] = "declared" THEN truth[k] ELSE Nobody

\* README.md:62-67 of the crate: with every call made and no reconcile running, a kind that
\* was ever reconciled holds the source's roster, or nobody when its last reconcile did not
\* declare it, whatever failed on the way.  Only ids for which a call raced with a
\* reconcile, was lost, or named an undeclared kind are excepted, and the next undisturbed
\* reconcile repairs those too.
RosterIsTruth ==
  Quiet => \A k \in Kind : settled[k] # "never" =>
             \A i \in Id : bucket[k][i] = Wanted(k)[i] \/ i \in stale[k]

\* A projector trusts the manifest it reads (README.md:294-300): from its first appearance
\* on, every kind has been reconciled, so no consumer takes an unfilled bucket for a roster.
ManifestImpliesRoster == meta # Absent => \A k \in Kind : settled[k] # "never"
-----------------------------------------------------------------------------
(* The inductive invariant *)

CallOn == [kind : Kind, id : Id, value : Value \cup {Absent}]

Typed ==
  /\ TypeOK
  /\ calls \in Seq(CallOn)
  /\ manifest \in [Publisher -> SUBSET Kind]
  /\ desired \in [Publisher -> Roster] /\ observed \in [Publisher -> Roster]

\* A call on the id is still to come, or was made while a reconcile is at its kind.
Due(k, i) == \E n \in 1..Len(calls) : calls[n].kind = k /\ calls[n].id = i
Raced(k, i) == \E p \in Busy(k) : i \in touched[p]
Calm(k, i) == ~Due(k, i) /\ ~Raced(k, i)

\* The last call on an id says what the source says.
LastCallIsTrue ==
  \A n \in 1..Len(calls) :
    \/ \E m \in n + 1..Len(calls) : calls[m].kind = calls[n].kind /\ calls[m].id = calls[n].id
    \/ calls[n].value = truth[calls[n].kind][calls[n].id]

\* Every race is on record, and so is that of two versions that disagree about a kind.
RacesAreStale ==
  \A k \in Kind :
    /\ \A i \in Id : Raced(k, i) => i \in stale[k]
    /\ \A p, q \in Busy(k) : Declares(p) # Declares(q) => touched[p] = Id

\* Where nothing has raced, what a reconcile read is what the source still says, ...
DesiredIsTrue ==
  \A k \in Kind, i \in Id : \A p \in Busy(k) :
    ~Due(k, i) /\ i \notin touched[p] => desired[p][i] = Desired(p)[i]

\* ... and what it has dealt with is in the bucket, or waits for it to see what is there.
DealtWith ==
  \A k \in Kind, i \in Id : \A p \in Busy(k) :
    Calm(k, i) /\ i \notin pending[p] =>
      \/ bucket[k][i] = desired[p][i]
      \/ at[p] = "scan" /\ observed[p][i] = bucket[k][i]

\* A kind that was reconciled keeps what it has, unless its reconcile is being reversed.
Reconciled ==
  \A k \in Kind, i \in Id :
    (/\ settled[k] # "never" /\ ~Due(k, i) /\ i \notin stale[k]
     /\ \A p \in Busy(k) : Declared(p) = settled[k])
      => bucket[k][i] = Wanted(k)[i]

\* The kinds are settled in turn, and the manifest comes last.
InTurn ==
  /\ ManifestImpliesRoster
  /\ \A p \in Publisher :
       /\ at[p] \in {"desire", "scan", "write"} =>
            \A n \in 1..turn[p] - 1 : settled[Kinds[n]] # "never"
       /\ at[p] = "meta" => \A k \in Kind : settled[k] # "never"

Inv ==
  /\ Typed /\ LastCallIsTrue /\ RacesAreStale /\ DesiredIsTrue /\ DealtWith /\ Reconciled /\ InTurn
=============================================================================
