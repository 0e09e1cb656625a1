------------------------------ MODULE KvStore ------------------------------
(***************************************************************************)
(* The revision-checked writes of br-util-nats-fabric over a JetStream KV  *)
(* bucket: EphemeralAuthStore (login codes and token families, some with a *)
(* TTL) and the conditional path of PublishedLanguagePublisher.            *)
(*                                                                         *)
(* Several clients read a key with its revision and write it back later,   *)
(* while others create, put and delete it without looking, an entry        *)
(* expires, or the reply to a write is lost.  The values of a versioned    *)
(* key carry a version, and its writers run the read-compare-CAS loop of   *)
(* the crate's README.                                                     *)
(***************************************************************************)
EXTENDS Integers

CONSTANTS
  Client,
  Key,
  Versioned,    \* keys only written through the loop, and deleted
  Version,      \* what a readable value carries
  Corrupt,      \* a value that does not decode
  Tombstone,    \* the last entry is a delete or a purge
  Absent,       \* no entry is left
  MaxRevision,  \* bound: entries ever written
  MaxFaults     \* bound: replies lost

\* What the proofs assume of the constants; the components that instantiate this module do.
Bounds ==
  /\ Versioned \subseteq Key
  /\ Version \subseteq Nat \ {0}
  /\ Tombstone \notin Version \cup {Corrupt} /\ Absent \notin Version \cup {Corrupt}
  /\ MaxRevision \in Nat /\ MaxFaults \in Nat

VARIABLES
  revision,  \* the bucket's last sequence
  entry,     \* per key, its last entry
  held,      \* per client and key, the Revision it holds; 0 for none
  goal,      \* per client and versioned key, the version it wants published; 0 for none
  heirs,     \* conditional writes that succeeded over a revision (history)
  faults

vars == <<revision, entry, held, goal, heirs, faults>>

Value == Version \cup {Corrupt}
Live(k) == entry[k].val \in Value

Init ==
  /\ revision = 0
  /\ entry = [k \in Key |-> [rev |-> 0, val |-> Absent, ttl |-> FALSE]]
  /\ held = [c \in Client |-> [k \in Key |-> 0]]
  /\ goal = [c \in Client |-> [k \in Versioned |-> 0]]
  /\ heirs = [r \in 1..MaxRevision |-> 0]
  /\ faults = 0

\* The bucket appends an entry; it becomes the key's last.
Append(k, v, ttl) ==
  /\ revision < MaxRevision
  /\ revision' = revision + 1
  /\ entry' = [entry EXCEPT ![k] = [rev |-> revision + 1, val |-> v, ttl |-> ttl]]

Hold(c, k, r) == held' = [held EXCEPT ![c][k] = r]

-----------------------------------------------------------------------------
(* Unconditional writes *)

\* KeyAlreadyExists: a tombstone, or nothing at all, is no such key.
AlreadyExists(k) == Live(k)

\* create: only over no live value.
Create(c, k, v) ==
  /\ ~AlreadyExists(k)
  /\ Append(k, v, FALSE)
  /\ UNCHANGED <<held, goal, heirs, faults>>

CreateWithTtl(c, k, v) ==
  /\ ~AlreadyExists(k)
  /\ Append(k, v, TRUE)
  /\ UNCHANGED <<held, goal, heirs, faults>>

\* put, update
Put(c, k, v) ==
  /\ k \notin Versioned
  /\ Append(k, v, FALSE)
  /\ UNCHANGED <<held, goal, heirs, faults>>

\* delete, retract: a tombstone, whatever is there.
Delete(c, k) ==
  /\ Append(k, Tombstone, FALSE)
  /\ UNCHANGED <<held, goal, heirs, faults>>

\* The broker drops an entry whose TTL is over; a delete-marker TTL makes it append one.
Expire(k, marker) ==
  /\ entry[k].ttl
  /\ IF marker
       THEN Append(k, Tombstone, FALSE)
       ELSE /\ entry' = [entry EXCEPT ![k] = [rev |-> 0, val |-> Absent, ttl |-> FALSE]]
            /\ UNCHANGED revision
  /\ UNCHANGED <<held, goal, heirs, faults>>

-----------------------------------------------------------------------------
(* The revision-checked path *)

\* mutant: the loop writes over whatever version it read
NewerAlways(c, k) == TRUE

\* current.version >= desired.version: break
Newer(c, k) == k \in Versioned => entry[k].val < goal[c][k]

\* A client sets out to publish a version.
Want(c, k, v) ==
  /\ goal[c][k] = 0
  /\ goal' = [goal EXCEPT ![c][k] = v]
  /\ Hold(c, k, 0)
  /\ UNCHANGED <<revision, entry, heirs, faults>>

\* get_with_revision, and the comparison of the loop: None for an absent, deleted or
\* purged key, Decode for an unreadable value.
Read(c, k) ==
  /\ held[c][k] = 0
  /\ k \in Versioned => goal[c][k] # 0
  /\ IF entry[k].val \in Version /\ Newer(c, k)
       THEN Hold(c, k, entry[k].rev) /\ UNCHANGED goal
       ELSE /\ k \in Versioned
            /\ goal' = [goal EXCEPT ![c][k] = 0]
            /\ UNCHANGED held
  /\ UNCHANGED <<revision, entry, heirs, faults>>

\* mutant: the expected revision is not sent
MatchesAny(c, k) == held[c][k] # 0

\* The broker's check of the expected revision against the subject's last one.
Matches(c, k) == held[c][k] # 0 /\ entry[k].rev = held[c][k]

Inherit(c, k) == heirs' = [heirs EXCEPT ![held[c][k]] = @ + 1]

\* The value a conditional write may carry: anything, or the version the client wants.
Offered(c, k) == IF k \in Versioned THEN {goal[c][k]} ELSE Value

\* The client's loop is over.
Settled(c, k) == goal' = IF k \in Versioned THEN [goal EXCEPT ![c][k] = 0] ELSE goal

\* update_if (forgets the revision) and update_if_returning_revision (goes on with it).
\* The rewritten entry has no TTL.
UpdateIf(c, k, v, chained) ==
  /\ Matches(c, k)
  /\ v \in Offered(c, k)
  /\ Append(k, v, FALSE)
  /\ Inherit(c, k)
  /\ Hold(c, k, IF chained /\ k \notin Versioned THEN revision + 1 ELSE 0)
  /\ Settled(c, k)
  /\ UNCHANGED faults

DeleteIf(c, k) ==
  /\ Matches(c, k)
  /\ Append(k, Tombstone, FALSE)
  /\ Inherit(c, k)
  /\ Hold(c, k, 0)
  /\ Settled(c, k)
  /\ UNCHANGED faults

\* RevisionConflict: nothing is written; the client must read again.
Conflict(c, k) ==
  /\ held[c][k] # 0 /\ ~Matches(c, k)
  /\ Hold(c, k, 0)
  /\ UNCHANGED <<revision, entry, goal, heirs, faults>>

\* The write takes effect and its reply is lost (FabricError::Kv): the client may try
\* again with the revision it still holds.
UpdateReplyLost(c, k, v) ==
  /\ faults < MaxFaults /\ faults' = faults + 1
  /\ Matches(c, k)
  /\ v \in Offered(c, k)
  /\ Append(k, v, FALSE)
  /\ Inherit(c, k)
  /\ UNCHANGED <<held, goal>>

-----------------------------------------------------------------------------
Next ==
  \/ \E c \in Client, k \in Key :
       \/ \E v \in IF k \in Versioned THEN Version ELSE Value :
            Create(c, k, v) \/ CreateWithTtl(c, k, v)
       \/ \E v \in Value : Put(c, k, v) \/ UpdateReplyLost(c, k, v)
       \/ \E v \in Value, chained \in BOOLEAN : UpdateIf(c, k, v, chained)
       \/ Delete(c, k) \/ DeleteIf(c, k) \/ Read(c, k) \/ Conflict(c, k)
  \/ \E c \in Client, k \in Versioned, v \in Version : Want(c, k, v)
  \/ \E k \in Key, marker \in BOOLEAN : Expire(k, marker)

Spec == Init /\ [][Next]_vars

-----------------------------------------------------------------------------
(* Properties *)

TypeOK ==
  /\ revision \in 0..MaxRevision
  /\ entry \in [Key -> [rev : 0..MaxRevision, val : Value \cup {Tombstone, Absent},
                        ttl : BOOLEAN]]
  /\ held \in [Client -> [Key -> 0..MaxRevision]]
  /\ goal \in [Client -> [Versioned -> Version \cup {0}]]
  /\ heirs \in [1..MaxRevision -> Nat]
  /\ faults \in 0..MaxFaults

\* README.md:820-838 of the crate: of all the clients that hold a revision, whatever they
\* do with it and however often they retry, at most one succeeds; the others conflict.
OneHeirPerRevision == \A r \in 1..MaxRevision : heirs[r] <= 1

\* A conditional write never brings back a key that was deleted or has expired since the
\* revision was read: only create and put do.  Of every step:
GoneStaysGone == \A k \in Key : ~Live(k) /\ Live(k)' => heirs' = heirs

\* README.md:633-646: the loop never publishes an older version over a newer one, however
\* many publishers run it at once.  Of every step:
VersionsClimb ==
  \A k \in Versioned : Live(k) /\ Live(k)' => entry[k].val <= entry'[k].val

-----------------------------------------------------------------------------
(* The inductive invariant *)

\* No revision is above the bucket's last, and no two keys share one.
Numbered ==
  /\ \A k \in Key : entry[k].rev <= revision
  /\ \A k, l \in Key : entry[k].rev = entry[l].rev /\ k # l => entry[k].rev = 0
  /\ \A c \in Client, k \in Key : held[c][k] <= revision

\* A revision that was written over is no entry's any more.
Consumed ==
  \A r \in 1..MaxRevision :
    /\ heirs[r] \in {0, 1}
    /\ heirs[r] = 1 => r <= revision /\ \A k \in Key : entry[k].rev # r

\* What a client may write over: a live entry, of a lower version if it has one.
Held ==
  \A c \in Client, k \in Key : held[c][k] # 0 =>
    /\ entry[k].rev = held[c][k] => Live(k)
    /\ k \in Versioned =>
         /\ goal[c][k] \in Version
         /\ entry[k].rev = held[c][k] => entry[k].val < goal[c][k]

\* A versioned key never holds a value that does not decode.
Readable == \A k \in Versioned : Live(k) => entry[k].val \in Version

Inv == TypeOK /\ Numbered /\ Consumed /\ Held /\ Readable
=============================================================================
