-------------------------- MODULE ComponentsProofs --------------------------
(***************************************************************************)
(* Proofs about the parts of ProvedComponents: the properties the run      *)
(* Components checks of them, as theorems of ProvedSpec.  Here are the     *)
(* parts that keep a service's buckets, watches, tables and snapshots;     *)
(* EdgeProofs and ContractsProofs have the others.                         *)
(*                                                                         *)
(* A behaviour is about one part for good, so the invariant of a part is   *)
(* kept by its own steps and says nothing of the others.                   *)
(***************************************************************************)
EXTENDS ProvedComponents, BackoffProofs, SequenceTheorems, FiniteSetTheorems, TLAPS

-----------------------------------------------------------------------------
(* KvStore: s1 revision; per key s2 entry; per client and key s3 held, s4 goal; s5 heirs, s6 faults. *)

LEMMA KvInvInit == ASSUME Kv!Bounds PROVE Kv!Init => Kv!Inv
<1> SUFFICES ASSUME Kv!Init
             PROVE  Kv!Inv
  OBVIOUS
<1>1. Kv!TypeOK
  BY DEF Kv!Bounds, Kv!Init, Kv!TypeOK, Kv!Value
<1>2. Kv!Numbered /\ Kv!Consumed /\ Kv!Held /\ Kv!Readable
  BY DEF Kv!Bounds, Kv!Init, Kv!Numbered, Kv!Consumed, Kv!Held, Kv!Readable, Kv!Live, Kv!Value
<1>3. QED
  BY <1>1, <1>2 DEF Kv!Inv

LEMMA KvNumbers ==
  ASSUME Kv!Bounds, Kv!Inv
  PROVE  /\ s1 \in Nat /\ \A k \in KvKeys : s2[k].rev \in Nat
         /\ \A c \in Actors, k \in KvKeys : s3[c][k] \in Nat
         /\ \A r \in 1..Revisions : r \in Nat
BY DEF Kv!Bounds, Kv!Inv, Kv!TypeOK

\* What an append leaves: an entry under a revision that was nobody's.
NewEntry(k, v) ==
  /\ s1' = s1 + 1 /\ s1' \in 0..Revisions
  /\ s2' \in [KvKeys -> [rev : 0..Revisions, val : Kv!Value \cup {Tombstone, Void},
                         ttl : BOOLEAN]]
  /\ s2'[k].rev = s1' /\ s2'[k].val = v
  /\ \A l \in KvKeys \ {k} : s2'[l] = s2[l]

LEMMA KvAppended ==
  ASSUME Kv!Bounds, Kv!Inv, NEW k \in KvKeys, NEW v \in Kv!Value \cup {Tombstone}, NEW ttl \in BOOLEAN,
         Kv!Append(k, v, ttl)
  PROVE  NewEntry(k, v)
BY DEF Kv!Bounds, Kv!Inv, Kv!TypeOK, Kv!Append, NewEntry

\* A write that looks at no revision: whoever holds one of the key is left with a stale one.
LEMMA KvUnconditional ==
  ASSUME Kv!Bounds, Kv!Inv, NEW k \in KvKeys, NEW v \in Kv!Value \cup {Tombstone}, NEW ttl \in BOOLEAN,
         Kv!Append(k, v, ttl), k \in Versioned => v \in Versions \cup {Tombstone},
         UNCHANGED <<s3, s4, s5, s6>>
  PROVE  Kv!Inv'
<1>0. NewEntry(k, v)
  BY KvAppended
<1>1. Kv!TypeOK'
  BY <1>0 DEF Kv!Inv, Kv!TypeOK, NewEntry
<1>2. Kv!Numbered'
  BY <1>0, KvNumbers DEF Kv!Inv, Kv!Numbered, NewEntry
<1>3. Kv!Consumed'
  BY <1>0, KvNumbers DEF Kv!Inv, Kv!Consumed, NewEntry
<1>4. Kv!Held'
  BY <1>0, KvNumbers DEF Kv!Inv, Kv!Numbered, Kv!Held, Kv!Live, NewEntry
<1>5. Kv!Readable'
  BY <1>0 DEF Kv!Bounds, Kv!Inv, Kv!TypeOK, Kv!Readable, Kv!Live, Kv!Value, NewEntry
<1>6. QED
  BY <1>1, <1>2, <1>3, <1>4, <1>5 DEF Kv!Inv

\* A write over the held revision consumes it: the entry had it, so nobody has before.
LEMMA KvConditional ==
  ASSUME Kv!Bounds, Kv!Inv, NEW c \in Actors, NEW k \in KvKeys, NEW v \in Kv!Value \cup {Tombstone},
         Kv!Matches(c, k), Kv!Append(k, v, FALSE), Kv!Inherit(c, k)
  PROVE  /\ s5' \in [1..Revisions -> Nat]
         /\ Kv!Consumed'
<1> DEFINE r == s3[c][k]
<1>0. NewEntry(k, v)
  BY KvAppended
<1>1. r \in 1..Revisions /\ s2[k].rev = r /\ r <= s1
  BY DEF Kv!Bounds, Kv!Inv, Kv!TypeOK, Kv!Numbered, Kv!Matches
<1>2. s5[r] = 0
  BY <1>1 DEF Kv!Inv, Kv!Consumed
<1>3. s5' = [s5 EXCEPT ![r] = 1]
  BY <1>1, <1>2 DEF Kv!Inherit, Kv!Inv, Kv!TypeOK
<1>4. \A l \in KvKeys : s2'[l].rev # r
  BY <1>0, <1>1, KvNumbers DEF Kv!Inv, Kv!Numbered, NewEntry
<1>5. Kv!Consumed'
  <2>1. SUFFICES ASSUME NEW q \in 1..Revisions
                 PROVE  /\ s5'[q] \in {0, 1}
                        /\ s5'[q] = 1 => q <= s1' /\ \A l \in KvKeys : s2'[l].rev # q
    BY DEF Kv!Consumed
  <2>2. CASE q = r
    BY <1>0, <1>1, <1>3, <1>4, <2>2, KvNumbers DEF Kv!Inv, Kv!TypeOK, NewEntry
  <2>3. CASE q # r
    <3>1. s5'[q] = s5[q]
      BY <1>1, <1>3, <2>3 DEF Kv!Inv, Kv!TypeOK
    <3>2. QED
      BY <1>0, <3>1, KvNumbers DEF Kv!Inv, Kv!Consumed, NewEntry
  <2>4. QED
    BY <2>2, <2>3
<1>6. QED
  BY <1>1, <1>3, <1>5 DEF Kv!Inv, Kv!TypeOK

\* What a client may offer over a versioned key is the version it wants.
LEMMA KvOfferedTyped ==
  ASSUME Kv!Bounds, Kv!Inv, NEW c \in Actors, NEW k \in KvKeys, Kv!Matches(c, k), NEW v \in Kv!Offered(c, k)
  PROVE  v \in Kv!Value /\ (k \in Versioned => v \in Versions /\ v = s4[c][k])
BY DEF Kv!Inv, Kv!Held, Kv!Matches, Kv!Offered, Kv!Value

LEMMA KvUpdateIfInv ==
  ASSUME Kv!Bounds, Kv!Inv, NEW c \in Actors, NEW k \in KvKeys, NEW v \in Kv!Value, NEW chained \in BOOLEAN,
         Kv!UpdateIf(c, k, v, chained)
  PROVE  Kv!Inv'
<1> USE DEF Kv!Bounds
<1>1. /\ Kv!Matches(c, k) /\ v \in Kv!Offered(c, k) /\ Kv!Append(k, v, FALSE) /\ Kv!Inherit(c, k)
      /\ Kv!Settled(c, k) /\ s6' = s6
  BY DEF Kv!UpdateIf
<1>0. NewEntry(k, v)
  BY <1>1, KvAppended
<1> DEFINE left == IF chained /\ k \notin Versioned THEN s1 + 1 ELSE 0
<1>2. s3' = [s3 EXCEPT ![c][k] = left]
  BY DEF Kv!UpdateIf, Kv!Hold
<1>3. s4' \in [Actors -> [Versioned -> Versions \cup {0}]]
  BY <1>1 DEF Kv!Settled, Kv!Inv, Kv!TypeOK
<1>4. \A d \in Actors, l \in Versioned : <<d, l>> # <<c, k>> => s4'[d][l] = s4[d][l]
  BY <1>1 DEF Kv!Settled, Kv!Inv, Kv!TypeOK
<1>5. left \in 0..Revisions /\ left <= s1'
  BY <1>0, <1>1 DEF Kv!Inv, Kv!TypeOK, NewEntry
<1> HIDE DEF left
<1>6. s3' \in [Actors -> [KvKeys -> 0..Revisions]] /\ s3'[c][k] = left
  BY <1>2, <1>5 DEF Kv!Inv, Kv!TypeOK
<1>7. \A d \in Actors, l \in KvKeys : <<d, l>> # <<c, k>> => s3'[d][l] = s3[d][l]
  BY <1>2 DEF Kv!Inv, Kv!TypeOK
<1>8. Kv!TypeOK'
  BY <1>0, <1>1, <1>3, <1>6, KvConditional DEF Kv!Inv, Kv!TypeOK, NewEntry
<1>9. Kv!Numbered'
  <2>1. \A l, m \in KvKeys : s2'[l].rev <= s1'
                          /\ (s2'[l].rev = s2'[m].rev /\ l # m => s2'[l].rev = 0)
    BY <1>0, KvNumbers DEF Kv!Inv, Kv!Numbered, NewEntry
  <2>2. \A d \in Actors, l \in KvKeys : s3'[d][l] = s3[d][l] \/ s3'[d][l] = left
    BY <1>6, <1>7
  <2>3. QED
    BY <1>0, <1>5, <2>1, <2>2, KvNumbers DEF Kv!Inv, Kv!Numbered, NewEntry
<1>10. Kv!Held'
  <2>1. SUFFICES ASSUME NEW d \in Actors, NEW l \in KvKeys, s3'[d][l] # 0
                 PROVE  /\ s2'[l].rev = s3'[d][l] => Kv!Live(l)'
                        /\ l \in Versioned =>
                             /\ s4'[d][l] \in Versions
                             /\ s2'[l].rev = s3'[d][l] => s2'[l].val < s4'[d][l]
    BY DEF Kv!Held
  <2>2. CASE d = c /\ l = k
    BY <1>0, <1>1, <1>6, <2>1, <2>2 DEF left, Kv!Live, NewEntry
  <2>3. CASE <<d, l>> # <<c, k>> /\ l = k
    BY <1>0, <1>1, <1>4, <1>7, <2>1, <2>3 DEF Kv!Inv, Kv!TypeOK, Kv!Numbered, Kv!Held, NewEntry
  <2>4. CASE l # k
    BY <1>0, <1>1, <1>4, <1>7, <2>1, <2>4 DEF Kv!Inv, Kv!Held, Kv!Live, NewEntry
  <2>5. QED
    BY <2>2, <2>3, <2>4
<1>11. Kv!Readable'
  BY <1>0, <1>1, KvOfferedTyped DEF Kv!Inv, Kv!TypeOK, Kv!Readable, Kv!Live, NewEntry
<1>12. QED
  BY <1>1, <1>8, <1>9, <1>10, <1>11, KvConditional DEF Kv!Inv

LEMMA KvDeleteIfInv ==
  ASSUME Kv!Bounds, Kv!Inv, NEW c \in Actors, NEW k \in KvKeys, Kv!DeleteIf(c, k)
  PROVE  Kv!Inv'
<1> USE DEF Kv!Bounds
<1>1. /\ Kv!Matches(c, k) /\ Kv!Append(k, Tombstone, FALSE) /\ Kv!Inherit(c, k) /\ Kv!Settled(c, k)
      /\ s6' = s6
  BY DEF Kv!DeleteIf
<1>0. NewEntry(k, Tombstone)
  BY <1>1, KvAppended
<1>2. s3' = [s3 EXCEPT ![c][k] = 0]
  BY DEF Kv!DeleteIf, Kv!Hold
<1>3. s4' \in [Actors -> [Versioned -> Versions \cup {0}]]
  BY <1>1 DEF Kv!Settled, Kv!Inv, Kv!TypeOK
<1>4. \A d \in Actors, l \in Versioned : <<d, l>> # <<c, k>> => s4'[d][l] = s4[d][l]
  BY <1>1 DEF Kv!Settled, Kv!Inv, Kv!TypeOK
<1>5. s3' \in [Actors -> [KvKeys -> 0..Revisions]] /\ s3'[c][k] = 0
  BY <1>2 DEF Kv!Inv, Kv!TypeOK
<1>6. \A d \in Actors, l \in KvKeys : <<d, l>> # <<c, k>> => s3'[d][l] = s3[d][l]
  BY <1>2 DEF Kv!Inv, Kv!TypeOK
<1>7. Kv!TypeOK'
  BY <1>0, <1>1, <1>3, <1>5, KvConditional DEF Kv!Inv, Kv!TypeOK, NewEntry
<1>8. Kv!Numbered'
  <2>1. \A l, m \in KvKeys : s2'[l].rev <= s1'
                          /\ (s2'[l].rev = s2'[m].rev /\ l # m => s2'[l].rev = 0)
    BY <1>0, KvNumbers DEF Kv!Inv, Kv!Numbered, NewEntry
  <2>2. \A d \in Actors, l \in KvKeys : s3'[d][l] = s3[d][l] \/ s3'[d][l] = 0
    BY <1>5, <1>6
  <2>3. QED
    BY <1>0, <2>1, <2>2, KvNumbers DEF Kv!Inv, Kv!Numbered, NewEntry
<1>9. Kv!Held'
  BY <1>0, <1>1, <1>4, <1>5, <1>6, KvNumbers DEF Kv!Inv, Kv!Numbered, Kv!Held, Kv!Live, NewEntry
<1>10. Kv!Readable'
  BY <1>0, <1>1 DEF Kv!Inv, Kv!TypeOK, Kv!Readable, Kv!Live, Kv!Value, NewEntry
<1>11. QED
  BY <1>1, <1>7, <1>8, <1>9, <1>10, KvConditional DEF Kv!Inv

LEMMA KvUpdateReplyLostInv ==
  ASSUME Kv!Bounds, Kv!Inv, NEW c \in Actors, NEW k \in KvKeys, NEW v \in Kv!Value, Kv!UpdateReplyLost(c, k, v)
  PROVE  Kv!Inv'
<1> USE DEF Kv!Bounds
<1>1. /\ Kv!Matches(c, k) /\ v \in Kv!Offered(c, k) /\ Kv!Append(k, v, FALSE) /\ Kv!Inherit(c, k)
      /\ s6 < Faults /\ s6' = s6 + 1 /\ UNCHANGED <<s3, s4>>
  BY DEF Kv!UpdateReplyLost
<1>0. NewEntry(k, v)
  BY <1>1, KvAppended
<1>2. s5' \in [1..Revisions -> Nat] /\ Kv!Consumed'
  BY <1>1, KvConditional
<1>3. Kv!TypeOK'
  BY <1>0, <1>1, <1>2 DEF Kv!Inv, Kv!TypeOK, NewEntry
<1>4. Kv!Numbered'
  BY <1>0, <1>1, KvNumbers DEF Kv!Inv, Kv!Numbered, NewEntry
<1>5. Kv!Held'
  BY <1>0, <1>1, KvNumbers DEF Kv!Inv, Kv!Numbered, Kv!Held, Kv!Live, NewEntry
<1>6. Kv!Readable'
  BY <1>0, <1>1, KvOfferedTyped DEF Kv!Inv, Kv!TypeOK, Kv!Readable, Kv!Live, NewEntry
<1>7. QED
  BY <1>2, <1>3, <1>4, <1>5, <1>6 DEF Kv!Inv

LEMMA KvExpireInv ==
  ASSUME Kv!Bounds, Kv!Inv, NEW k \in KvKeys, NEW marker \in BOOLEAN, Kv!Expire(k, marker)
  PROVE  Kv!Inv'
<1>1. CASE marker
  BY <1>1, KvUnconditional DEF Kv!Expire
<1>2. CASE ~marker
  <2>1. /\ s2' = [s2 EXCEPT ![k] = [rev |-> 0, val |-> Void, ttl |-> FALSE]]
        /\ UNCHANGED <<s1, s3, s4, s5, s6>>
    BY <1>2 DEF Kv!Expire
  <2>2. s2'[k] = [rev |-> 0, val |-> Void, ttl |-> FALSE] /\ \A l \in KvKeys \ {k} : s2'[l] = s2[l]
    BY <2>1 DEF Kv!Inv, Kv!TypeOK
  <2>3. Kv!TypeOK'
    BY <2>1 DEF Kv!Bounds, Kv!Inv, Kv!TypeOK
  <2>4. Kv!Numbered'
    BY <2>1, <2>2 DEF Kv!Bounds, Kv!Inv, Kv!TypeOK, Kv!Numbered
  <2>5. Kv!Consumed'
    BY <2>1, <2>2 DEF Kv!Inv, Kv!Consumed
  <2>6. Kv!Held'
    BY <2>1, <2>2 DEF Kv!Inv, Kv!Held, Kv!Live
  <2>7. Kv!Readable'
    BY <2>1, <2>2 DEF Kv!Bounds, Kv!Inv, Kv!Readable, Kv!Live, Kv!Value
  <2>8. QED
    BY <2>3, <2>4, <2>5, <2>6, <2>7 DEF Kv!Inv
<1>3. QED
  BY <1>1, <1>2

LEMMA KvReadInv ==
  ASSUME Kv!Bounds, Kv!Inv, NEW c \in Actors, NEW k \in KvKeys, Kv!Read(c, k)
  PROVE  Kv!Inv'
<1> USE DEF Kv!Bounds
<1>1. UNCHANGED <<s1, s2, s5, s6>>
  BY DEF Kv!Read
<1>2. CASE s2[k].val \in Versions /\ Kv!Newer(c, k)
  <2>1. s3' = [s3 EXCEPT ![c][k] = s2[k].rev] /\ s4' = s4
    BY <1>2 DEF Kv!Read, Kv!Hold
  <2>2. Kv!TypeOK'
    BY <1>1, <2>1 DEF Kv!Inv, Kv!TypeOK
  <2>3. Kv!Numbered' /\ Kv!Consumed' /\ Kv!Readable'
    BY <1>1, <2>1 DEF Kv!Inv, Kv!TypeOK, Kv!Numbered, Kv!Consumed, Kv!Readable, Kv!Live
  <2>4. k \in Versioned => s4[c][k] \in Versions /\ s2[k].val < s4[c][k]
    BY <1>2 DEF Kv!Read, Kv!Newer, Kv!Inv, Kv!TypeOK
  <2>5. Kv!Held'
    BY <1>1, <1>2, <2>1, <2>4 DEF Kv!Inv, Kv!TypeOK, Kv!Held, Kv!Live, Kv!Value
  <2>6. QED
    BY <2>2, <2>3, <2>5 DEF Kv!Inv
<1>3. CASE ~(s2[k].val \in Versions /\ Kv!Newer(c, k))
  <2>1. s3' = s3 /\ k \in Versioned /\ s4' = [s4 EXCEPT ![c][k] = 0] /\ s3[c][k] = 0
    BY <1>3 DEF Kv!Read
  <2>2. Kv!TypeOK'
    BY <1>1, <2>1 DEF Kv!Inv, Kv!TypeOK
  <2>3. Kv!Numbered' /\ Kv!Consumed' /\ Kv!Readable'
    BY <1>1, <2>1 DEF Kv!Inv, Kv!TypeOK, Kv!Numbered, Kv!Consumed, Kv!Readable, Kv!Live
  <2>4. Kv!Held'
    BY <1>1, <2>1 DEF Kv!Inv, Kv!TypeOK, Kv!Held, Kv!Live
  <2>5. QED
    BY <2>2, <2>3, <2>4 DEF Kv!Inv
<1>4. QED
  BY <1>2, <1>3

LEMMA KvWantInv ==
  ASSUME Kv!Bounds, Kv!Inv, NEW c \in Actors, NEW k \in Versioned, NEW v \in Versions, Kv!Want(c, k, v)
  PROVE  Kv!Inv'
<1> USE DEF Kv!Bounds
<1>1. /\ s4' = [s4 EXCEPT ![c][k] = v] /\ s3' = [s3 EXCEPT ![c][k] = 0]
      /\ UNCHANGED <<s1, s2, s5, s6>>
  BY DEF Kv!Want, Kv!Hold
<1>2. Kv!TypeOK'
  BY <1>1 DEF Kv!Inv, Kv!TypeOK
<1>3. Kv!Numbered' /\ Kv!Consumed' /\ Kv!Readable'
  BY <1>1 DEF Kv!Inv, Kv!TypeOK, Kv!Numbered, Kv!Consumed, Kv!Readable, Kv!Live
<1>4. Kv!Held'
  BY <1>1 DEF Kv!Inv, Kv!TypeOK, Kv!Held, Kv!Live
<1>5. QED
  BY <1>2, <1>3, <1>4 DEF Kv!Inv

LEMMA KvConflictInv ==
  ASSUME Kv!Bounds, Kv!Inv, NEW c \in Actors, NEW k \in KvKeys, Kv!Conflict(c, k)
  PROVE  Kv!Inv'
<1> USE DEF Kv!Bounds
<1>1. s3' = [s3 EXCEPT ![c][k] = 0] /\ UNCHANGED <<s1, s2, s4, s5, s6>>
  BY DEF Kv!Conflict, Kv!Hold
<1>2. Kv!TypeOK'
  BY <1>1 DEF Kv!Inv, Kv!TypeOK
<1>3. Kv!Numbered' /\ Kv!Consumed' /\ Kv!Readable'
  BY <1>1 DEF Kv!Inv, Kv!TypeOK, Kv!Numbered, Kv!Consumed, Kv!Readable, Kv!Live
<1>4. Kv!Held'
  BY <1>1 DEF Kv!Inv, Kv!TypeOK, Kv!Held, Kv!Live
<1>5. QED
  BY <1>2, <1>3, <1>4 DEF Kv!Inv

-----------------------------------------------------------------------------
LEMMA KvInvNext == ASSUME Kv!Bounds, Kv!Inv, [Kv!Next]_(Kv!vars) PROVE Kv!Inv'
<1>1. ASSUME NEW c \in Actors, NEW k \in KvKeys,
             NEW v \in IF k \in Versioned THEN Versions ELSE Kv!Value,
             Kv!Create(c, k, v) \/ Kv!CreateWithTtl(c, k, v)
      PROVE  Kv!Inv'
  BY <1>1, KvUnconditional DEF Kv!Create, Kv!CreateWithTtl, Kv!Value
<1>2. ASSUME NEW c \in Actors, NEW k \in KvKeys, NEW v \in Kv!Value, Kv!Put(c, k, v)
      PROVE  Kv!Inv'
  BY <1>2, KvUnconditional DEF Kv!Put
<1>3. ASSUME NEW c \in Actors, NEW k \in KvKeys, Kv!Delete(c, k)
      PROVE  Kv!Inv'
  BY <1>3, KvUnconditional DEF Kv!Delete
<1>4. CASE UNCHANGED Kv!vars
  BY <1>4 DEF Kv!vars, Kv!Inv, Kv!TypeOK, Kv!Numbered, Kv!Consumed, Kv!Held, Kv!Readable, Kv!Live
<1>5. QED
  BY <1>1, <1>2, <1>3, <1>4, KvUpdateIfInv, KvUpdateReplyLostInv, KvDeleteIfInv, KvExpireInv, KvReadInv,
     KvWantInv, KvConflictInv DEF Kv!Next

\* Of every step: a key that is gone comes back over no revision, for whoever holds the
\* revision of its entry holds a live one.
LEMMA KvGoneStep == ASSUME Kv!Bounds, Kv!Inv, [Kv!Next]_(Kv!vars) PROVE Kv!GoneStaysGone
<1> SUFFICES ASSUME NEW k \in KvKeys, ~Kv!Live(k), Kv!Live(k)'
             PROVE  s5' = s5
  BY DEF Kv!GoneStaysGone
<1>1. ASSUME NEW c \in Actors, NEW l \in KvKeys, NEW v \in Kv!Value \cup {Tombstone},
             Kv!Matches(c, l), Kv!Append(l, v, FALSE)
      PROVE  FALSE
  <2>0. NewEntry(l, v)
    BY <1>1, KvAppended
  <2>1. Kv!Live(l)
    BY <1>1 DEF Kv!Matches, Kv!Inv, Kv!Held
  <2>2. s2'[k] = s2[k]
    BY <2>0, <2>1 DEF NewEntry
  <2>3. QED
    BY <2>2 DEF Kv!Live
<1>2. QED
  BY <1>1, ZenonT(40) DEF Kv!Next, Kv!vars, Kv!Create, Kv!CreateWithTtl, Kv!Put, Kv!Delete, Kv!Expire, Kv!Want, Kv!Read, Kv!UpdateIf, Kv!DeleteIf,
              Kv!Conflict, Kv!UpdateReplyLost

\* Of every step: a version only grows; who writes over a live one has compared it with the
\* entry of the revision it sends.
LEMMA KvClimbStep == ASSUME Kv!Bounds, Kv!Inv, [Kv!Next]_(Kv!vars) PROVE Kv!VersionsClimb
<1> SUFFICES ASSUME NEW k \in Versioned, Kv!Live(k), Kv!Live(k)'
             PROVE  s2[k].val <= s2'[k].val
  BY DEF Kv!VersionsClimb
<1> USE DEF Kv!Bounds
<1>1. k \in KvKeys /\ s2[k].val \in Versions /\ s2[k].val \in Nat
  BY DEF Kv!Inv, Kv!Readable
<1>2. ASSUME NEW c \in Actors, NEW l \in KvKeys, NEW v \in Kv!Value \cup {Tombstone}, NEW ttl \in BOOLEAN,
             Kv!Append(l, v, ttl), ~Kv!Live(l) \/ l \notin Versioned \/ v = Tombstone
      PROVE  s2[k].val <= s2'[k].val
  <2>0. NewEntry(l, v)
    BY <1>2, KvAppended
  <2>1. QED
    BY <1>1, <1>2, <2>0 DEF Kv!Live, Kv!Value, NewEntry
<1>3. ASSUME NEW c \in Actors, NEW l \in KvKeys, NEW v \in Kv!Value,
             Kv!Matches(c, l), v \in Kv!Offered(c, l), Kv!Append(l, v, FALSE)
      PROVE  s2[k].val <= s2'[k].val
  <2>0. NewEntry(l, v)
    BY <1>3, KvAppended
  <2>1. CASE l = k
    <3>1. s2[k].val < s4[c][k] /\ v = s4[c][k] /\ v \in Versions
      BY <1>3, <2>1, KvOfferedTyped DEF Kv!Inv, Kv!Held, Kv!Matches
    <3>2. QED
      BY <1>1, <1>3, <2>1, <3>1, <2>0 DEF NewEntry
  <2>2. CASE l # k
    BY <1>1, <1>3, <2>2, <2>0 DEF NewEntry
  <2>3. QED
    BY <2>1, <2>2
<1>4. ASSUME NEW l \in KvKeys, NEW marker \in BOOLEAN, Kv!Expire(l, marker)
      PROVE  s2[k].val <= s2'[k].val
  <2>1. CASE marker
    <3>1. Kv!Append(l, Tombstone, FALSE)
      BY <1>4, <2>1 DEF Kv!Expire
    <3>2. NewEntry(l, Tombstone)
      BY <3>1, KvAppended
    <3>3. QED
      BY <1>1, <3>2 DEF Kv!Live, Kv!Value, NewEntry
  <2>2. CASE ~marker
    <3>1. s2' = [s2 EXCEPT ![l] = [rev |-> 0, val |-> Void, ttl |-> FALSE]]
      BY <1>4, <2>2 DEF Kv!Expire
    <3>2. l # k
      BY <3>1 DEF Kv!Inv, Kv!TypeOK, Kv!Live, Kv!Value
    <3>3. s2'[k] = s2[k]
      BY <1>1, <3>1, <3>2 DEF Kv!Inv, Kv!TypeOK
    <3>4. QED
      BY <1>1, <3>3
  <2>3. QED
    BY <2>1, <2>2
<1>5. CASE UNCHANGED s2
  BY <1>1, <1>5
<1>6. ASSUME NEW c \in Actors, NEW l \in KvKeys, NEW v \in Kv!Value,
             Kv!Create(c, l, v) \/ Kv!CreateWithTtl(c, l, v) \/ Kv!Put(c, l, v)
      PROVE  s2[k].val <= s2'[k].val
  BY <1>2, <1>6 DEF Kv!Create, Kv!CreateWithTtl, Kv!Put, Kv!AlreadyExists
<1>7. ASSUME NEW c \in Actors, NEW l \in KvKeys, Kv!Delete(c, l) \/ Kv!DeleteIf(c, l)
      PROVE  s2[k].val <= s2'[k].val
  BY <1>2, <1>7 DEF Kv!Delete, Kv!DeleteIf
<1>8. ASSUME NEW c \in Actors, NEW l \in KvKeys, NEW v \in Kv!Value, NEW chained \in BOOLEAN,
             Kv!UpdateIf(c, l, v, chained) \/ Kv!UpdateReplyLost(c, l, v)
      PROVE  s2[k].val <= s2'[k].val
  BY <1>3, <1>8 DEF Kv!UpdateIf, Kv!UpdateReplyLost
<1>9. QED
  BY <1>4, <1>5, <1>6, <1>7, <1>8 DEF Kv!Next, Kv!vars, Kv!Want, Kv!Read, Kv!Conflict, Kv!Value

KvInv == part = "kv" => Kv!Inv

LEMMA KvInit == ProvedInit => KvInv
<1> SUFFICES ASSUME ProvedInit, part = "kv" PROVE Kv!Inv
  BY DEF KvInv
<1>1. Kv!Init
  BY DEF ProvedInit
<1>2. QED
  BY <1>1, KvConstants, KvInvInit

LEMMA KvStep ==
  ASSUME [ProvedNext]_vars, part = "kv" \/ part' = "kv"
  PROVE  part = "kv" /\ [Kv!Next]_(Kv!vars)
BY DEF ProvedNext, vars, Kv!vars

LEMMA KvNext == KvInv /\ [ProvedNext]_vars => KvInv'
<1> SUFFICES ASSUME KvInv, [ProvedNext]_vars, part' = "kv" PROVE Kv!Inv'
  BY DEF KvInv
<1>1. Kv!Inv /\ [Kv!Next]_(Kv!vars)
  BY KvStep DEF KvInv
<1>2. QED
  BY <1>1, KvConstants, KvInvNext

\* Of all who hold a revision one succeeds, what is gone is not brought back by a conditional
\* write, and a version never goes back, for any clients and keys.
THEOREM RevisionsGuardCorrect == ProvedSpec => RevisionsGuard
<1>1. KvInv => (part = "kv" => Kv!TypeOK /\ Kv!OneHeirPerRevision)
  BY DEF KvInv, Kv!Inv, Kv!Consumed, Kv!OneHeirPerRevision
<1>2. KvInv /\ [ProvedNext]_vars => [part = "kv" => Kv!GoneStaysGone /\ Kv!VersionsClimb]_vars
  <2> SUFFICES ASSUME KvInv, [ProvedNext]_vars, part = "kv"
               PROVE  Kv!GoneStaysGone /\ Kv!VersionsClimb
    OBVIOUS
  <2>1. Kv!Inv /\ [Kv!Next]_(Kv!vars)
    BY KvStep DEF KvInv
  <2>2. QED
    BY <2>1, KvConstants, KvGoneStep, KvClimbStep
<1>3. ProvedSpec => [](part = "kv" => Kv!TypeOK /\ Kv!OneHeirPerRevision)
  BY KvInit, KvNext, <1>1, PTL DEF ProvedSpec
<1>4. ProvedSpec => [][part = "kv" => Kv!GoneStaysGone /\ Kv!VersionsClimb]_vars
  BY KvInit, KvNext, <1>2, PTL DEF ProvedSpec
<1>5. QED
  BY <1>3, <1>4, PTL DEF RevisionsGuard

-----------------------------------------------------------------------------
(* EphemeralWatch: s1 log; per key s2 stored; s3 present, s4 pc, s5 position, s6 observed,  *)
(* s7 health, s8 delay; per key s9 derived; s10 due, s11 missable, s12 idle, s13 faults.     *)

\* The watch sleeps by the schedule of Backoff.
LEMMA WatchPace ==
  /\ \A d, n : Watch!KeepsPace(d, n) <=> KeepsPace(d, n)
  /\ \A d : Watch!NextDelay(d) = NextDelay(d)
<1>1. Watch!Doubled = Doubled
  BY DEF Watch!Doubled, Doubled
<1>2. QED
  BY <1>1 DEF Watch!KeepsPace, KeepsPace, Watch!NextDelay, NextDelay

LEMMA WatchInvInit == Watch!Init => Watch!Inv
<1> SUFFICES ASSUME Watch!Init PROVE Watch!Inv
  OBVIOUS
<1>1. Watch!TypeOK
  <2>1. s1 \in Seq(Watch!Entry) /\ 0 \in 0..Len(s1)
    BY DEF Watch!Init
  <2>2. s3 \in BOOLEAN /\ s6 \in BOOLEAN
    BY DEF Watch!Init
  <2>3. QED
    BY <2>1, <2>2, DelayAssumption DEF Watch!Init, Watch!TypeOK
<1>2. /\ Watch!Stored /\ s10 \subseteq Watch!Named
      /\ \A k \in WatchedKeys : s9[k] = Void /\ Watch!Readable(k) = Void
  BY DEF Watch!Init, Watch!Stored, Watch!Readable
<1>3. QED
  BY <1>1, <1>2 DEF Watch!Inv, Watch!Accounted, Watch!Named

-----------------------------------------------------------------------------
(* The bucket *)

LEMMA WatchWriteKeeps ==
  ASSUME Watch!Inv, NEW k \in WatchedKeys, NEW v \in Legible \cup {Void}, Watch!Write(k, v)
  PROVE  Watch!Inv'
<1>1. /\ s1' = Append(s1, [key |-> k, val |-> v])
      /\ s2' = [s2 EXCEPT ![k] = Len(s1) + 1] /\ Watch!Unwatched(k)
      /\ UNCHANGED <<s3, s4, s5, s6, s7, s8, s12, s9, s10, s13>>
  BY DEF Watch!Write, Watch!watch
<1>2. /\ s1 \in Seq(Watch!Entry) /\ Len(s1) \in Nat /\ s5 \in 0..Len(s1)
      /\ s2 \in [WatchedKeys -> 0..Len(s1)] /\ s11 \subseteq WatchedKeys
  BY DEF Watch!Inv, Watch!TypeOK
<1>3. [key |-> k, val |-> v] \in Watch!Entry
  BY DEF Watch!Entry
<1>4. /\ s1' \in Seq(Watch!Entry) /\ Len(s1') = Len(s1) + 1 /\ s1'[Len(s1) + 1].key = k
      /\ \A n \in 1..Len(s1) : s1'[n] = s1[n]
  BY <1>1, <1>2, <1>3
<1>5. s11 \subseteq s11' /\ s11' \subseteq WatchedKeys /\ (s4 = "watching" \/ k \in s11')
  BY <1>1, <1>2 DEF Watch!Unwatched
<1>6. Watch!TypeOK'
  BY <1>1, <1>2, <1>4, <1>5 DEF Watch!Inv, Watch!TypeOK
<1>7. \A l \in WatchedKeys : l # k => s2'[l] = s2[l] /\ (s2[l] # 0 => s2[l] \in 1..Len(s1))
  BY <1>1, <1>2
<1>8. s2'[k] = Len(s1) + 1 /\ s2'[k] > s5 /\ s2'[k] # 0
  BY <1>1, <1>2
<1>9. Watch!Stored'
  BY <1>4, <1>7, <1>8 DEF Watch!Inv, Watch!Stored
<1>10. \A l \in WatchedKeys : l # k => Watch!Readable(l)' = Watch!Readable(l)
  BY <1>4, <1>7 DEF Watch!Readable
<1>11. ASSUME NEW l \in Watch!Named PROVE Watch!Accounted(l)'
  <2>1. l \in WatchedKeys /\ Watch!Accounted(l)
    BY DEF Watch!Inv, Watch!Named
  <2>2. CASE l = k
    BY <1>1, <1>5, <1>8, <2>2 DEF Watch!Accounted, Watch!Ahead
  <2>3. CASE l # k
    BY <1>1, <1>5, <1>7, <1>10, <2>1, <2>3 DEF Watch!Accounted, Watch!Ahead
  <2>4. QED
    BY <2>2, <2>3
<1>12. QED
  BY <1>1, <1>6, <1>9, <1>11 DEF Watch!Inv, Watch!Named

LEMMA WatchExpireKeeps ==
  ASSUME Watch!Inv, NEW k \in WatchedKeys, Watch!Expire(k)
  PROVE  Watch!Inv'
<1>1. /\ s2' = [s2 EXCEPT ![k] = 0] /\ s11' = s11 \cup {k}
      /\ UNCHANGED <<s1, s3, s4, s5, s6, s7, s8, s12, s9, s10, s13>>
  BY DEF Watch!Expire, Watch!watch
<1>2. s2 \in [WatchedKeys -> 0..Len(s1)] /\ Len(s1) \in Nat /\ Watch!TypeOK
  BY DEF Watch!Inv, Watch!TypeOK
<1>3. Watch!TypeOK' /\ Watch!Stored'
  BY <1>1, <1>2 DEF Watch!Inv, Watch!TypeOK, Watch!Stored
<1>4. \A l \in WatchedKeys : l # k => s2'[l] = s2[l] /\ Watch!Readable(l)' = Watch!Readable(l)
  BY <1>1, <1>2 DEF Watch!Readable
<1>5. \A l \in Watch!Named : Watch!Accounted(l)'
  BY <1>1, <1>4 DEF Watch!Inv, Watch!Accounted, Watch!Ahead, Watch!Named
<1>6. QED
  BY <1>1, <1>3, <1>5 DEF Watch!Inv, Watch!Named

-----------------------------------------------------------------------------
(* The loop *)

\* Whatever the loop does away from the watch, health only ever adds keys to read.
LEMMA WatchLoopKeeps ==
  ASSUME Watch!Inv, UNCHANGED <<s1, s2, s9>>, Watch!TypeOK', s11 \subseteq s11',
         s10' = s10 \/ s10' = Watch!Named, s4 # "watching"
  PROVE  Watch!Inv'
<1>1. /\ Watch!Stored' /\ s10' \subseteq Watch!Named
      /\ \A k \in WatchedKeys : Watch!Readable(k)' = Watch!Readable(k)
  BY DEF Watch!Inv, Watch!Stored, Watch!Readable
<1>2. \A k \in Watch!Named : Watch!Accounted(k)'
  BY <1>1 DEF Watch!Inv, Watch!Accounted, Watch!Ahead, Watch!Named
<1>3. QED
  BY <1>1, <1>2 DEF Watch!Inv, Watch!Named

LEMMA WatchProbeKeeps ==
  ASSUME Watch!Inv, Watch!Probe \/ Watch!ProbeFails
  PROVE  Watch!Inv'
<1>1. /\ UNCHANGED <<s1, s2, s3, s5, s6, s8, s12, s9, s11>>
      /\ s7' \in {"Healthy", "Degraded"} /\ (s10' = s10 \/ s10' = Watch!Named) /\ s13' \in Nat
      /\ s4 # "watching" /\ s4' \in {"opening", "pausing"}
  BY DEF Watch!Probe, Watch!ProbeFails, Watch!SetHealth, Watch!Fault, Watch!Inv, Watch!TypeOK
<1>2. Watch!TypeOK'
  BY <1>1 DEF Watch!Inv, Watch!TypeOK, Watch!Named
<1>3. QED
  BY <1>1, <1>2, WatchLoopKeeps

LEMMA WatchOpenKeeps ==
  ASSUME Watch!Inv, Watch!Open
  PROVE  Watch!Inv'
<1>1. /\ UNCHANGED <<s1, s2, s3, s7, s8, s12, s9, s10, s11, s13>>
      /\ s4 = "opening" /\ s4' = "watching" /\ s5' = Len(s1) /\ s6' = FALSE
  BY DEF Watch!Open, Watch!consumer
<1>2. s5' \in 0..Len(s1') /\ s6' \in BOOLEAN
  <2>1. Len(s1) \in Nat /\ s1' = s1
    BY <1>1 DEF Watch!Inv, Watch!TypeOK
  <2>2. Len(s1) \in 0..Len(s1') /\ s5' = Len(s1)
    BY <1>1, <2>1
  <2>3. s6' \in BOOLEAN
    BY <1>1
  <2>4. QED
    BY <2>2, <2>3
<1>3. Watch!TypeOK'
  BY <1>1, <1>2 DEF Watch!Inv, Watch!TypeOK
<1>4. QED
  BY <1>1, <1>3, WatchLoopKeeps

LEMMA WatchSleepKeeps ==
  ASSUME Watch!Inv, Watch!Sleep
  PROVE  Watch!Inv'
<1>1. /\ UNCHANGED <<s1, s2, s3, s5, s6, s7, s9, s10, s11, s13>>
      /\ s4 = "pausing" /\ s4' = "probing" /\ s8' = Watch!NextDelay(s8)
      /\ s12' = s12 \/ s12' = s12 + 1
  BY DEF Watch!Sleep, Watch!consumer
<1>2. s8 \in Nat /\ s12 \in Nat
  BY DEF Watch!Inv, Watch!TypeOK
<1>3. s8' \in Nat /\ s12' \in Nat
  BY <1>1, <1>2, DelayAssumption DEF Watch!NextDelay
<1>4. Watch!TypeOK'
  BY <1>1, <1>3 DEF Watch!Inv, Watch!TypeOK
<1>5. QED
  BY <1>1, <1>4, WatchLoopKeeps

LEMMA WatchFollowEndsKeeps ==
  ASSUME Watch!Inv, Watch!FollowEnds
  PROVE  Watch!Inv'
<1>1. /\ UNCHANGED <<s1, s2, s3, s9>> /\ s13' = s13 + 1
      /\ s8' \in {s8, InitialDelay} /\ s12' \in {s12, 0}
      /\ s7' = "Degraded" /\ (s10' = s10 \/ s10' = Watch!Named)
      /\ s4' = "pausing" /\ s6' = FALSE /\ s5' = 0
      /\ s11' = s11 \cup {s1[n].key : n \in (s5 + 1)..Len(s1)}
  BY DEF Watch!FollowEnds, Watch!Fault, Watch!SetHealth
<1>2. /\ s1 \in Seq(Watch!Entry) /\ Len(s1) \in Nat /\ s5 \in 0..Len(s1)
      /\ s2 \in [WatchedKeys -> 0..Len(s1)] /\ Watch!Stored
  BY DEF Watch!Inv, Watch!TypeOK
<1>3. ASSUME NEW n \in (s5 + 1)..Len(s1) PROVE s1[n].key \in WatchedKeys
  <2>1. n \in 1..Len(s1)
    BY <1>2
  <2>2. s1[n] \in Watch!Entry
    BY <1>2, <2>1
  <2>3. QED
    BY <2>2 DEF Watch!Entry
<1>4. Watch!TypeOK'
  <2>1. s11' \subseteq WatchedKeys /\ s10' \subseteq WatchedKeys
    BY <1>1, <1>3 DEF Watch!Inv, Watch!TypeOK, Watch!Named
  <2>2. s13' \in Nat /\ s8' \in Nat /\ s12' \in Nat
    BY <1>1, DelayAssumption DEF Watch!Inv, Watch!TypeOK
  <2>3. s5' \in 0..Len(s1)'
    BY <1>1, <1>2
  <2>4. QED
    BY <1>1, <2>1, <2>2, <2>3 DEF Watch!Inv, Watch!TypeOK
<1>5. /\ Watch!Stored' /\ s10' \subseteq Watch!Named
      /\ \A k \in WatchedKeys : Watch!Readable(k)' = Watch!Readable(k)
  BY <1>1 DEF Watch!Inv, Watch!Stored, Watch!Readable
<1>6. ASSUME NEW k \in WatchedKeys, s2[k] > s5 PROVE k \in s11'
  <2>1. s2[k] \in (s5 + 1)..Len(s1) /\ s2[k] # 0
    BY <1>2, <1>6
  <2>2. s1[s2[k]].key = k
    BY <1>2, <2>1 DEF Watch!Stored
  <2>3. QED
    BY <1>1, <2>1, <2>2
<1>7. \A k \in Watch!Named : Watch!Accounted(k)'
  BY <1>1, <1>5, <1>6 DEF Watch!Inv, Watch!Accounted, Watch!Ahead, Watch!Named
<1>8. QED
  BY <1>1, <1>4, <1>5, <1>7 DEF Watch!Inv, Watch!Named

LEMMA WatchDeliverKeeps ==
  ASSUME Watch!Inv, NEW n \in 1..Len(s1), Watch!Deliver(n)
  PROVE  Watch!Inv'
<1>1. /\ s4 = "watching" /\ Watch!NextEntry(n) /\ s5' = n /\ s6' = TRUE
      /\ UNCHANGED <<s1, s2, s3, s4, s7, s8, s12, s11, s13>>
  BY DEF Watch!Deliver, Watch!Change, Watch!Skip, Watch!Observed
<1>2. /\ s1 \in Seq(Watch!Entry) /\ Len(s1) \in Nat /\ n \in Nat /\ s5 \in 0..Len(s1)
      /\ s2 \in [WatchedKeys -> 0..Len(s1)] /\ Watch!Stored
  BY DEF Watch!Inv, Watch!TypeOK
<1>3. s1[n] \in Watch!Entry
  BY <1>2
<1>4. PICK k \in WatchedKeys : k = s1[n].key /\ s1[n].val \in Legible \cup {Void}
  BY <1>3 DEF Watch!Entry
<1>5. s2[k] = n /\ n # 0 /\ \A m \in (s5 + 1)..(n - 1) : s2[s1[m].key] # m
  BY <1>1, <1>4 DEF Watch!NextEntry
<1>6. /\ s9' \in [WatchedKeys -> Legible \cup {Void}] /\ (s10' = s10 \/ s10' = Watch!Named)
      /\ \A l \in WatchedKeys : l # k => s9'[l] = s9[l]
      /\ \A l \in WatchedKeys \ Watch!Named : s9'[l] = s9[l]
      /\ k \in Watch!Named => k \in s10' \/ s9'[k] = Watch!Readable(k)
  <2>1. CASE Watch!SkipReason(n) = "none"
    <3>1. s9' = [s9 EXCEPT ![k] = s1[n].val] /\ s10' = s10
      BY <1>4, <2>1 DEF Watch!Deliver, Watch!Change
    <3>2. k \in Watch!Named /\ (s1[n].val # Void => s1[n].val \notin Bad)
      BY <1>4, <2>1 DEF Watch!SkipReason, Watch!Named, Watch!Classify
    <3>3. Watch!Readable(k) = s1[n].val
      BY <1>5, <3>2 DEF Watch!Readable
    <3>4. QED
      BY <1>4, <3>1, <3>2, <3>3 DEF Watch!Inv, Watch!TypeOK
  <2>2. CASE Watch!SkipReason(n) # "none"
    BY <2>2 DEF Watch!Deliver, Watch!Skip, Watch!Inv, Watch!TypeOK
  <2>3. QED
    BY <2>1, <2>2
<1>7. Watch!TypeOK'
  BY <1>1, <1>6 DEF Watch!Inv, Watch!TypeOK, Watch!Named
<1>8. /\ Watch!Stored' /\ s10' \subseteq Watch!Named
      /\ \A l \in WatchedKeys : Watch!Readable(l)' = Watch!Readable(l)
  BY <1>1, <1>6 DEF Watch!Inv, Watch!Stored, Watch!Readable
<1>9. ASSUME NEW l \in WatchedKeys, l # k, s2[l] > s5 PROVE s2[l] > n
  <2>1. SUFFICES ASSUME ~(s2[l] > n) PROVE FALSE
    OBVIOUS
  <2>2. s2[l] # 0 /\ s1[s2[l]].key = l
    BY <1>2, <1>9 DEF Watch!Stored
  <2>3. s2[l] # n
    BY <1>4, <1>9, <2>2
  <2>4. s2[l] \in (s5 + 1)..(n - 1)
    BY <1>2, <1>9, <2>1, <2>3
  <2>5. QED
    BY <1>5, <2>2, <2>4
<1>10. ASSUME NEW l \in Watch!Named PROVE Watch!Accounted(l)'
  <2>1. l \in WatchedKeys /\ Watch!Accounted(l)
    BY DEF Watch!Inv, Watch!Named
  <2>2. CASE l = k
    BY <1>6, <1>8, <2>2 DEF Watch!Accounted
  <2>3. CASE l # k
    BY <1>1, <1>6, <1>8, <1>9, <2>1, <2>3 DEF Watch!Accounted, Watch!Ahead
  <2>4. QED
    BY <2>2, <2>3
<1>11. QED
  BY <1>6, <1>7, <1>8, <1>10 DEF Watch!Inv, Watch!Named

-----------------------------------------------------------------------------
(* The consumer *)

LEMMA WatchReReadKeeps ==
  ASSUME Watch!Inv, NEW k \in WatchedKeys, Watch!ReRead(k)
  PROVE  Watch!Inv'
<1>1. /\ k \in s10 /\ s9' = [s9 EXCEPT ![k] = Watch!Readable(k)]
      /\ s10' = s10 \ {k} /\ s11' = s11 \ {k}
      /\ UNCHANGED <<s1, s2, s3, s4, s5, s6, s7, s8, s12, s13>>
  BY DEF Watch!ReRead, Watch!watch
<1>2. /\ s1 \in Seq(Watch!Entry) /\ Len(s1) \in Nat /\ s2 \in [WatchedKeys -> 0..Len(s1)]
      /\ s9 \in [WatchedKeys -> Legible \cup {Void}] /\ k \in Watch!Named
  BY <1>1 DEF Watch!Inv, Watch!TypeOK
<1>3. Watch!Readable(k) \in Legible \cup {Void}
  <2>1. CASE s2[k] = 0
    BY <2>1 DEF Watch!Readable
  <2>2. CASE s2[k] # 0
    <3>1. s2[k] \in 1..Len(s1)
      BY <1>2, <2>2
    <3>2. s1[s2[k]] \in Watch!Entry
      BY <1>2, <3>1
    <3>3. QED
      BY <3>2 DEF Watch!Readable, Watch!Entry
  <2>3. QED
    BY <2>1, <2>2
<1>4. Watch!TypeOK'
  BY <1>1, <1>3 DEF Watch!Inv, Watch!TypeOK
<1>5. /\ Watch!Stored' /\ s10' \subseteq Watch!Named
      /\ \A l \in WatchedKeys : Watch!Readable(l)' = Watch!Readable(l)
  BY <1>1 DEF Watch!Inv, Watch!Stored, Watch!Readable
<1>6. \A l \in Watch!Named : Watch!Accounted(l)'
  BY <1>1, <1>2, <1>5 DEF Watch!Inv, Watch!Accounted, Watch!Ahead, Watch!Named
<1>7. \A l \in WatchedKeys \ Watch!Named : s9'[l] = Void
  BY <1>1, <1>2 DEF Watch!Inv
<1>8. QED
  BY <1>4, <1>5, <1>6, <1>7 DEF Watch!Inv, Watch!Named

LEMMA WatchInvNext == Watch!Inv /\ [Watch!Next]_(Watch!vars) => Watch!Inv'
<1> SUFFICES ASSUME Watch!Inv, [Watch!Next]_(Watch!vars) PROVE Watch!Inv'
  OBVIOUS
<1>1. CASE Watch!BucketGoes \/ Watch!BucketReturns
  <2>1. /\ UNCHANGED <<s1, s2, s4, s5, s6, s7, s8, s12, s9, s10, s11>>
        /\ s3' \in BOOLEAN /\ s13' \in Nat
    <3>1. s3 \in BOOLEAN /\ s13 \in Nat
      BY DEF Watch!Inv, Watch!TypeOK
    <3>2. CASE Watch!BucketGoes
      <4>1. s3' = FALSE /\ s13' = s13 + 1
        BY <3>2 DEF Watch!BucketGoes, Watch!Fault
      <4>2. s3' \in BOOLEAN
        BY <4>1
      <4>3. s13' \in Nat
        BY <3>1, <4>1
      <4>4. QED
        BY <3>2, <4>2, <4>3 DEF Watch!BucketGoes, Watch!watch, Watch!consumer
    <3>3. CASE Watch!BucketReturns
      BY <3>1, <3>3 DEF Watch!BucketReturns, Watch!watch, Watch!consumer
    <3>4. QED
      BY <1>1, <3>2, <3>3
  <2>2. QED
    BY <2>1
    DEF Watch!Inv, Watch!TypeOK, Watch!Stored, Watch!Accounted, Watch!Ahead, Watch!Readable,
        Watch!Named
<1>2. CASE UNCHANGED Watch!vars
  BY <1>2
  DEF Watch!vars, Watch!watch, Watch!consumer, Watch!Inv, Watch!TypeOK, Watch!Stored,
      Watch!Accounted, Watch!Ahead, Watch!Readable, Watch!Named
<1>3. QED
  BY <1>1, <1>2, WatchWriteKeeps, WatchExpireKeeps, WatchProbeKeeps, WatchOpenKeeps,
     WatchSleepKeeps, WatchFollowEndsKeeps,
     WatchDeliverKeeps, WatchReReadKeeps
  DEF Watch!Next

-----------------------------------------------------------------------------
(* What the watcher promises *)

\* A watch that has nothing to deliver is past the entry of every key: the first one ahead of
\* it would be the next.
LEMMA WatchNothingAhead ==
  ASSUME Watch!Inv, s4 = "watching", \A n \in 1..Len(s1) : ~Watch!NextEntry(n)
  PROVE  \A k \in WatchedKeys : ~Watch!Ahead(k)
<1> DEFINE T == {n \in Nat : n > s5 /\ \E k \in WatchedKeys : s2[k] = n}
<1>1. SUFFICES ASSUME NEW k \in WatchedKeys, Watch!Ahead(k) PROVE FALSE
  OBVIOUS
<1>2. /\ Len(s1) \in Nat /\ s5 \in 0..Len(s1) /\ s2 \in [WatchedKeys -> 0..Len(s1)]
      /\ Watch!Stored /\ s1 \in Seq(Watch!Entry)
  BY DEF Watch!Inv, Watch!TypeOK
<1>3. s2[k] \in T
  BY <1>1, <1>2 DEF Watch!Ahead
<1> HIDE DEF T
<1>4. PICK n \in T : \A m \in T : n <= m
  <2>1. T \in SUBSET Nat
    BY DEF T
  <2>2. QED
    BY <1>3, <2>1, LeastNat
<1>5. PICK l \in WatchedKeys : s2[l] = n
  BY <1>4 DEF T
<1>6. n > s5 /\ n \in 1..Len(s1) /\ s1[n].key = l
  BY <1>2, <1>4, <1>5 DEF T, Watch!Stored
<1>7. ASSUME NEW m \in (s5 + 1)..(n - 1), s2[s1[m].key] = m PROVE FALSE
  <2>1. m \in 1..Len(s1) /\ m \in Nat /\ m > s5 /\ m < n
    BY <1>2, <1>6, <1>7
  <2>2. s1[m].key \in WatchedKeys
    <3>1. s1[m] \in Watch!Entry
      BY <1>2, <2>1
    <3>2. QED
      BY <3>1 DEF Watch!Entry
  <2>3. m \in T
    BY <1>7, <2>1, <2>2 DEF T
  <2>4. QED
    BY <1>4, <1>6, <2>1, <2>3
<1>8. QED
  BY <1>5, <1>6, <1>7 DEF Watch!NextEntry

\* README.md:996-1005 of the crate: a consumer that re-reads on both signals agrees with the
\* bucket up to the gap before a watch, with any number of keys, writes and failures.
LEMMA WatchInvGap == Watch!Inv => Watch!DerivedUpToTheGap
BY WatchNothingAhead
DEF Watch!Inv, Watch!DerivedUpToTheGap, Watch!CaughtUp, Watch!Accounted, Watch!Named

LEMMA WatchPaceInit == Watch!Init => Watch!FlappingBacksOff
BY PaceStarts, WatchPace DEF Watch!Init, Watch!FlappingBacksOff

\* An attempt that observed nothing never resets the backoff.
LEMMA WatchPaceNext ==
  Watch!Inv /\ Watch!FlappingBacksOff /\ [Watch!Next]_(Watch!vars) => Watch!FlappingBacksOff'
<1> SUFFICES ASSUME Watch!Inv, Watch!FlappingBacksOff, [Watch!Next]_(Watch!vars)
             PROVE  Watch!FlappingBacksOff'
  OBVIOUS
<1>1. CASE UNCHANGED <<s8, s12>>
  BY <1>1 DEF Watch!FlappingBacksOff
<1>2. CASE s8' = InitialDelay /\ s12' = 0
  BY <1>2, PaceStarts, WatchPace DEF Watch!FlappingBacksOff
<1>3. CASE Watch!Sleep
  <2>1. s8' = Watch!NextDelay(s8) /\ (s12' = s12 \/ s12' = s12 + 1)
    BY <1>3 DEF Watch!Sleep
  <2>2. s8 \in Nat /\ s12 \in Nat /\ s12' \in Nat
    BY <2>1 DEF Watch!Inv, Watch!TypeOK
  <2>3. QED
    BY <2>1, <2>2, PaceKept, WatchPace DEF Watch!FlappingBacksOff
<1>4. CASE Watch!FollowEnds
  BY <1>1, <1>2, <1>4 DEF Watch!FollowEnds
<1>5. CASE Watch!Probe \/ Watch!ProbeFails \/ Watch!Open \/ Watch!BucketGoes \/ Watch!BucketReturns
          \/ UNCHANGED Watch!vars
  BY <1>1, <1>5
  DEF Watch!Probe, Watch!ProbeFails, Watch!Open, Watch!BucketGoes, Watch!BucketReturns,
      Watch!vars, Watch!watch
<1>6. ASSUME NEW k \in WatchedKeys, NEW v \in Legible \cup {Void},
             Watch!Expire(k) \/ Watch!ReRead(k) \/ Watch!Write(k, v)
      PROVE  Watch!FlappingBacksOff'
  BY <1>1, <1>6 DEF Watch!Expire, Watch!ReRead, Watch!Write, Watch!watch
<1>7. ASSUME NEW n \in 1..Len(s1), Watch!Deliver(n)
      PROVE  Watch!FlappingBacksOff'
  BY <1>1, <1>7 DEF Watch!Deliver
<1>8. QED
  BY <1>3, <1>4, <1>5, <1>6, <1>7 DEF Watch!Next

WatchInv == part = "watch" => Watch!Inv /\ Watch!FlappingBacksOff

LEMMA WatchInit == ProvedInit => WatchInv
<1> SUFFICES ASSUME ProvedInit, part = "watch" PROVE Watch!Inv /\ Watch!FlappingBacksOff
  BY DEF WatchInv
<1>1. Watch!Init
  BY DEF ProvedInit
<1>2. QED
  BY <1>1, DelayAssumption, WatchInvInit, WatchPaceInit

LEMMA WatchNext == WatchInv /\ [ProvedNext]_vars => WatchInv'
<1> SUFFICES ASSUME WatchInv, [ProvedNext]_vars, part' = "watch"
             PROVE  Watch!Inv' /\ Watch!FlappingBacksOff'
  BY DEF WatchInv
<1>1. part = "watch" /\ [Watch!Next]_(Watch!vars)
  BY DEF ProvedNext, vars, Watch!vars, Watch!watch, Watch!consumer
<1>2. Watch!Inv /\ Watch!FlappingBacksOff
  BY <1>1 DEF WatchInv
<1>3. QED
  BY <1>1, <1>2, DelayAssumption, WatchInvNext, WatchPaceNext

\* A consumer that re-reads what it is told about misses a change only in the gap before a
\* watch, and a watch that flaps backs off, for any keys, values and delays.
THEOREM DerivedCorrect == ProvedSpec => []DerivedUpToTheGap
<1>1. WatchInv => DerivedUpToTheGap
  <2> SUFFICES ASSUME Watch!Inv, Watch!FlappingBacksOff
               PROVE  Watch!TypeOK /\ Watch!DerivedUpToTheGap /\ Watch!FlappingBacksOff
    BY DEF WatchInv, DerivedUpToTheGap
  <2>1. Watch!TypeOK
    BY DEF Watch!Inv
  <2>2. QED
    BY <2>1, DelayAssumption, WatchInvGap
<1>2. QED
  BY WatchInit, WatchNext, <1>1, PTL DEF ProvedSpec

-----------------------------------------------------------------------------
(* ProjectorHealth, one watch() at a time: s1 generation; per generation s2 streams;        *)
(* s3 channel; per watch s4 stage, s5 guard, s6 binding, s7 following, s8 composed.         *)

HealthInv == part = "health" => Health!TypeOK /\ Health!Composed

LEMMA Worst == \A f : Health!WorstOf(f) \in Health!Health
BY DEF Health!WorstOf, Health!Health

LEMMA HealthInit == ProvedInit => HealthInv
<1> SUFFICES ASSUME ProvedInit, part = "health" PROVE Health!TypeOK /\ Health!Composed
  BY DEF HealthInv
<1>1. Health!Init
  BY DEF ProvedInit
<1>2. Health!TypeOK
  BY <1>1, HealthConstants DEF Health!Init, Health!TypeOK, Health!Health
<1>3. Health!Composed
  BY <1>1 DEF Health!Init, Health!Composed, Health!WorstOf, Health!Active
<1>4. QED
  BY <1>2, <1>3

LEMMA SendKeeps ==
  ASSUME Health!TypeOK, Health!Composed, NEW t \in Actors, Health!Send(t)
  PROVE  Health!TypeOK' /\ Health!Composed'
<1>1. /\ s8[t] # "none" /\ s3' = s8[t] /\ s8' = [s8 EXCEPT ![t] = "none"]
      /\ s4' = [s4 EXCEPT ![t] = IF @ = "dropped" THEN "idle" ELSE @]
      /\ UNCHANGED <<s1, s2, s5, s6, s7>>
  BY DEF Health!Send
<1>2. Health!TypeOK'
  BY <1>1 DEF Health!TypeOK
<1>3. s3' = Health!WorstOf(s2)
  BY <1>1 DEF Health!Composed
<1>4. \A u \in Actors : u # t => s4[u] = "idle"
  BY <1>1 DEF Health!Composed
<1>5. QED
  BY <1>1, <1>2, <1>3, <1>4
  DEF Health!Composed, Health!InFlight, Health!TypeOK, Health!Active, Health!WorstOf, Health!Quiet

\* The locked half of mutate: what is composed waits to be sent.
LEMMA MutateKeeps ==
  ASSUME Health!TypeOK, Health!Composed, NEW t \in Actors, NEW f \in [Streams -> Health!Health \cup {"none"}],
         Health!Mutate(t, f),
         s4'[t] # "idle", \A u \in Actors : u # t => s4'[u] = "idle" /\ s8[u] = "none"
  PROVE  /\ s2' \in [Streams -> Health!Health \cup {"none"}] /\ s3' \in Health!Health
         /\ s8' \in [Actors -> Health!Health \cup {"none"}]
         /\ s2' = f /\ s8'[t] # "none"
         /\ \A u \in Actors : s8'[u] # "none" => s4'[u] # "idle" /\ s8'[u] = Health!WorstOf(s2')
         /\ ~Health!Quiet'
<1>1. /\ s2' = f /\ s8' = [s8 EXCEPT ![t] = Health!WorstOf(f)] /\ UNCHANGED s3
  BY DEF Health!Mutate
<1>2. Health!WorstOf(f) \in Health!Health /\ Health!WorstOf(f) # "none"
  BY Worst DEF Health!Health
<1>3. QED
  BY <1>1, <1>2 DEF Health!TypeOK, Health!Quiet

LEMMA ActivateKeeps ==
  ASSUME Health!TypeOK, Health!Composed, NEW t \in Actors, NEW active \in SUBSET Streams,
         Health!Activate(t, active)
  PROVE  Health!TypeOK' /\ Health!Composed'
<1> DEFINE f == [s \in Streams |-> IF s \in active THEN "Degraded" ELSE "none"]
<1>1. /\ \A u \in Actors : s4[u] = "idle"
      /\ s1 < Watches /\ s1' = s1 + 1 /\ s5' = [s5 EXCEPT ![t] = s1 + 1]
      /\ Health!Mutate(t, f) /\ s4' = [s4 EXCEPT ![t] = "watching"]
      /\ s6' = [s6 EXCEPT ![t] = active] /\ UNCHANGED s7
  BY DEF Health!Activate
<1>2. f \in [Streams -> Health!Health \cup {"none"}]
  BY DEF Health!Health
<1>3. s4'[t] = "watching" /\ \A u \in Actors : u # t => s4'[u] = "idle" /\ s8[u] = "none"
  BY <1>1 DEF Health!TypeOK, Health!Composed
<1> HIDE DEF f
<1>4. /\ s2' \in [Streams -> Health!Health \cup {"none"}] /\ s3' \in Health!Health
      /\ s8' \in [Actors -> Health!Health \cup {"none"}] /\ s2' = f
      /\ \A u \in Actors : s8'[u] # "none" => s4'[u] # "idle" /\ s8'[u] = Health!WorstOf(s2')
      /\ ~Health!Quiet'
  BY <1>1, <1>2, <1>3, MutateKeeps
<1>5. s1 \in 0..Watches /\ s1 + 1 \in 0..Watches
  BY <1>1, HealthConstants DEF Health!TypeOK
<1>6. Health!TypeOK'
  BY <1>1, <1>4, <1>5 DEF Health!TypeOK
<1>7. Health!InFlight(t)'
  <2>1. s6'[t] = active /\ s7'[t] = {}
    BY <1>1 DEF Health!TypeOK, Health!Composed
  <2>2. /\ \A s \in Streams : s2'[s] # "Healthy"
        /\ \A s \in active : s2'[s] = "Degraded"
        /\ active \subseteq Health!Active(s2)'
    BY <1>4 DEF f, Health!Active
  <2>3. QED
    BY <2>1, <2>2 DEF Health!InFlight
<1>8. /\ \A u \in Actors : s4'[u] # "watching" => s6'[u] = {} /\ s7'[u] = {}
      /\ s5'[t] = s1'
  BY <1>1, <1>3 DEF Health!TypeOK, Health!Composed
<1>9. /\ \A u, v \in Actors : s4'[u] # "idle" /\ s4'[v] # "idle" => u = v
      /\ \A u \in Actors : s4'[u] # "idle" => u = t
  BY <1>3
<1>10. /\ \A u \in Actors : s4'[u] # "dropped"
       /\ ~(\A u \in Actors : s4'[u] # "watching")
       /\ \A u \in Actors : s4'[u] = "watching" => s5'[u] = s1' /\ Health!InFlight(u)'
  <2>1. ASSUME NEW u \in Actors, s4'[u] # "idle" PROVE u = t
    BY <1>9, <2>1
  <2>2. QED
    BY <1>3, <1>7, <1>8, <2>1
<1>11. QED
  BY <1>4, <1>6, <1>8, <1>9, <1>10 DEF Health!Composed

\* set: a stream of the activation turns Healthy or Degraded.
LEMMA BoundKeeps ==
  ASSUME Health!TypeOK, Health!Composed, NEW t \in Actors, NEW s \in Streams, Health!Bound(t, s)
  PROVE  Health!TypeOK' /\ Health!Composed'
<1> DEFINE f == [s2 EXCEPT ![s] = "Healthy"]
<1>1. /\ s4[t] = "watching" /\ s \in s6[t] /\ UNCHANGED <<s1, s4, s5>>
      /\ s6' = [s6 EXCEPT ![t] = @ \ {s}] /\ s7' = [s7 EXCEPT ![t] = @ \cup {s}]
  BY DEF Health!Bound
<1>2. Health!InFlight(t) /\ s5[t] = s1 /\ \A u \in Actors : u # t => s4[u] = "idle" /\ s8[u] = "none"
  BY <1>1 DEF Health!Composed
<1>3. s2[s] = "Degraded"
  BY <1>1, <1>2 DEF Health!InFlight
<1>4. Health!Mutate(t, f) /\ f \in [Streams -> Health!Health \cup {"none"}]
  BY <1>3 DEF Health!Bound, Health!Set, Health!TypeOK, Health!Health
<1> HIDE DEF f
<1>5. /\ s2' \in [Streams -> Health!Health \cup {"none"}] /\ s3' \in Health!Health
      /\ s8' \in [Actors -> Health!Health \cup {"none"}] /\ s2' = f
      /\ \A u \in Actors : s8'[u] # "none" => s4'[u] # "idle" /\ s8'[u] = Health!WorstOf(s2')
      /\ ~Health!Quiet'
  BY <1>1, <1>2, <1>4, MutateKeeps
<1>6. Health!TypeOK'
  BY <1>1, <1>5 DEF Health!TypeOK
<1>7. Health!InFlight(t)'
  <2>1. s6'[t] = s6[t] \ {s} /\ s7'[t] = s7[t] \cup {s}
    BY <1>1 DEF Health!TypeOK
  <2>2. \A r \in Streams : s2'[r] = IF r = s THEN "Healthy" ELSE s2[r]
    BY <1>5 DEF f, Health!TypeOK
  <2>3. /\ s6[t] \cup s7[t] \subseteq Health!Active(s2)
        /\ \A r \in s6[t] : s2[r] = "Degraded"
        /\ \A r \in Streams : s2[r] = "Healthy" => r \in s7[t]
    BY <1>1, <1>2 DEF Health!InFlight
  <2>4. s6[t] \subseteq Streams
    BY DEF Health!TypeOK
  <2>5. Health!Active(s2)' = Health!Active(s2)
    BY <1>3, <2>2 DEF Health!Active
  <2>6. s6'[t] \cup s7'[t] \subseteq Health!Active(s2)'
    BY <1>1, <2>1, <2>3, <2>5
  <2>7. \A r \in s6'[t] : s2'[r] = "Degraded"
    BY <2>1, <2>2, <2>3, <2>4
  <2>8. \A r \in Streams : s2'[r] = "Healthy" => r \in s7'[t]
    BY <2>1, <2>2, <2>3
  <2>9. QED
    BY <2>6, <2>7, <2>8 DEF Health!InFlight
<1>8. \A u \in Actors : s4'[u] # "watching" => s6'[u] = {} /\ s7'[u] = {}
  BY <1>1 DEF Health!TypeOK, Health!Composed
<1>9. QED
  BY <1>1, <1>2, <1>5, <1>6, <1>7, <1>8 DEF Health!Composed

LEMMA ReturnedKeeps ==
  ASSUME Health!TypeOK, Health!Composed, NEW t \in Actors, NEW s \in Streams, NEW failed \in BOOLEAN,
         Health!Returned(t, s, failed)
  PROVE  Health!TypeOK' /\ Health!Composed'
<1> DEFINE f == [s2 EXCEPT ![s] = "Degraded"]
<1>1. /\ s4[t] = "watching" /\ s \in s7[t] /\ UNCHANGED <<s1, s4, s5>>
      /\ s7' = [s7 EXCEPT ![t] = IF failed THEN {} ELSE @ \ {s}]
      /\ s6' = [s6 EXCEPT ![t] = IF failed THEN {} ELSE @]
  BY DEF Health!Returned
<1>2. Health!InFlight(t) /\ s5[t] = s1 /\ \A u \in Actors : u # t => s4[u] = "idle" /\ s8[u] = "none"
  BY <1>1 DEF Health!Composed
<1>3. s2[s] # "none"
  BY <1>1, <1>2 DEF Health!InFlight, Health!Active
<1>4. Health!Mutate(t, f) /\ f \in [Streams -> Health!Health \cup {"none"}]
  BY <1>3 DEF Health!Returned, Health!Set, Health!TypeOK, Health!Health
<1> HIDE DEF f
<1>5. /\ s2' \in [Streams -> Health!Health \cup {"none"}] /\ s3' \in Health!Health
      /\ s8' \in [Actors -> Health!Health \cup {"none"}] /\ s2' = f
      /\ \A u \in Actors : s8'[u] # "none" => s4'[u] # "idle" /\ s8'[u] = Health!WorstOf(s2')
      /\ ~Health!Quiet'
  BY <1>1, <1>2, <1>4, MutateKeeps
<1>6. Health!TypeOK'
  BY <1>1, <1>5 DEF Health!TypeOK
<1>7. Health!InFlight(t)'
  <2>1. \/ s6'[t] = {} /\ s7'[t] = {}
        \/ s6'[t] = s6[t] /\ s7'[t] = s7[t] \ {s}
    BY <1>1 DEF Health!TypeOK
  <2>2. \A r \in Streams : s2'[r] = IF r = s THEN "Degraded" ELSE s2[r]
    BY <1>5 DEF f, Health!TypeOK
  <2>3. /\ s6[t] \cup s7[t] \subseteq Health!Active(s2)
        /\ \A r \in s6[t] : s2[r] = "Degraded"
        /\ \A r \in Streams : s2[r] = "Healthy" => r \in s7[t]
    BY <1>1, <1>2 DEF Health!InFlight
  <2>4. s6[t] \subseteq Streams
    BY DEF Health!TypeOK
  <2>5. Health!Active(s2)' = Health!Active(s2)
    BY <1>3, <2>2 DEF Health!Active
  <2>6. QED
    BY <2>1, <2>2, <2>3, <2>4, <2>5 DEF Health!InFlight
<1>8. \A u \in Actors : s4'[u] # "watching" => s6'[u] = {} /\ s7'[u] = {}
  BY <1>1 DEF Health!TypeOK, Health!Composed
<1>9. QED
  BY <1>1, <1>2, <1>5, <1>6, <1>7, <1>8 DEF Health!Composed

\* A dropped watch() carries the current generation, so its streams go.
LEMMA DroppedKeeps ==
  ASSUME Health!TypeOK, Health!Composed, NEW t \in Actors, Health!Dropped(t)
  PROVE  Health!TypeOK' /\ Health!Composed'
<1> DEFINE f == [s \in Streams |-> "none"]
<1>1. /\ s4[t] = "watching" /\ UNCHANGED <<s1, s5>> /\ s4' = [s4 EXCEPT ![t] = "dropped"]
      /\ s6' = [s6 EXCEPT ![t] = {}] /\ s7' = [s7 EXCEPT ![t] = {}]
  BY DEF Health!Dropped
<1>2. s5[t] = s1 /\ \A u \in Actors : u # t => s4[u] = "idle" /\ s8[u] = "none"
  BY <1>1 DEF Health!Composed
<1>3. Health!Mutate(t, f) /\ f \in [Streams -> Health!Health \cup {"none"}]
  BY <1>2 DEF Health!Dropped, Health!Deactivate
<1>4. s4'[t] = "dropped" /\ \A u \in Actors : u # t => s4'[u] = "idle"
  BY <1>1, <1>2 DEF Health!TypeOK
<1> HIDE DEF f
<1>5. /\ s2' \in [Streams -> Health!Health \cup {"none"}] /\ s3' \in Health!Health
      /\ s8' \in [Actors -> Health!Health \cup {"none"}] /\ s2' = f /\ s8'[t] # "none"
      /\ \A u \in Actors : s8'[u] # "none" => s4'[u] # "idle" /\ s8'[u] = Health!WorstOf(s2')
      /\ ~Health!Quiet'
  BY <1>2, <1>3, <1>4, MutateKeeps
<1>6. Health!TypeOK'
  BY <1>1, <1>5 DEF Health!TypeOK
<1>7. /\ \A u \in Actors : s4'[u] # "watching" => s6'[u] = {} /\ s7'[u] = {}
      /\ \A s \in Streams : s2'[s] = "none"
  BY <1>1, <1>5 DEF f, Health!TypeOK, Health!Composed
<1>8. QED
  BY <1>4, <1>5, <1>6, <1>7 DEF Health!Composed

LEMMA HealthNext == HealthInv /\ [ProvedNext]_vars => HealthInv'
<1> SUFFICES ASSUME HealthInv, [ProvedNext]_vars, part' = "health" PROVE Health!TypeOK' /\ Health!Composed'
  BY DEF HealthInv
<1>1. part = "health" /\ [Health!Next]_(Health!pvars)
  BY DEF ProvedNext, vars, Health!pvars
<1>2. Health!TypeOK /\ Health!Composed
  BY <1>1 DEF HealthInv
<1>3. CASE Health!Next
  BY <1>2, <1>3, SendKeeps, ActivateKeeps, BoundKeeps, ReturnedKeeps, DroppedKeeps DEF Health!Next
<1>4. CASE UNCHANGED Health!pvars
  BY <1>2, <1>4
  DEF Health!pvars, Health!TypeOK, Health!Composed, Health!InFlight, Health!Active,
      Health!WorstOf, Health!Quiet
<1>5. QED
  BY <1>1, <1>3, <1>4

\* Between two changes, Healthy means that a watch() runs with every one of its streams bound
\* and in flight: for any tasks and streams, one watch() at a time.
THEOREM HealthyCorrect == ProvedSpec => []HealthyMeansInFlight
<1>1. HealthInv => HealthyMeansInFlight
  <2> SUFFICES ASSUME Health!TypeOK, Health!Composed, Health!Quiet, s3 = "Healthy"
               PROVE  \E t \in Actors : s4[t] = "watching" /\ s6[t] = {} /\ s7[t] = Health!Active(s2)
    BY DEF HealthInv, HealthyMeansInFlight, Health!HealthyMeansInFlight
  <2>1. Health!Active(s2) # {} /\ \A s \in Health!Active(s2) : s2[s] = "Healthy"
    BY DEF Health!Composed, Health!WorstOf
  <2>2. PICK t \in Actors : s4[t] = "watching" /\ Health!InFlight(t)
    BY <2>1 DEF Health!Composed, Health!Active
  <2>3. \A s \in Streams : s2[s] # "Degraded"
    BY <2>1 DEF Health!Active
  <2>4. s6[t] \subseteq Streams
    BY DEF Health!TypeOK
  <2>5. s6[t] = {} /\ s7[t] = Health!Active(s2)
    BY <2>1, <2>2, <2>3, <2>4 DEF Health!InFlight, Health!Active
  <2>6. QED
    BY <2>2, <2>5
<1>2. QED
  BY HealthInit, HealthNext, <1>1, PTL DEF ProvedSpec

-----------------------------------------------------------------------------
(* PostCommitBroadcast: per command s1 phase, s2 pending, s3 sent, s4 report; s5 channel,  *)
(* s6 audience; per subscriber s7 since, s8 position, s9 heard, s10 lagged.                *)

BroadcastInv ==
  part = "broadcast" =>
    Broadcast!Typed /\ Broadcast!Batches /\ Broadcast!Sends /\ Broadcast!Hearing

LEMMA BroadcastInit == ProvedInit => BroadcastInv
<1> SUFFICES ASSUME ProvedInit, part = "broadcast"
             PROVE  Broadcast!Typed /\ Broadcast!Batches /\ Broadcast!Sends /\ Broadcast!Hearing
  BY DEF BroadcastInv
<1>1. Broadcast!Init
  BY DEF ProvedInit
<1>2. \A S : <<>> \in Seq(S) /\ Len(<<>>) = 0
  BY EmptySeq
<1>3. Broadcast!Typed
  BY <1>1, <1>2 DEF Broadcast!Init, Broadcast!None, Broadcast!Typed
<1>4. Broadcast!Batches
  BY <1>1, <1>2, BroadcastConstants DEF Broadcast!Init, Broadcast!Batches
<1>5. Broadcast!Sends /\ Broadcast!Hearing
  BY <1>1, <1>2 DEF Broadcast!Init, Broadcast!Sends, Broadcast!OnChannel, Broadcast!Hearing
<1>6. QED
  BY <1>3, <1>4, <1>5

LEMMA Sizes ==
  ASSUME Broadcast!Typed, Broadcast!Batches
  PROVE  /\ s5 \in Seq(Actors \X Nat) /\ Len(s5) \in Nat /\ DOMAIN s5 = 1..Len(s5)
         /\ s6 \in Seq(SUBSET WatchKey) /\ Len(s6) = Len(s5)
         /\ \A c \in Actors : /\ s2[c] \in Seq(Actors \X Nat) /\ Len(s2[c]) \in Nat
                             /\ s3[c] \in Nat /\ s3[c] <= Len(s2[c])
         /\ \A s \in WatchKey : /\ s7[s] \in Nat /\ s8[s] \in Nat /\ s10[s] \in Nat
                               /\ s9[s] \in Seq(Actors \X Nat) /\ Len(s9[s]) \in Nat
<1>1. s5 \in Seq(Actors \X Nat) /\ s6 \in Seq(SUBSET WatchKey) /\ Len(s6) = Len(s5)
  BY DEF Broadcast!Typed, Broadcast!Event
<1>2. Len(s5) \in Nat /\ DOMAIN s5 = 1..Len(s5)
  BY <1>1, LenProperties
<1>3. ASSUME NEW c \in Actors
      PROVE  /\ s2[c] \in Seq(Actors \X Nat) /\ Len(s2[c]) \in Nat
             /\ s3[c] \in Nat /\ s3[c] <= Len(s2[c])
  <2>1. s2[c] \in Seq(Actors \X Nat) /\ s3[c] \in Nat
    BY DEF Broadcast!Typed, Broadcast!Event
  <2>2. Len(s2[c]) \in Nat
    BY <2>1, LenProperties
  <2>3. s3[c] <= Len(s2[c])
    BY DEF Broadcast!Batches
  <2>4. QED
    BY <2>1, <2>2, <2>3
<1>4. ASSUME NEW s \in WatchKey
      PROVE  /\ s7[s] \in Nat /\ s8[s] \in Nat /\ s10[s] \in Nat
             /\ s9[s] \in Seq(Actors \X Nat) /\ Len(s9[s]) \in Nat
  <2>1. s7[s] \in Nat /\ s8[s] \in Nat /\ s10[s] \in Nat /\ s9[s] \in Seq(Actors \X Nat)
    BY DEF Broadcast!Typed, Broadcast!Event
  <2>2. Len(s9[s]) \in Nat
    BY <2>1, LenProperties
  <2>3. QED
    BY <2>1, <2>2
<1>5. QED
  BY <1>1, <1>2, <1>3, <1>4

\* A command that pushes, ends, starts or finishes leaves the channel alone.
LEMMA CommandKeeps ==
  ASSUME Broadcast!Typed, Broadcast!Batches, Broadcast!Sends, Broadcast!Hearing,
         UNCHANGED <<s5, s6, s7, s8, s9, s10>>, Broadcast!Typed', Broadcast!Batches', s3' = s3
  PROVE  Broadcast!Typed' /\ Broadcast!Batches' /\ Broadcast!Sends' /\ Broadcast!Hearing'
<1>1. \A s \in WatchKey :
        Broadcast!InOrder(s9[s], s7[s]..s8[s] - 1) => Broadcast!InOrder(s9[s], s7[s]..s8[s] - 1)'
  BY DEF Broadcast!InOrder
<1>2. QED
  BY <1>1 DEF Broadcast!Sends, Broadcast!OnChannel, Broadcast!Hearing, Broadcast!Hears

LEMMA PushKeeps ==
  ASSUME Broadcast!Typed, Broadcast!Batches, Broadcast!Sends, Broadcast!Hearing,
         NEW c \in Actors, Broadcast!Push(c)
  PROVE  Broadcast!Typed' /\ Broadcast!Batches' /\ Broadcast!Sends' /\ Broadcast!Hearing'
<1>1. /\ s1[c] = "running" /\ Len(s2[c]) < Batch
      /\ s2' = [s2 EXCEPT ![c] = Append(s2[c], <<c, Len(s2[c]) + 1>>)]
      /\ UNCHANGED <<s1, s3, s4, s5, s6, s7, s8, s9, s10>>
  BY DEF Broadcast!Push, Broadcast!bus, Broadcast!subscriber
<1>2. s2[c] \in Seq(Actors \X Nat) /\ Len(s2[c]) \in Nat /\ s2 \in [Actors -> Seq(Actors \X Nat)]
  BY Sizes DEF Broadcast!Typed, Broadcast!Event
<1>3. PICK p \in Seq(Actors \X Nat) : p = s2[c]
  BY <1>2
<1>4. /\ Append(p, <<c, Len(p) + 1>>) \in Seq(Actors \X Nat)
      /\ Len(Append(p, <<c, Len(p) + 1>>)) = Len(p) + 1
      /\ \A i \in 1..Len(p) : Append(p, <<c, Len(p) + 1>>)[i] = p[i]
      /\ Append(p, <<c, Len(p) + 1>>)[Len(p) + 1] = <<c, Len(p) + 1>>
  <2>1. <<c, Len(p) + 1>> \in Actors \X Nat
    BY <1>3
  <2>2. QED
    BY <2>1, AppendProperties
<1>5. Broadcast!Typed'
  BY <1>1, <1>2, <1>3, <1>4 DEF Broadcast!Typed, Broadcast!Event
<1>6. ASSUME NEW d \in Actors
      PROVE  /\ Len(s2'[d]) <= Batch /\ s3[d] <= Len(s2'[d])
             /\ \A i \in 1..Len(s2'[d]) : s2'[d][i] = <<d, i>>
             /\ s1[d] = "done" => s2'[d] = s2[d]
  <2>1. CASE d = c
    <3>1. s2'[d] = Append(p, <<c, Len(p) + 1>>) /\ s1[d] # "done"
      BY <1>1, <1>2, <1>3, <2>1
    <3>2. Len(p) \in Nat /\ Len(p) + 1 <= Batch /\ s3[c] <= Len(p) + 1 /\ s3[c] \in Nat
      BY <1>1, <1>3, Sizes, BroadcastConstants
    <3>3. \A i \in 1..Len(p) : p[i] = <<c, i>>
      BY <1>3 DEF Broadcast!Batches
    <3>4. QED
      BY <1>4, <2>1, <3>1, <3>2, <3>3
  <2>2. CASE d # c
    BY <1>1, <1>2, <2>2 DEF Broadcast!Batches
  <2>3. QED
    BY <2>1, <2>2
<1>7. Broadcast!Batches'
  BY <1>1, <1>6 DEF Broadcast!Batches
<1>8. QED
  BY <1>1, <1>5, <1>7, CommandKeeps

LEMMA NoBatch ==
  \A k, m \in Nat : k = 0 /\ m = 0 => k <= Batch /\ m <= k /\ \A i \in 1..k : FALSE
BY BroadcastConstants

LEMMA EndKeeps ==
  ASSUME Broadcast!Typed, Broadcast!Batches, Broadcast!Sends, Broadcast!Hearing, NEW c \in Actors,
         NEW outcome \in {"committed", "rolled back"}, Broadcast!End(c, outcome)
  PROVE  Broadcast!Typed' /\ Broadcast!Batches' /\ Broadcast!Sends' /\ Broadcast!Hearing'
<1>1. /\ s1[c] = "running" /\ s1' = [s1 EXCEPT ![c] = outcome]
      /\ s2' = [s2 EXCEPT ![c] = IF outcome = "committed" THEN s2[c] ELSE <<>>]
      /\ UNCHANGED <<s3, s4, s5, s6, s7, s8, s9, s10>>
  BY DEF Broadcast!End, Broadcast!bus, Broadcast!subscriber
<1>2. <<>> \in Seq(Actors \X Nat) /\ Len(<<>>) = 0
  BY EmptySeq
<1>3. Broadcast!Typed'
  BY <1>1, <1>2 DEF Broadcast!Typed, Broadcast!Event
<1>4. s3[c] = 0
  BY <1>1 DEF Broadcast!Batches
<1>5. ASSUME NEW d \in Actors
      PROVE  /\ Len(s2'[d]) <= Batch /\ s3[d] <= Len(s2'[d])
             /\ \A i \in 1..Len(s2'[d]) : s2'[d][i] = <<d, i>>
             /\ s1'[d] \in {"running", "committed", "rolled back"} => s3[d] = 0
             /\ s1'[d] = "done" => s2'[d] = s2[d] /\ s1[d] = "done"
  <2>1. CASE d = c
    <3>1. s1'[c] = outcome /\ (s2'[c] = s2[c] \/ s2'[c] = <<>>)
      BY <1>1 DEF Broadcast!Typed, Broadcast!Event
    <3>2. CASE s2'[c] = s2[c]
      BY <1>4, <2>1, <3>1, <3>2 DEF Broadcast!Batches
    <3>3. CASE s2'[c] = <<>>
      <4>1. Len(s2'[c]) = 0 /\ s3[c] = 0 /\ 0 \in Nat
        BY <1>2, <1>4, <3>3
      <4>2. s1'[c] # "done"
        BY <3>1
      <4>3. Len(s2'[c]) <= Batch /\ s3[c] <= Len(s2'[c]) /\ \A i \in 1..Len(s2'[c]) : FALSE
        BY <4>1, NoBatch, Zenon
      <4>4. QED
        BY <2>1, <4>1, <4>2, <4>3
    <3>4. QED
      BY <3>1, <3>2, <3>3
  <2>2. CASE d # c
    BY <1>1, <2>2 DEF Broadcast!Batches, Broadcast!Typed
  <2>3. QED
    BY <2>1, <2>2
<1>6. Broadcast!Batches'
  BY <1>1, <1>5 DEF Broadcast!Batches
<1>7. QED
  BY <1>1, <1>3, <1>6, CommandKeeps

\* Publish begins, or it comes to its end with a report.
LEMMA PublishKeeps ==
  ASSUME Broadcast!Typed, Broadcast!Batches, Broadcast!Sends, Broadcast!Hearing, NEW c \in Actors,
         \/ Broadcast!Publish(c)
         \/ Broadcast!Step(c) /\ (s3[c] = Len(s2[c]) \/ Broadcast!Receivers = {})
  PROVE  Broadcast!Typed' /\ Broadcast!Batches' /\ Broadcast!Sends' /\ Broadcast!Hearing'
<1>1. CASE Broadcast!Publish(c)
  <2>1. /\ s1[c] = "committed" /\ s1' = [s1 EXCEPT ![c] = "publishing"]
        /\ UNCHANGED <<s2, s3, s4, s5, s6, s7, s8, s9, s10>>
    BY <1>1 DEF Broadcast!Publish, Broadcast!bus, Broadcast!subscriber
  <2>2. Broadcast!Typed' /\ Broadcast!Batches'
    BY <2>1 DEF Broadcast!Typed, Broadcast!Event, Broadcast!Batches
  <2>3. QED
    BY <2>1, <2>2, CommandKeeps
<1>2. CASE Broadcast!Step(c) /\ (s3[c] = Len(s2[c]) \/ Broadcast!Receivers = {})
  <2> DEFINE r == IF s3[c] = Len(s2[c]) THEN Broadcast!Ok
                  ELSE Broadcast!NoSubscribers(Len(s2[c]) - s3[c])
  <2>1. /\ s1' = [s1 EXCEPT ![c] = "done"] /\ s4' = [s4 EXCEPT ![c] = r]
        /\ UNCHANGED <<s2, s3, s5, s6, s7, s8, s9, s10>>
    BY <1>2 DEF Broadcast!Step, Broadcast!Finish, Broadcast!Unheard, Broadcast!bus,
                Broadcast!subscriber
  <2>2. /\ r \in [is : {"none", "ok", "no_subscribers"}, unheard : Nat]
        /\ r.unheard = Len(s2[c]) - s3[c] /\ (r.is = "ok" <=> r.unheard = 0)
    <3>1. Len(s2[c]) \in Nat /\ s3[c] \in Nat /\ s3[c] <= Len(s2[c])
      BY Sizes
    <3>2. QED
      BY <3>1 DEF Broadcast!Ok, Broadcast!NoSubscribers
  <2> HIDE DEF r
  <2>3. Broadcast!Typed'
    BY <2>1, <2>2 DEF Broadcast!Typed, Broadcast!Event
  <2>4. /\ s1'[c] = "done" /\ s4'[c] = r
        /\ \A d \in Actors \ {c} : s1'[d] = s1[d] /\ s4'[d] = s4[d]
    BY <2>1 DEF Broadcast!Typed
  <2>5. Broadcast!Batches'
    BY <2>1, <2>2, <2>4, ZenonT(40) DEF Broadcast!Batches
  <2>6. QED
    BY <2>1, <2>3, <2>5, CommandKeeps
<1>3. QED
  BY <1>1, <1>2

LEMMA AppendOne ==
  ASSUME NEW S, NEW q \in Seq(S), NEW x \in S
  PROVE  /\ Append(q, x) \in Seq(S) /\ Len(Append(q, x)) = Len(q) + 1
         /\ Append(q, x)[Len(q) + 1] = x
         /\ \A m \in 1..Len(q) : Append(q, x)[m] = q[m]
BY AppendProperties

\* An event goes to the subscribers of this moment.
LEMMA SendsKeep ==
  ASSUME Broadcast!Typed, Broadcast!Batches, Broadcast!Sends, Broadcast!Hearing, NEW c \in Actors,
         Broadcast!Step(c), s3[c] # Len(s2[c]), Broadcast!Receivers # {}
  PROVE  Broadcast!Typed' /\ Broadcast!Batches' /\ Broadcast!Sends' /\ Broadcast!Hearing'
<1> DEFINE k == s3[c] + 1
           e == s2[c][k]
           n == Len(s5)
<1>1. /\ s1[c] = "publishing"
      /\ s5' = Append(s5, e) /\ s6' = Append(s6, Broadcast!Receivers)
      /\ s3' = [s3 EXCEPT ![c] = k]
      /\ UNCHANGED <<s1, s2, s4, s7, s8, s9, s10>>
  BY DEF Broadcast!Step, Broadcast!subscriber
<1>2. /\ s3[c] \in Nat /\ Len(s2[c]) \in Nat /\ k \in 1..Len(s2[c]) /\ n \in Nat
      /\ s5 \in Seq(Actors \X Nat) /\ s6 \in Seq(SUBSET WatchKey) /\ Len(s6) = n
  BY Sizes
<1>3. e = <<c, k>> /\ e \in Actors \X Nat
  <2>1. e = <<c, k>>
    BY <1>2 DEF Broadcast!Batches
  <2>2. k \in Nat
    BY <1>2
  <2>3. QED
    BY <2>1, <2>2
<1> HIDE DEF k, e, n
<1>4. /\ s5' \in Seq(Actors \X Nat) /\ Len(s5') = n + 1 /\ s5'[n + 1] = e
      /\ \A m \in 1..n : s5'[m] = s5[m]
  BY <1>1, <1>2, <1>3, AppendOne DEF n
<1>5. /\ s6' \in Seq(SUBSET WatchKey) /\ Len(s6') = n + 1 /\ s6'[n + 1] = Broadcast!Receivers
      /\ \A m \in 1..n : s6'[m] = s6[m]
  <2> DEFINE all == Broadcast!Receivers
  <2>1. all \in SUBSET WatchKey
    BY DEF Broadcast!Receivers
  <2> HIDE DEF all
  <2>2. /\ Append(s6, all) \in Seq(SUBSET WatchKey) /\ Len(Append(s6, all)) = n + 1
        /\ Append(s6, all)[n + 1] = all
        /\ \A m \in 1..n : Append(s6, all)[m] = s6[m]
    <3>1. Len(s6) = n /\ s6 \in Seq(SUBSET WatchKey)
      BY <1>2
    <3>2. QED
      BY ONLY <2>1, <3>1, AppendOne
  <2>3. s6' = Append(s6, all)
    BY <1>1 DEF all
  <2>4. QED
    BY <2>2, <2>3 DEF all
<1>6. Broadcast!Typed'
  <2>1. k \in Nat
    BY <1>2
  <2>2. QED
    BY <1>1, <1>4, <1>5, <2>1 DEF Broadcast!Typed, Broadcast!Event
<1>7. Broadcast!Batches'
  <2>1. k <= Len(s2[c])
    BY <1>2
  <2>2. QED
    BY <1>1, <2>1 DEF Broadcast!Typed, Broadcast!Event, Broadcast!Batches
<1>8. ASSUME NEW d \in Actors PROVE Broadcast!OnChannel(d, s3[d])'
  <2>1. Broadcast!OnChannel(d, s3[d])
    BY DEF Broadcast!Sends
  <2>2. Len(s5) = n /\ Len(s5') = n + 1 /\ s5'[n + 1][1] = c /\ s5'[n + 1][2] = k
    BY <1>3, <1>4 DEF n
  <2>3. CASE d # c
    <3>1. s3'[d] = s3[d]
      BY <1>1, <2>3 DEF Broadcast!Typed, Broadcast!Event
    <3>2. \A m \in 1..n + 1 : s5'[m][1] = d => m \in 1..n
      BY <1>2, <2>2, <2>3
    <3>3. \A m \in 1..n : m \in 1..n + 1
      BY <1>2
    <3>4. /\ \A m \in 1..n + 1 : s5'[m][1] = d => s5'[m][2] \in 1..s3[d]
          /\ \A l, m \in 1..n + 1 :
               s5'[l][1] = d /\ s5'[m][1] = d /\ l < m => s5'[l][2] < s5'[m][2]
      BY <1>4, <2>1, <2>2, <3>2 DEF Broadcast!OnChannel
    <3>5. ASSUME NEW i \in 1..s3[d] PROVE \E m \in 1..n + 1 : s5'[m] = <<d, i>>
      <4>1. PICK m \in 1..n : s5[m] = <<d, i>>
        BY <2>1, <2>2 DEF Broadcast!OnChannel
      <4>2. QED
        BY <1>4, <3>3, <4>1
    <3>6. QED
      BY <2>2, <3>1, <3>4, <3>5 DEF Broadcast!OnChannel
  <2>4. CASE d = c
    <3>1. s3'[c] = k /\ k - 1 = s3[c] /\ k \in Nat
      <4>1. s3'[c] = k
        BY <1>1 DEF Broadcast!Typed, Broadcast!Event
      <4>2. QED
        BY <1>2, <4>1 DEF k
    <3>2. \A m \in 1..n : s5'[m][1] = c => s5'[m][2] \in 1..(k - 1)
      BY <1>4, <2>1, <2>2, <2>4, <3>1 DEF Broadcast!OnChannel
    <3>3. \A m \in 1..n + 1 : s5'[m][1] = c => s5'[m][2] \in 1..k
      BY <1>2, <2>2, <3>1, <3>2
    <3>4. ASSUME NEW i \in 1..k PROVE \E m \in 1..n + 1 : s5'[m] = <<c, i>>
      <4>1. CASE i = k
        <5>1. n + 1 \in 1..n + 1
          BY <1>2
        <5>2. s5'[n + 1] = <<c, i>>
          BY <1>3, <1>4, <4>1
        <5>3. QED
          BY <5>1, <5>2
      <4>2. CASE i # k
        <5>1. i \in 1..s3[c]
          BY <3>1, <4>2
        <5>2. PICK m \in 1..n : s5[m] = <<c, i>>
          BY <2>1, <2>2, <2>4, <5>1 DEF Broadcast!OnChannel
        <5>3. m \in 1..n + 1
          BY <1>2, <5>2
        <5>4. QED
          BY <1>4, <5>2, <5>3
      <4>3. QED
        BY <4>1, <4>2
    <3>5. ASSUME NEW l \in 1..n + 1, NEW m \in 1..n + 1,
                 s5'[l][1] = c, s5'[m][1] = c, l < m
          PROVE  s5'[l][2] < s5'[m][2]
      <4>1. l \in 1..n
        BY <1>2, <3>5
      <4>2. CASE m = n + 1
        BY <2>2, <3>1, <3>2, <3>5, <4>1, <4>2
      <4>3. CASE m # n + 1
        <5>1. m \in 1..n
          BY <1>2, <4>3
        <5>2. QED
          BY <1>4, <2>1, <2>2, <2>4, <3>5, <4>1, <5>1 DEF Broadcast!OnChannel
      <4>4. QED
        BY <4>2, <4>3
    <3>6. QED
      BY <2>2, <2>4, <3>1, <3>3, <3>4, <3>5 DEF Broadcast!OnChannel
  <2>5. QED
    BY <2>3, <2>4
<1>9. Broadcast!Hearing'
  <2>1. Len(s5) = n /\ Len(s5') = n + 1
    BY <1>4 DEF n
  <2>2. \A m \in 1..n + 1 : m \in 1..n \/ m = n + 1
    BY <1>2
  <2>3. \A m \in 1..n + 1 : s6'[m] # {}
    BY <1>5, <2>1, <2>2 DEF Broadcast!Hearing
  <2>4. ASSUME NEW s \in WatchKey
        PROVE  s7[s] <= n + 2 /\ s8[s] \in 1..n + 2 /\ (s7[s] # 0 => Broadcast!Hears(s)')
    <3>1. s7[s] <= n + 1 /\ s8[s] \in 1..n + 1 /\ (s7[s] # 0 => Broadcast!Hears(s))
      BY <2>1 DEF Broadcast!Hearing
    <3>2. s7[s] \in Nat /\ s8[s] \in Nat /\ s9[s] \in Seq(Actors \X Nat) /\ s10[s] \in Nat
      BY DEF Broadcast!Typed, Broadcast!Event
    <3>3. ASSUME s7[s] # 0 PROVE Broadcast!Hears(s)'
      <4>1. Broadcast!Hears(s) /\ Len(s9[s]) \in Nat
        BY <3>1, <3>2, <3>3
      <4>2. ASSUME s10[s] = 0, NEW i \in 1..Len(s9[s]) PROVE s9[s][i] = s5'[s7[s] + i - 1]
        <5>1. Len(s9[s]) = s8[s] - s7[s] /\ s9[s][i] = s5[s7[s] + i - 1]
          BY <3>2, <4>1, <4>2 DEF Broadcast!Hears
        <5>2. \A q, p, w \in Nat :
                q = p - w /\ w # 0 /\ p \in 1..n + 1 /\ i \in 1..q => w + i - 1 \in 1..n
          BY <1>2
        <5>3. s7[s] + i - 1 \in 1..n
          BY <3>1, <3>2, <3>3, <4>1, <4>2, <5>1, <5>2
        <5>4. QED
          BY <1>4, <5>1, <5>3
      <4>3. \A m \in 1..n + 1 : s7[s] <= m => s \in s6'[m]
        <5>1. s \in Broadcast!Receivers
          BY <3>3 DEF Broadcast!Receivers
        <5>2. QED
          BY <1>5, <2>1, <2>2, <4>1, <5>1 DEF Broadcast!Hears
      <4>4. Broadcast!InOrder(s9[s], s7[s]..s8[s] - 1)'
        <5>1. \A w, p \in Nat : w # 0 /\ p \in 1..n + 1 => \A a \in w..p - 1 : a \in 1..n
          BY <1>2
        <5>2. \A a \in s7[s]..s8[s] - 1 : a \in 1..n
          BY <3>1, <3>2, <3>3, <5>1
        <5>3. \A a \in s7[s]..s8[s] - 1 : s5'[a] = s5[a]
          BY <1>4, <5>2
        <5>4. s7' = s7 /\ s8' = s8 /\ s9' = s9 /\ Broadcast!InOrder(s9[s], s7[s]..s8[s] - 1)
          BY <1>1, <4>1 DEF Broadcast!Hears
        <5>5. QED
          BY <5>3, <5>4 DEF Broadcast!InOrder
      <4>5. QED
        BY <1>1, <2>1, <4>1, <4>2, <4>3, <4>4 DEF Broadcast!Hears
    <3>4. QED
      BY <1>2, <3>1, <3>2, <3>3
  <2>5. QED
    BY <1>1, <1>2, <2>1, <2>3, <2>4 DEF Broadcast!Hearing
<1>10. QED
  BY <1>6, <1>7, <1>8 , <1>9 DEF Broadcast!Sends

\* A subscriber that has heard what is at some places of the channel, in order, hears the next one.
LEMMA NextInOrder ==
  ASSUME NEW h \in Seq(Actors \X Nat), NEW w \in Nat, NEW p \in Nat, w <= p,
         s5[p] \in Actors \X Nat, Broadcast!InOrder(h, w..p - 1)
  PROVE  Broadcast!InOrder(Append(h, s5[p]), w..p)
<1> DEFINE all == Append(h, s5[p])
<1>1. /\ Len(h) \in Nat /\ Len(all) = Len(h) + 1 /\ all[Len(h) + 1] = s5[p]
      /\ \A i \in 1..Len(h) : all[i] = h[i]
  BY AppendProperties
<1>2. \A i \in 1..Len(all) : i \in 1..Len(h) \/ i = Len(h) + 1
  BY <1>1
<1>3. p \in w..p /\ \A a \in w..p - 1 : a \in w..p /\ a < p
  OBVIOUS
<1> HIDE DEF all
<1>4. ASSUME NEW n \in 1..Len(all), NEW m \in 1..Len(all), n <= m
      PROVE  \E a, b \in w..p : all[n] = s5[a] /\ all[m] = s5[b] /\ (n < m => a < b)
  <2>1. CASE m \in 1..Len(h)
    <3>1. n \in 1..Len(h)
      BY <1>1, <1>4, <2>1
    <3>2. PICK a, b \in w..p - 1 : h[n] = s5[a] /\ h[m] = s5[b] /\ (n < m => a < b)
      BY <1>4, <2>1, <3>1 DEF Broadcast!InOrder
    <3>3. QED
      BY <1>1, <1>3, <2>1, <3>1, <3>2
  <2>2. CASE m = Len(h) + 1 /\ n \in 1..Len(h)
    <3>1. PICK a \in w..p - 1 : h[n] = s5[a]
      BY <2>2 DEF Broadcast!InOrder
    <3>2. QED
      BY <1>1, <1>3, <2>2, <3>1
  <2>3. CASE m = Len(h) + 1 /\ n = Len(h) + 1
    BY <1>1, <1>3, <2>3
  <2>4. QED
    BY <1>2, <2>1, <2>2, <2>3
<1>5. QED
  BY <1>4 DEF Broadcast!InOrder, all

\* A subscriber that comes, goes or reads changes nothing but its own place.
LEMMA SubscriberKeeps ==
  ASSUME Broadcast!Typed, Broadcast!Batches, Broadcast!Sends, Broadcast!Hearing, NEW s \in WatchKey,
         Broadcast!Subscribe(s) \/ Broadcast!Unsubscribe(s) \/ Broadcast!Recv(s)
  PROVE  Broadcast!Typed' /\ Broadcast!Batches' /\ Broadcast!Sends' /\ Broadcast!Hearing'
<1>1. UNCHANGED <<s1, s2, s3, s4, s5, s6>>
  BY DEF Broadcast!Subscribe, Broadcast!Unsubscribe, Broadcast!Recv, Broadcast!command,
         Broadcast!bus
<1>2. /\ \A u \in WatchKey : u # s => s7'[u] = s7[u] /\ s8'[u] = s8[u] /\ s9'[u] = s9[u] /\ s10'[u] = s10[u]
      /\ s7' \in [WatchKey -> Nat] /\ s8' \in [WatchKey -> Nat] /\ s10' \in [WatchKey -> Nat]
      /\ s9' \in [WatchKey -> Seq(Actors \X Nat)]
      /\ s7'[s] <= Len(s5) + 1 /\ s8'[s] \in 1..Len(s5) + 1 /\ (s7'[s] # 0 => Broadcast!Hears(s)')
  <2>1. /\ s5 \in Seq(Actors \X Nat) /\ Len(s5) \in Nat
        /\ s7 \in [WatchKey -> Nat] /\ s8 \in [WatchKey -> Nat] /\ s10 \in [WatchKey -> Nat]
        /\ s9 \in [WatchKey -> Seq(Actors \X Nat)]
        /\ s7[s] <= Len(s5) + 1 /\ s8[s] \in 1..Len(s5) + 1 /\ (s7[s] # 0 => Broadcast!Hears(s))
    BY Sizes DEF Broadcast!Typed, Broadcast!Event, Broadcast!Hearing
  <2>2. CASE Broadcast!Subscribe(s)
    <3>1. /\ s7' = [s7 EXCEPT ![s] = Len(s5) + 1] /\ s8' = [s8 EXCEPT ![s] = Len(s5) + 1]
          /\ s9' = [s9 EXCEPT ![s] = <<>>] /\ s10' = [s10 EXCEPT ![s] = 0]
      BY <2>2 DEF Broadcast!Subscribe
    <3>2. <<>> \in Seq(Actors \X Nat) /\ Len(<<>>) = 0
      BY EmptySeq
    <3>3. s7'[s] = Len(s5) + 1 /\ s8'[s] = Len(s5) + 1 /\ s9'[s] = <<>> /\ s10'[s] = 0
      BY <2>1, <3>1
    <3>4. Broadcast!Hears(s)'
      BY <1>1, <2>1, <3>2, <3>3 DEF Broadcast!Hears, Broadcast!InOrder
    <3>5. QED
      BY <2>1, <3>1, <3>2, <3>3, <3>4
  <2>3. CASE Broadcast!Unsubscribe(s)
    BY <2>1, <2>3 DEF Broadcast!Unsubscribe
  <2>4. CASE Broadcast!Recv(s)
    <3> DEFINE oldest == IF Len(s5) > Capacity THEN Len(s5) - Capacity + 1 ELSE 1
    <3>1. /\ s7[s] # 0 /\ s8[s] <= Len(s5) /\ s7' = s7
          /\ \/ /\ s8[s] < oldest /\ s9' = s9
                /\ s10' = [s10 EXCEPT ![s] = s10[s] + oldest - s8[s]]
                /\ s8' = [s8 EXCEPT ![s] = oldest]
             \/ /\ s9' = [s9 EXCEPT ![s] = Append(s9[s], s5[s8[s]])]
                /\ s8' = [s8 EXCEPT ![s] = s8[s] + 1] /\ s10' = s10
      BY <2>4 DEF Broadcast!Recv
    <3>2. oldest \in 1..Len(s5) + 1
      BY <2>1, BroadcastConstants
    <3> HIDE DEF oldest
    <3>3. PICK p, l, w \in Nat : p = s8[s] /\ l = s10[s] /\ w = s7[s]
      BY <2>1
    <3>4. PICK h \in Seq(Actors \X Nat) : h = s9[s]
      BY <2>1
    <3>5. /\ w <= p /\ Len(h) + l = p - w /\ Len(h) \in Nat /\ p \in 1..Len(s5) /\ w # 0
          /\ l = 0 => \A i \in 1..Len(h) : h[i] = s5[w + i - 1]
          /\ \A n \in 1..Len(s5) : w <= n => s \in s6[n]
      BY <2>1, <3>1, <3>3, <3>4 DEF Broadcast!Hears
    <3> DEFINE ordered == Broadcast!InOrder(h, w..p - 1)
    <3>5a. ordered
      BY <2>1, <3>1, <3>3, <3>4 DEF Broadcast!Hears
    <3> HIDE DEF ordered
    <3>6. CASE s10' # s10
      <4>1. /\ p < oldest /\ s9' = s9 /\ s10' = [s10 EXCEPT ![s] = l + oldest - p]
            /\ s8' = [s8 EXCEPT ![s] = oldest]
        BY <3>1, <3>3, <3>6
      <4>2. l + oldest - p \in Nat /\ l + oldest - p # 0 /\ oldest \in Nat
        BY <2>1, <3>2, <3>5, <4>1
      <4>3. s8'[s] = oldest /\ s10'[s] = l + oldest - p /\ s9'[s] = h /\ s7'[s] = w
        BY <2>1, <3>1, <3>3, <3>4, <4>1
      <4>4. w <= oldest /\ Len(h) + (l + oldest - p) = oldest - w
        <5>1. \A q, o, m, b, a \in Nat :
                a <= b /\ q + m = b - a /\ b < o => a <= o /\ q + (m + o - b) = o - a
          OBVIOUS
        <5>2. Len(h) \in Nat /\ w <= p /\ Len(h) + l = p - w /\ p < oldest /\ oldest \in Nat
          BY <3>5, <4>1, <4>2
        <5>3. QED
          BY <5>1, <5>2
      <4>5. Broadcast!InOrder(s9[s], s7[s]..s8[s] - 1)'
        <5>1. \A a \in w..p - 1 : a \in w..oldest - 1
          BY <3>5, <4>1, <4>2
        <5>2. QED
          BY <1>1, <3>5a, <4>3, <5>1 DEF Broadcast!InOrder, ordered
      <4>6. Broadcast!Hears(s)'
        BY <1>1, <3>5, <4>2, <4>3, <4>4, <4>5 DEF Broadcast!Hears
      <4>7. QED
        BY <2>1, <3>1, <3>2, <4>1, <4>2, <4>3, <4>6
    <3>7. CASE s10' = s10
      <4>1. s9' = [s9 EXCEPT ![s] = Append(h, s5[p])] /\ s8' = [s8 EXCEPT ![s] = p + 1]
        <5>1. CASE s8[s] < oldest /\ s10' = [s10 EXCEPT ![s] = s10[s] + oldest - s8[s]]
          <6>1. s10[s] = s10[s] + oldest - s8[s]
            BY <2>1, <3>7, <5>1
          <6>2. FALSE
            BY <2>1, <3>2, <3>3, <5>1, <6>1
          <6>3. QED
            BY <6>2
        <5>2. QED
          BY <3>1, <3>3, <3>4, <5>1
      <4>2. s5[p] \in Actors \X Nat
        BY <2>1, <3>5
      <4>3. /\ Append(h, s5[p]) \in Seq(Actors \X Nat) /\ Len(Append(h, s5[p])) = Len(h) + 1
            /\ \A i \in 1..Len(h) : Append(h, s5[p])[i] = h[i]
            /\ Append(h, s5[p])[Len(h) + 1] = s5[p]
        BY <4>2, AppendProperties
      <4>4. s8'[s] = p + 1 /\ s10'[s] = l /\ s9'[s] = Append(h, s5[p]) /\ s7'[s] = w
        BY <2>1, <3>1, <3>3, <3>7, <4>1
      <4>5. ASSUME l = 0, NEW i \in 1..Len(h) + 1 PROVE Append(h, s5[p])[i] = s5[w + i - 1]
        <5>1. CASE i = Len(h) + 1
          <6>1. w + i - 1 = p
            BY <3>5, <4>5, <5>1
          <6>2. QED
            BY <4>3, <5>1, <6>1
        <5>2. CASE i # Len(h) + 1
          <6>1. i \in 1..Len(h)
            BY <3>5, <5>2
          <6>2. QED
            BY <3>5, <4>3, <4>5, <6>1
        <5>3. QED
          BY <5>1, <5>2
      <4>6. w <= p + 1 /\ Len(h) + 1 + l = p + 1 - w
        <5>1. \A q, m, b, a \in Nat :
                a <= b /\ q + m = b - a => a <= b + 1 /\ q + 1 + m = b + 1 - a
          OBVIOUS
        <5>2. Len(h) \in Nat /\ w <= p /\ Len(h) + l = p - w
          BY <3>5
        <5>3. QED
          BY <5>1, <5>2
      <4>7. Broadcast!InOrder(s9[s], s7[s]..s8[s] - 1)'
        <5>1. Broadcast!InOrder(Append(h, s5[p]), w..p)
          BY <3>5, <3>5a, <4>2, NextInOrder DEF ordered
        <5>2. PICK e, q : e = Append(h, s5[p]) /\ q = p + 1
          OBVIOUS
        <5>3. Broadcast!InOrder(e, w..q - 1) /\ s9'[s] = e /\ s7'[s] = w /\ s8'[s] = q /\ s5' = s5
          BY <1>1, <4>4, <5>1, <5>2
        <5>4. QED
          BY <5>3 DEF Broadcast!InOrder
      <4>8. Broadcast!Hears(s)'
        BY <1>1, <3>5, <4>3, <4>4, <4>5, <4>6, <4>7 DEF Broadcast!Hears
      <4>9. p + 1 \in Nat /\ p + 1 \in 1..Len(s5) + 1
        BY <2>1, <3>5
      <4>10. QED
        BY <2>1, <3>1, <3>7, <4>1, <4>3, <4>4, <4>8, <4>9
    <3>8. QED
      BY <3>6, <3>7
  <2>5. QED
    BY <2>2, <2>3, <2>4
<1>3. Broadcast!Typed'
  BY <1>1, <1>2 DEF Broadcast!Typed, Broadcast!Event
<1>4. Broadcast!Batches' /\ Broadcast!Sends'
  BY <1>1 DEF Broadcast!Batches, Broadcast!Sends, Broadcast!OnChannel
<1>5. Broadcast!Hearing'
  <2>1. ASSUME NEW u \in WatchKey
        PROVE  s7'[u] <= Len(s5) + 1 /\ s8'[u] \in 1..Len(s5) + 1 /\ (s7'[u] # 0 => Broadcast!Hears(u)')
    <3>1. CASE u = s
      BY <1>2, <3>1
    <3>2. CASE u # s
      <4>1. s7'[u] = s7[u] /\ s8'[u] = s8[u] /\ s9'[u] = s9[u] /\ s10'[u] = s10[u]
        BY <1>2, <3>2
      <4>2. QED
        BY <1>1, <4>1 DEF Broadcast!Hearing, Broadcast!Hears, Broadcast!InOrder
    <3>3. QED
      BY <3>1, <3>2
  <2>2. QED
    BY <1>1, <2>1 DEF Broadcast!Hearing
<1>6. QED
  BY <1>3, <1>4, <1>5

LEMMA BroadcastNext == BroadcastInv /\ [ProvedNext]_vars => BroadcastInv'
<1> SUFFICES ASSUME BroadcastInv, [ProvedNext]_vars, part' = "broadcast"
             PROVE  Broadcast!Typed' /\ Broadcast!Batches' /\ Broadcast!Sends' /\ Broadcast!Hearing'
  BY DEF BroadcastInv
<1>1. part = "broadcast" /\ [Broadcast!Next]_<<s1, s2, s3, s4, s5, s6, s7, s8, s9, s10>>
  BY DEF ProvedNext, vars
<1>2. Broadcast!Typed /\ Broadcast!Batches /\ Broadcast!Sends /\ Broadcast!Hearing
  BY <1>1 DEF BroadcastInv
<1>3. ASSUME NEW c \in Actors, Broadcast!Step(c)
      PROVE  Broadcast!Typed' /\ Broadcast!Batches' /\ Broadcast!Sends' /\ Broadcast!Hearing'
  BY <1>2, <1>3, PublishKeeps, SendsKeep
<1>4. CASE Broadcast!Next
  BY <1>2, <1>3, <1>4, PushKeeps, EndKeeps, PublishKeeps, SubscriberKeeps DEF Broadcast!Next
<1>5. CASE UNCHANGED <<s1, s2, s3, s4, s5, s6, s7, s8, s9, s10>>
  <2>1. Broadcast!Typed' /\ Broadcast!Batches'
    BY <1>2, <1>5 DEF Broadcast!Typed, Broadcast!Event, Broadcast!Batches
  <2>2. QED
    BY <1>2, <1>5, <2>1, CommandKeeps
<1>6. QED
  BY <1>1, <1>4, <1>5

\* What publish_after_commit reports is what happened, and subscribers hear the events in one
\* order, with any number of commands, subscribers and events, and any capacity.
THEOREM BroadcastCorrect == ProvedSpec => []BroadcastIsHonest
<1>1. ASSUME Broadcast!Typed, Broadcast!Batches, Broadcast!Sends, Broadcast!Hearing
      PROVE  Broadcast!TypeOK /\ Broadcast!ReportIsTrue /\ Broadcast!HeardInOrder
  <2>1. /\ s5 \in Seq(Actors \X Nat) /\ Len(s5) \in Nat /\ DOMAIN s5 = 1..Len(s5)
        /\ s6 \in Seq(SUBSET WatchKey)
    BY <1>1, Sizes
  <2>2. Broadcast!TypeOK
    <3>1. ASSUME NEW c \in Actors PROVE s3[c] \in 0..Len(s2[c]) /\ Len(s2[c]) <= Batch
      <4>1. s3[c] \in Nat /\ Len(s2[c]) \in Nat /\ s3[c] <= Len(s2[c])
        BY <1>1, Sizes
      <4>2. Len(s2[c]) <= Batch
        BY <1>1 DEF Broadcast!Batches
      <4>3. QED
        BY <4>1, <4>2
    <3>2. \A s \in WatchKey : s7[s] \in 0..Len(s5) + 1 /\ s8[s] \in 1..Len(s5) + 1
      BY <1>1, <2>1, Sizes DEF Broadcast!Hearing
    <3>3. QED
      BY <1>1, <3>1, <3>2 DEF Broadcast!TypeOK, Broadcast!Typed
  <2>3. ASSUME NEW c \in Actors
        PROVE  /\ s1[c] = "rolled back" => Broadcast!EventsOf(c) = {}
               /\ Broadcast!FannedOut(c, s3[c])
    <3>1. Broadcast!OnChannel(c, s3[c]) /\ s3[c] \in Nat /\ s3[c] <= Len(s2[c]) /\ Len(s2[c]) \in Nat
      BY <1>1, Sizes DEF Broadcast!Sends
    <3>2. \A n \in 1..Len(s5) : s5[n] = <<s5[n][1], s5[n][2]>>
      BY <2>1
    <3>3. ASSUME NEW i \in 1..s3[c] PROVE s2[c][i] = <<c, i>>
      <4>1. i \in 1..Len(s2[c])
        BY <3>1
      <4>2. QED
        BY <1>1, <4>1 DEF Broadcast!Batches
    <3>4. s1[c] = "rolled back" => Broadcast!EventsOf(c) = {}
      <4>1. SUFFICES ASSUME s3[c] = 0 PROVE Broadcast!EventsOf(c) = {}
        BY <1>1 DEF Broadcast!Batches
      <4>2. QED
        BY <2>1, <3>1, <4>1 DEF Broadcast!OnChannel, Broadcast!EventsOf
    <3>5. {s5[n] : n \in Broadcast!EventsOf(c)} = {s2[c][i] : i \in 1..s3[c]}
      <4>1. ASSUME NEW n \in Broadcast!EventsOf(c) PROVE \E i \in 1..s3[c] : s5[n] = s2[c][i]
        <5>1. n \in 1..Len(s5) /\ s5[n][1] = c
          BY <2>1 DEF Broadcast!EventsOf
        <5>2. s5[n][2] \in 1..s3[c] /\ s5[n] = <<c, s5[n][2]>>
          BY <3>1, <3>2, <5>1 DEF Broadcast!OnChannel
        <5>3. QED
          BY <3>3, <5>2
      <4>2. ASSUME NEW i \in 1..s3[c] PROVE \E n \in Broadcast!EventsOf(c) : s5[n] = s2[c][i]
        <5>1. PICK n \in 1..Len(s5) : s5[n] = <<c, i>>
          BY <3>1 DEF Broadcast!OnChannel
        <5>2. n \in Broadcast!EventsOf(c)
          BY <2>1, <5>1 DEF Broadcast!EventsOf
        <5>3. QED
          BY <3>3, <5>1, <5>2
      <4>3. QED
        BY <4>1, <4>2
    <3>6. \A m, n \in Broadcast!EventsOf(c) : m < n => s5[m][2] < s5[n][2]
      BY <2>1, <3>1 DEF Broadcast!OnChannel, Broadcast!EventsOf
    <3>7. QED
      BY <3>4, <3>5, <3>6 DEF Broadcast!FannedOut
  <2>4. Broadcast!ReportIsTrue
    <3>1. \A n \in DOMAIN s5 : s6[n] # {}
      BY <1>1, <2>1 DEF Broadcast!Hearing
    <3>2. ASSUME NEW c \in Actors, s1[c] = "done"
          PROVE  /\ Broadcast!FannedOut(c, Len(s2[c]) - s4[c].unheard)
                 /\ s4[c].is = "ok" <=> s4[c].unheard = 0
      <4>1. s4[c].unheard = Len(s2[c]) - s3[c] /\ (s4[c].is = "ok" <=> s4[c].unheard = 0)
        BY <1>1, <3>2 DEF Broadcast!Batches
      <4>2. s3[c] \in Nat /\ Len(s2[c]) \in Nat
        BY <1>1, Sizes
      <4>3. Len(s2[c]) - s4[c].unheard = s3[c]
        BY <4>1, <4>2
      <4>4. QED
        BY <2>3, <4>1, <4>3
    <3>3. QED
      BY <2>3, <3>1, <3>2 DEF Broadcast!ReportIsTrue
  <2>5. ASSUME NEW s \in Broadcast!Receivers
        PROVE  /\ Len(s9[s]) + s10[s] = s8[s] - s7[s]
               /\ Broadcast!InOrder(s9[s], s7[s]..s8[s] - 1)
               /\ s10[s] = 0 => s9[s] = SubSeq(s5, s7[s], s8[s] - 1)
               /\ \A n \in s7[s]..Len(s5) : s \in s6[n]
    <3>1. s \in WatchKey /\ s7[s] # 0 /\ Broadcast!Hears(s) /\ s8[s] \in 1..Len(s5) + 1
      BY <1>1 DEF Broadcast!Receivers, Broadcast!Hearing
    <3>2. PICK f, p, l \in Nat : f = s7[s] /\ p = s8[s] /\ l = s10[s]
      BY <1>1, <3>1 DEF Broadcast!Typed, Broadcast!Event
    <3>3. PICK h \in Seq(Actors \X Nat) : h = s9[s]
      BY <1>1, <3>1 DEF Broadcast!Typed, Broadcast!Event
    <3>4. /\ f # 0 /\ f <= p /\ p \in 1..Len(s5) + 1 /\ Len(h) \in Nat /\ Len(h) + l = p - f
          /\ l = 0 => \A i \in 1..Len(h) : h[i] = s5[f + i - 1]
          /\ \A n \in 1..Len(s5) : f <= n => s \in s6[n]
          /\ Broadcast!InOrder(h, f..p - 1)
      BY <3>1, <3>2, <3>3 DEF Broadcast!Hears
    <3>5. ASSUME l = 0 PROVE h = SubSeq(s5, f, p - 1)
      <4>1. \A i \in f..p - 1 : s5[i] \in Actors \X Nat
        BY <2>1, <3>4
      <4>2. /\ SubSeq(s5, f, p - 1) \in Seq(Actors \X Nat)
            /\ Len(SubSeq(s5, f, p - 1)) = IF f <= p - 1 THEN p - 1 - f + 1 ELSE 0
            /\ \A i \in 1..(p - 1) - f + 1 : SubSeq(s5, f, p - 1)[i] = s5[f + i - 1]
        BY <4>1, SubSeqProperties
      <4>3. Len(h) = p - f /\ (p - 1) - f + 1 = p - f /\ Len(SubSeq(s5, f, p - 1)) = p - f
        BY <3>4, <3>5, <4>2
      <4>4. QED
        BY <3>4, <3>5, <4>2, <4>3, SeqEqual
    <3>6. \A n \in f..Len(s5) : s \in s6[n]
      <4>1. \A n \in f..Len(s5) : n \in 1..Len(s5) /\ f <= n
        BY <2>1, <3>2, <3>4
      <4>2. QED
        BY <3>4, <4>1
    <3>7. QED
      BY <3>2, <3>3, <3>4, <3>5, <3>6
  <2>6. QED
    BY <2>2, <2>4, <2>5 DEF Broadcast!HeardInOrder
<1>2. BroadcastInv => BroadcastIsHonest
  BY <1>1 DEF BroadcastInv, BroadcastIsHonest
<1>3. QED
  BY BroadcastInit, BroadcastNext, <1>2, PTL DEF ProvedSpec

-----------------------------------------------------------------------------
(* DirectoryPublication: per kind s1 truth, s2 bucket; s3 meta, s4 calls; per publisher     *)
(* s5 at, s6 manifest, s7 turn, s8 desired, s9 observed, s10 pending; per kind s11 settled; *)
(* per publisher s12 touched; per kind s13 stale.  A kind is its turn.                      *)

PublicationInv == part = "publication" => Publication!Inv

\* Kinds are their turns.
LEMMA Turns ==
  ASSUME Publication!Typed
  PROVE  /\ KindCount \in Nat \ {0} /\ Publication!Kind = 1..KindCount
         /\ Len(KindsInTurn) = KindCount
         /\ \A n \in 1..KindCount : KindsInTurn[n] = n
         /\ \A p \in Actors : s7[p] \in 1..KindCount
<1>1. KindCount \in Nat \ {0}
  BY PublicationConstants
<1>2. DOMAIN KindsInTurn = 1..KindCount /\ \A n \in 1..KindCount : KindsInTurn[n] = n
  BY DEF KindsInTurn
<1>3. Len(KindsInTurn) = KindCount
  <2>1. KindsInTurn \in [1..KindCount -> 1..KindCount]
    BY DEF KindsInTurn
  <2>2. KindsInTurn \in Seq(1..KindCount)
    BY <1>1, <2>1
  <2>3. Len(KindsInTurn) \in Nat /\ 1..Len(KindsInTurn) = 1..KindCount
    BY <1>2, <2>2, LenProperties
  <2>4. QED
    BY <1>1, <2>3
<1>4. Publication!Kind = 1..KindCount
  BY <1>2 DEF Publication!Kind
<1>5. QED
  BY <1>1, <1>2, <1>3, <1>4 DEF Publication!Typed, Publication!TypeOK

LEMMA CallsAreCalls ==
  ASSUME Publication!Typed
  PROVE  /\ s4 \in Seq(Publication!CallOn) /\ Len(s4) \in Nat
         /\ \A n \in 1..Len(s4) : s4[n] \in Publication!CallOn
<1>1. s4 \in Seq(Publication!CallOn)
  BY DEF Publication!Typed
<1>2. QED
  BY <1>1, LenProperties, ElementOfSeq

LEMMA PublicationInit == ProvedInit => PublicationInv
<1> SUFFICES ASSUME ProvedInit, part = "publication" PROVE Publication!Inv
  BY DEF PublicationInv
<1>1. Publication!Init
  BY DEF ProvedInit
<1>2. \A S : <<>> \in Seq(S) /\ Len(<<>>) = 0
  BY EmptySeq
<1>3. s4 \in Seq(Publication!CallOn) /\ Len(s4) = 0
  BY <1>1, <1>2 DEF Publication!Init
<1>4. KindCount \in Nat \ {0} /\ DOMAIN KindsInTurn = 1..KindCount
  BY PublicationConstants DEF KindsInTurn
<1>5. Publication!Typed
  <2>1. Publication!TypeOK
    BY <1>1, <1>4 DEF Publication!Init, Publication!TypeOK, Publication!Roster
  <2>2. QED
    BY <1>1, <1>3, <2>1 DEF Publication!Init, Publication!Typed, Publication!Roster,
                            Publication!Nobody
<1>6. \A k \in Publication!Kind : Publication!Busy(k) = {}
  BY <1>1 DEF Publication!Init, Publication!Busy
<1>7. Publication!LastCallIsTrue
  BY <1>3 DEF Publication!LastCallIsTrue
<1>8. Publication!RacesAreStale /\ Publication!DesiredIsTrue /\ Publication!DealtWith
  BY <1>6 DEF Publication!RacesAreStale, Publication!DesiredIsTrue, Publication!DealtWith,
              Publication!Raced
<1>9. Publication!Reconciled
  BY <1>1 DEF Publication!Init, Publication!Reconciled
<1>10. Publication!InTurn
  BY <1>1 DEF Publication!Init, Publication!InTurn, Publication!ManifestImpliesRoster
<1>11. QED
  BY <1>5, <1>7, <1>8, <1>9, <1>10 DEF Publication!Inv

\* A domain event: the source changes where a call is due.
LEMMA EventKeeps ==
  ASSUME Publication!Inv, NEW k \in Publication!Kind, NEW i \in Id, NEW v \in Good \cup {Void},
         Publication!Event(k, i, v)
  PROVE  Publication!Inv'
<1> DEFINE c == [kind |-> k, id |-> i, value |-> v]
<1>1. /\ Publication!Typed /\ Publication!LastCallIsTrue /\ Publication!RacesAreStale
      /\ Publication!DesiredIsTrue /\ Publication!DealtWith /\ Publication!Reconciled
      /\ Publication!InTurn
  BY DEF Publication!Inv
<1>2. /\ s1' = [s1 EXCEPT ![k][i] = v] /\ s4' = Append(s4, c)
      /\ UNCHANGED <<s2, s3, s5, s6, s7, s8, s9, s10, s11, s12, s13>>
  BY DEF Publication!Event, Publication!pass, Publication!history
<1>3. s4 \in Seq(Publication!CallOn) /\ Len(s4) \in Nat
  BY <1>1, CallsAreCalls
<1>4. c \in Publication!CallOn
  BY DEF Publication!CallOn
<1>5. /\ s4' \in Seq(Publication!CallOn) /\ Len(s4') = Len(s4) + 1
      /\ \A n \in 1..Len(s4) : s4'[n] = s4[n]
      /\ s4'[Len(s4) + 1] = c
  BY <1>2, <1>3, <1>4, AppendProperties
<1>6. /\ s1 \in [Publication!Kind -> [Id -> Good \cup {Void}]]
      /\ s1' \in [Publication!Kind -> [Id -> Good \cup {Void}]]
      /\ s1'[k][i] = v
      /\ \A l \in Publication!Kind, j \in Id : l # k \/ j # i => s1'[l][j] = s1[l][j]
  BY <1>1, <1>2 DEF Publication!Typed, Publication!TypeOK, Publication!Roster
<1>7. Publication!Typed'
  BY <1>1, <1>2, <1>5, <1>6 DEF Publication!Typed, Publication!TypeOK, Publication!Roster
<1>8. \A l, j : Publication!Due(l, j)' <=> Publication!Due(l, j) \/ (l = k /\ j = i)
  BY <1>3, <1>5 DEF Publication!Due
<1>9. Publication!LastCallIsTrue'
  <2> SUFFICES ASSUME NEW n \in 1..Len(s4'),
                      ~\E m \in n + 1..Len(s4') : s4'[m].kind = s4'[n].kind /\ s4'[m].id = s4'[n].id
               PROVE  s4'[n].value = s1'[s4'[n].kind][s4'[n].id]
    BY DEF Publication!LastCallIsTrue
  <2>1. CASE n = Len(s4) + 1
    BY <1>5, <1>6, <2>1
  <2>2. CASE n \in 1..Len(s4)
    <3>1. s4'[n] = s4[n] /\ s4[n].kind \in Publication!Kind /\ s4[n].id \in Id
      BY <1>1, <1>5, <2>2, CallsAreCalls DEF Publication!CallOn
    <3>2. Len(s4') \in n + 1..Len(s4') /\ ~(s4[n].kind = k /\ s4[n].id = i)
      BY <1>3, <1>5, <2>2, <3>1
    <3>3. ~\E m \in n + 1..Len(s4) : s4[m].kind = s4[n].kind /\ s4[m].id = s4[n].id
      BY <1>3, <1>5, <2>2, <3>1
    <3>4. s4[n].value = s1[s4[n].kind][s4[n].id]
      BY <1>1, <2>2, <3>3 DEF Publication!LastCallIsTrue
    <3>5. QED
      BY <1>6, <3>1, <3>2, <3>4
  <2>3. QED
    BY <1>3, <1>5, <2>1, <2>2
<1>10. /\ \A l : Publication!Busy(l)' = Publication!Busy(l)
       /\ \A p : Publication!Declares(p)' = Publication!Declares(p)
  BY <1>2 DEF Publication!Busy, Publication!Declares
<1>11. Publication!RacesAreStale'
  BY <1>1, <1>2, <1>10 DEF Publication!RacesAreStale, Publication!Raced
<1>12. Publication!DesiredIsTrue'
  BY <1>1, <1>2, <1>6, <1>8, <1>10
     DEF Publication!DesiredIsTrue, Publication!Desired, Publication!Busy
<1>13. Publication!DealtWith'
  BY <1>1, <1>2, <1>8, <1>10 DEF Publication!DealtWith, Publication!Calm, Publication!Raced
<1>14. Publication!Reconciled'
  BY <1>1, <1>2, <1>6, <1>8, <1>10
     DEF Publication!Reconciled, Publication!Wanted, Publication!Declared
<1>15. Publication!InTurn'
  BY <1>1, <1>2 DEF Publication!InTurn, Publication!ManifestImpliesRoster
<1>16. QED
  BY <1>7, <1>9, <1>11, <1>12, <1>13, <1>14, <1>15 DEF Publication!Inv

\* The steps of a reconcile, which leave the source and the calls alone.
LEMMA CallsStay ==
  ASSUME UNCHANGED <<s1, s4>>
  PROVE  /\ \A k, i : Publication!Due(k, i)' <=> Publication!Due(k, i)
         /\ Publication!LastCallIsTrue => Publication!LastCallIsTrue'
BY DEF Publication!Due, Publication!LastCallIsTrue

\* What all publishers but p are at is what they were at.
OthersStay(p) ==
  \A q \in Actors \ {p} : /\ s5'[q] = s5[q] /\ s6'[q] = s6[q] /\ s7'[q] = s7[q]
                          /\ s8'[q] = s8[q] /\ s9'[q] = s9[q] /\ s10'[q] = s10[q]

LEMMA OthersAreAsBusy ==
  ASSUME NEW p \in Actors, OthersStay(p)
  PROVE  \A q \in Actors \ {p} : /\ \A k : q \in Publication!Busy(k)' <=> q \in Publication!Busy(k)
                                 /\ Publication!Declares(q)' = Publication!Declares(q)
                                 /\ Publication!Declared(q)' = Publication!Declared(q)
BY DEF OthersStay, Publication!Busy, Publication!Declares, Publication!Declared

LEMMA BusyAreActors == \A k : Publication!Busy(k) \subseteq Actors /\ Publication!Busy(k)' \subseteq Actors
BY DEF Publication!Busy

\* What a publisher does at no kind is not the business of the others.
LEMMA AsideKeeps ==
  ASSUME Publication!Inv, NEW p \in Actors, UNCHANGED <<s1, s2, s4, s11, s13>>, OthersStay(p),
         \A k : p \notin Publication!Busy(k) /\ p \notin Publication!Busy(k)',
         \A q \in Actors \ {p} : s12'[q] = s12[q]
  PROVE  /\ Publication!LastCallIsTrue' /\ Publication!RacesAreStale' /\ Publication!DesiredIsTrue'
         /\ Publication!DealtWith' /\ Publication!Reconciled'
<1>1. /\ Publication!LastCallIsTrue /\ Publication!RacesAreStale /\ Publication!DesiredIsTrue
      /\ Publication!DealtWith /\ Publication!Reconciled
  BY DEF Publication!Inv
<1>2. /\ \A k : Publication!Busy(k)' = Publication!Busy(k)
      /\ \A k, q : q \in Publication!Busy(k) => q \in Actors \ {p}
  BY OthersAreAsBusy, BusyAreActors
<1>3. Publication!RacesAreStale'
  BY <1>1, <1>2, OthersAreAsBusy DEF Publication!RacesAreStale, Publication!Raced
<1>4. Publication!DesiredIsTrue'
  BY <1>1, <1>2, CallsStay DEF Publication!DesiredIsTrue, Publication!Desired,
                               Publication!Declares, OthersStay
<1>5. Publication!DealtWith'
  BY <1>1, <1>2, CallsStay DEF Publication!DealtWith, Publication!Calm, Publication!Raced, OthersStay
<1>6. Publication!Reconciled'
  BY <1>1, <1>2, CallsStay, OthersAreAsBusy DEF Publication!Reconciled, Publication!Wanted
<1>7. QED
  BY <1>1, <1>3, <1>4, <1>5, <1>6, CallsStay

LEMMA StartKeeps ==
  ASSUME Publication!Inv, NEW p \in Actors, NEW m \in Manifests, Publication!Start(p, m)
  PROVE  Publication!Inv'
<1>1. Publication!Typed /\ Publication!InTurn
  BY DEF Publication!Inv
<1>2. /\ s5[p] = "idle" /\ s5' = [s5 EXCEPT ![p] = "desire"]
      /\ s6' = [s6 EXCEPT ![p] = m] /\ s7' = [s7 EXCEPT ![p] = 1]
      /\ UNCHANGED <<s1, s2, s3, s4, s8, s9, s10, s11, s12, s13>>
  BY DEF Publication!Start, Publication!history
<1>3. /\ KindCount \in Nat \ {0} /\ m \in SUBSET (1..KindCount)
      /\ DOMAIN KindsInTurn = 1..KindCount /\ Publication!Kind = 1..KindCount
  BY <1>1, Turns, PublicationConstants DEF KindsInTurn
<1>4. Publication!Typed'
  BY <1>1, <1>2, <1>3 DEF Publication!Typed, Publication!TypeOK, Publication!Roster
<1>5. /\ \A k : p \notin Publication!Busy(k) /\ p \notin Publication!Busy(k)'
      /\ OthersStay(p)
  BY <1>1, <1>2 DEF Publication!Typed, Publication!TypeOK, Publication!Busy, OthersStay
<1>6. Publication!InTurn'
  BY <1>1, <1>2, <1>3
     DEF Publication!InTurn, Publication!ManifestImpliesRoster, Publication!Typed, Publication!TypeOK
<1>7. QED
  BY <1>2, <1>4, <1>5, <1>6, AsideKeeps DEF Publication!Inv

LEMMA WriteMetaKeeps ==
  ASSUME Publication!Inv, NEW p \in Actors, Publication!WriteMeta(p)
  PROVE  Publication!Inv'
<1>1. Publication!Typed /\ Publication!InTurn
  BY DEF Publication!Inv
<1>2. /\ s5[p] = "meta" /\ s5' = [s5 EXCEPT ![p] = "idle"] /\ s3' = s6[p]
      /\ UNCHANGED <<s1, s2, s4, s6, s7, s8, s9, s10, s11, s12, s13>>
  BY DEF Publication!WriteMeta, Publication!history
<1>3. Publication!Typed'
  BY <1>1, <1>2 DEF Publication!Typed, Publication!TypeOK, Publication!Roster
<1>4. /\ \A k : p \notin Publication!Busy(k) /\ p \notin Publication!Busy(k)'
      /\ OthersStay(p)
  BY <1>1, <1>2 DEF Publication!Typed, Publication!TypeOK, Publication!Busy, OthersStay
<1>5. Publication!InTurn'
  BY <1>1, <1>2
     DEF Publication!InTurn, Publication!ManifestImpliesRoster, Publication!Typed, Publication!TypeOK
<1>6. QED
  BY <1>2, <1>3, <1>4, <1>5, AsideKeeps DEF Publication!Inv

\* Who leaves a kind hands its races on to those who are still there.
LEMMA LeavingKeeps ==
  ASSUME Publication!Inv, NEW p \in Actors, UNCHANGED <<s1, s2, s4>>, OthersStay(p),
         NEW k \in Publication!Kind, p \in Publication!Busy(k), KindsInTurn[s7[p]] = k,
         \A l : p \notin Publication!Busy(l)',
         Publication!Leave(p),
         \A l \in Publication!Kind : l # k => s13'[l] = s13[l],
         \A i \in Id : i \in s13[k] /\ Publication!Raced(k, i) => i \in s13'[k]
  PROVE  /\ Publication!LastCallIsTrue' /\ Publication!RacesAreStale' /\ Publication!DesiredIsTrue'
         /\ Publication!DealtWith'
<1>1. /\ Publication!Typed /\ Publication!LastCallIsTrue /\ Publication!RacesAreStale
      /\ Publication!DesiredIsTrue /\ Publication!DealtWith
  BY DEF Publication!Inv
<1>2. \A l : Publication!Busy(l)' = Publication!Busy(l) \ {p}
  BY OthersAreAsBusy, BusyAreActors
<1>3. /\ \A q \in Publication!Busy(k)' : s12'[q] = s12[q] \cup s12[p]
      /\ \A l, q : q \in Publication!Busy(l)' /\ l # k => s12'[q] = s12[q]
  BY <1>2, BusyAreActors DEF Publication!Leave, Publication!Busy
<1>4. \A l, i : Publication!Raced(l, i)' => Publication!Raced(l, i)
  BY <1>2, <1>3 DEF Publication!Raced
<1>5. \A l, i : Publication!Busy(l)' # {} /\ Publication!Raced(l, i) => Publication!Raced(l, i)'
  BY <1>2, <1>3 DEF Publication!Raced, Publication!Busy
<1>6. Publication!RacesAreStale'
  <2>1. \A l \in Publication!Kind, i \in Id : Publication!Raced(l, i)' => i \in s13'[l]
    BY <1>1, <1>4 DEF Publication!RacesAreStale
  <2>2. ASSUME NEW l \in Publication!Kind, NEW q \in Publication!Busy(l)',
               NEW r \in Publication!Busy(l)', Publication!Declares(q)' # Publication!Declares(r)'
        PROVE  s12'[q] = Id
    <3>1. s12[q] = Id /\ s12[p] \subseteq Id /\ q # p
      BY <1>1, <1>2, <2>2, OthersAreAsBusy, BusyAreActors
         DEF Publication!RacesAreStale, Publication!Typed, Publication!TypeOK
    <3>2. s12'[q] = s12[q] \/ s12'[q] = s12[q] \cup s12[p]
      BY <1>3, <2>2
    <3>3. QED
      BY <3>1, <3>2
  <2>3. QED
    BY <2>1, <2>2 DEF Publication!RacesAreStale
<1>7. Publication!DesiredIsTrue'
  BY <1>1, <1>2, <1>3, CallsStay, BusyAreActors
     DEF Publication!DesiredIsTrue, Publication!Desired, Publication!Declares, OthersStay
<1>8. Publication!DealtWith'
  BY <1>1, <1>2, <1>5, CallsStay, BusyAreActors
     DEF Publication!DealtWith, Publication!Calm, OthersStay
<1>9. QED
  BY <1>1, <1>6, <1>7, <1>8, CallsStay

LEMMA FinishKeeps ==
  ASSUME Publication!Inv, NEW p \in Actors, Publication!FinishKind(p)
  PROVE  Publication!Inv'
<1> DEFINE k == KindsInTurn[s7[p]]
<1>1. /\ Publication!Typed /\ Publication!RacesAreStale /\ Publication!DesiredIsTrue
      /\ Publication!DealtWith /\ Publication!Reconciled /\ Publication!InTurn
  BY DEF Publication!Inv
<1>2. /\ s5[p] = "write" /\ s10[p] = {}
      /\ s11' = [s11 EXCEPT ![k] = Publication!Declared(p)]
      /\ s13' = [s13 EXCEPT ![k] = {i \in s13[k] : Publication!Raced(k, i)}]
      /\ Publication!Leave(p)
      /\ \/ s7[p] < Len(KindsInTurn) /\ s7' = [s7 EXCEPT ![p] = s7[p] + 1]
            /\ s5' = [s5 EXCEPT ![p] = "desire"]
         \/ ~(s7[p] < Len(KindsInTurn)) /\ s5' = [s5 EXCEPT ![p] = "meta"] /\ s7' = s7
      /\ UNCHANGED <<s1, s2, s3, s4, s6, s8, s9, s10>>
  BY DEF Publication!FinishKind, Publication!Raced
<1>3. /\ KindCount \in Nat \ {0} /\ Publication!Kind = 1..KindCount /\ Len(KindsInTurn) = KindCount
      /\ DOMAIN KindsInTurn = 1..KindCount /\ \A n \in 1..KindCount : KindsInTurn[n] = n
      /\ \A q \in Actors : s7[q] \in 1..KindCount
      /\ k \in Publication!Kind
  BY <1>1, Turns DEF KindsInTurn
<1> HIDE DEF k
<1>4. \A q \in Actors : s7'[q] \in 1..KindCount
  <2>1. s7 \in [Actors -> 1..KindCount]
    BY <1>1, <1>3 DEF Publication!Typed, Publication!TypeOK
  <2>2. s7[p] < KindCount => s7[p] + 1 \in 1..KindCount
    BY <1>3
  <2>3. CASE s7' = s7
    BY <2>1, <2>3
  <2>4. CASE s7[p] < KindCount /\ s7' = [s7 EXCEPT ![p] = s7[p] + 1]
    BY <2>1, <2>2, <2>4
  <2>5. QED
    BY <1>2, <1>3, <2>3, <2>4
<1>5. Publication!Typed'
  <2>1. s12' \in [Actors -> SUBSET Id]
    BY <1>1, <1>2 DEF Publication!Leave, Publication!Typed, Publication!TypeOK
  <2>2. s7' \in [Actors -> DOMAIN KindsInTurn]
    BY <1>1, <1>2, <1>3, <1>4 DEF Publication!Typed, Publication!TypeOK
  <2>3. s11' \in [Publication!Kind -> {"never", "declared", "undeclared"}]
    BY <1>1, <1>2, <1>3 DEF Publication!Typed, Publication!TypeOK, Publication!Declared
  <2>4. s13' \in [Publication!Kind -> SUBSET Id]
    BY <1>1, <1>2, <1>3 DEF Publication!Typed, Publication!TypeOK
  <2>5. s5' \in [Actors -> {"idle", "desire", "scan", "write", "meta"}]
    BY <1>1, <1>2 DEF Publication!Typed, Publication!TypeOK
  <2>6. QED
    BY <1>1, <1>2, <2>1, <2>2, <2>3, <2>4, <2>5
       DEF Publication!Typed, Publication!TypeOK, Publication!Roster
<1>6. /\ p \in Publication!Busy(k) /\ OthersStay(p)
      /\ \A l : p \notin Publication!Busy(l)'
  BY <1>1, <1>2 DEF Publication!Typed, Publication!TypeOK, Publication!Busy, OthersStay, k
<1>7. /\ \A l \in Publication!Kind : l # k => s13'[l] = s13[l] /\ s11'[l] = s11[l]
      /\ \A i \in Id : i \in s13'[k] <=> i \in s13[k] /\ Publication!Raced(k, i)
      /\ s11'[k] = Publication!Declared(p)
  BY <1>1, <1>2, <1>3 DEF Publication!Typed, Publication!TypeOK
<1>8. /\ Publication!LastCallIsTrue' /\ Publication!RacesAreStale' /\ Publication!DesiredIsTrue'
      /\ Publication!DealtWith'
  <2>1. KindsInTurn[s7[p]] = k
    BY DEF k
  <2>2. QED
    BY <1>2, <1>3, <1>6, <1>7, <2>1, LeavingKeeps
<1>9. Publication!Reconciled'
  <2> SUFFICES ASSUME NEW l \in Publication!Kind, NEW i \in Id,
                      s11'[l] # "never", ~Publication!Due(l, i)', i \notin s13'[l],
                      \A q \in Publication!Busy(l)' : Publication!Declared(q)' = s11'[l]
               PROVE  s2'[l][i] = Publication!Wanted(l)'[i]
    BY DEF Publication!Reconciled
  <2>1. ~Publication!Due(l, i)
    BY <1>2, CallsStay
  <2>2. CASE l # k
    <3>1. p \notin Publication!Busy(l)
      BY <2>2 DEF Publication!Busy, k
    <3>2. \A q \in Publication!Busy(l) : q \in Publication!Busy(l)' /\ q # p /\ q \in Actors
      BY <1>6, <3>1, OthersAreAsBusy, BusyAreActors
    <3>3. \A q \in Publication!Busy(l) : Publication!Declared(q) = s11[l]
      BY <1>6, <1>7, <2>2, <3>2, OthersAreAsBusy
    <3>4. s2[l][i] = Publication!Wanted(l)[i]
      BY <1>1, <1>7, <2>1, <2>2, <3>3 DEF Publication!Reconciled
    <3>5. QED
      BY <1>2, <1>7, <2>2, <3>4 DEF Publication!Wanted
  <2>3. CASE l = k
    <3>1. ~Publication!Raced(k, i)
      BY <1>1, <1>3, <1>7, <2>3 DEF Publication!RacesAreStale
    <3>2. i \notin s12[p]
      BY <1>6, <3>1 DEF Publication!Raced
    <3>3. s2[k][i] = s8[p][i] \/ s5[p] = "scan"
      BY <1>1, <1>2, <1>3, <1>6, <2>1, <2>3, <3>1 DEF Publication!DealtWith, Publication!Calm
    <3>4. s8[p][i] = Publication!Desired(p)[i]
      BY <1>1, <1>3, <1>6, <2>1, <2>3, <3>2 DEF Publication!DesiredIsTrue
    <3>5. QED
      BY <1>2, <1>7, <2>3, <3>3, <3>4 DEF Publication!Wanted, Publication!Desired,
                                          Publication!Declared, k
  <2>4. QED
    BY <2>2, <2>3
<1>10. Publication!InTurn'
  <2>1. \A l \in Publication!Kind : s11[l] # "never" => s11'[l] # "never"
    BY <1>1, <1>2 DEF Publication!Typed, Publication!TypeOK, Publication!Declared
  <2>2. s11'[k] # "never"
    BY <1>7 DEF Publication!Declared
  <2>3. Publication!ManifestImpliesRoster'
    BY <1>1, <1>2, <2>1 DEF Publication!InTurn, Publication!ManifestImpliesRoster
  <2>4. ASSUME NEW q \in Actors \ {p}
        PROVE  /\ s5'[q] \in {"desire", "scan", "write"} =>
                    \A n \in 1..s7'[q] - 1 : s11'[KindsInTurn[n]] # "never"
               /\ s5'[q] = "meta" => \A l \in Publication!Kind : s11'[l] # "never"
    <3>1. s5'[q] = s5[q] /\ s7'[q] = s7[q] /\ s7[q] \in 1..KindCount
      BY <1>3, <1>6 DEF OthersStay
    <3>2. \A n \in 1..s7[q] - 1 : n \in 1..KindCount
      BY <1>3, <3>1
    <3>3. QED
      BY <1>1, <1>3, <2>1, <3>1, <3>2 DEF Publication!InTurn
  <2>5. \A n \in 1..s7[p] : s11'[n] # "never"
    <3>1. \A n \in 1..s7[p] - 1 : s11[n] # "never" /\ n \in 1..KindCount
      BY <1>1, <1>2, <1>3 DEF Publication!InTurn
    <3>2. k = s7[p]
      BY <1>3 DEF k
    <3>3. QED
      BY <1>3, <2>1, <2>2, <3>1, <3>2
  <2>6. /\ s5'[p] \in {"desire", "scan", "write"} =>
             \A n \in 1..s7'[p] - 1 : s11'[KindsInTurn[n]] # "never"
        /\ s5'[p] = "meta" => \A l \in Publication!Kind : s11'[l] # "never"
    <3>1. s5 \in [Actors -> {"idle", "desire", "scan", "write", "meta"}] /\ s7[p] \in 1..KindCount
          /\ s7 \in [Actors -> DOMAIN KindsInTurn]
      BY <1>1, <1>3 DEF Publication!Typed, Publication!TypeOK
    <3>2. CASE s7' = [s7 EXCEPT ![p] = s7[p] + 1] /\ s5' = [s5 EXCEPT ![p] = "desire"]
               /\ s7[p] < Len(KindsInTurn)
      BY <1>3, <2>5, <3>1, <3>2
    <3>3. CASE s5' = [s5 EXCEPT ![p] = "meta"] /\ ~(s7[p] < Len(KindsInTurn))
      BY <1>3, <2>5, <3>1, <3>3
    <3>4. QED
      BY <1>2, <3>2, <3>3
  <2>7. QED
    BY <2>3, <2>4, <2>6 DEF Publication!InTurn
<1>11. QED
  BY <1>5, <1>8, <1>9, <1>10 DEF Publication!Inv

LEMMA FailKeeps ==
  ASSUME Publication!Inv, NEW p \in Actors, Publication!Fail(p)
  PROVE  Publication!Inv'
<1> DEFINE k == KindsInTurn[s7[p]]
<1>1. /\ Publication!Typed /\ Publication!RacesAreStale /\ Publication!Reconciled
      /\ Publication!InTurn
  BY DEF Publication!Inv
<1>2. /\ s5[p] # "idle" /\ s5' = [s5 EXCEPT ![p] = "idle"] /\ s10' = [s10 EXCEPT ![p] = {}]
      /\ Publication!Leave(p)
      /\ s13' = IF s5[p] \in {"scan", "write"} /\ s11[k] # Publication!Declared(p)
                  THEN [s13 EXCEPT ![k] = Id] ELSE s13
      /\ UNCHANGED <<s1, s2, s3, s4, s6, s7, s8, s9, s11>>
  BY DEF Publication!Fail
<1>3. k \in Publication!Kind
  BY <1>1, Turns DEF KindsInTurn
<1> HIDE DEF k
<1>4. Publication!Typed'
  <2>1. s12' \in [Actors -> SUBSET Id]
    BY <1>1, <1>2 DEF Publication!Leave, Publication!Typed, Publication!TypeOK
  <2>2. s13' \in [Publication!Kind -> SUBSET Id]
    BY <1>1, <1>2, <1>3 DEF Publication!Typed, Publication!TypeOK
  <2>3. QED
    BY <1>1, <1>2, <2>1, <2>2 DEF Publication!Typed, Publication!TypeOK, Publication!Roster
<1>5. OthersStay(p) /\ \A l : p \notin Publication!Busy(l)'
  BY <1>1, <1>2 DEF Publication!Typed, Publication!TypeOK, Publication!Busy, OthersStay
<1>6. Publication!InTurn'
  BY <1>1, <1>2
     DEF Publication!InTurn, Publication!ManifestImpliesRoster, Publication!Typed, Publication!TypeOK
<1>7. CASE s5[p] \notin {"scan", "write"}
  <2>1. \A l : p \notin Publication!Busy(l)
    BY <1>7 DEF Publication!Busy
  <2>2. \A q \in Actors \ {p} : s12'[q] = s12[q]
    BY <1>2, <2>1 DEF Publication!Leave
  <2>3. QED
    BY <1>2, <1>4, <1>5, <1>6, <1>7, <2>1, <2>2, AsideKeeps DEF Publication!Inv
<1>8. CASE s5[p] \in {"scan", "write"}
  <2>1. p \in Publication!Busy(k)
    BY <1>8 DEF Publication!Busy, k
  <2>2. /\ \A l \in Publication!Kind : l # k => s13'[l] = s13[l]
        /\ \A i \in Id : i \in s13[k] => i \in s13'[k]
        /\ s11[k] # Publication!Declared(p) => s13'[k] = Id
    BY <1>1, <1>2, <1>3, <1>8 DEF Publication!Typed, Publication!TypeOK
  <2>3. /\ Publication!LastCallIsTrue' /\ Publication!RacesAreStale' /\ Publication!DesiredIsTrue'
        /\ Publication!DealtWith'
    <3>1. KindsInTurn[s7[p]] = k
      BY DEF k
    <3>2. QED
      BY <1>2, <1>3, <1>5, <2>1, <2>2, <3>1, LeavingKeeps
  <2>4. Publication!Reconciled'
    <3> SUFFICES ASSUME NEW l \in Publication!Kind, NEW i \in Id,
                        s11'[l] # "never", ~Publication!Due(l, i)', i \notin s13'[l],
                        \A q \in Publication!Busy(l)' : Publication!Declared(q)' = s11'[l]
                 PROVE  s2'[l][i] = Publication!Wanted(l)'[i]
      BY DEF Publication!Reconciled
    <3>1. ~Publication!Due(l, i) /\ i \notin s13[l] /\ s11[l] # "never"
      BY <1>2, <2>2, CallsStay
    <3>2. \A q \in Publication!Busy(l) \ {p} : Publication!Declared(q) = s11[l]
      BY <1>2, <1>5, OthersAreAsBusy, BusyAreActors
    <3>3. p \in Publication!Busy(l) => l = k
      BY DEF Publication!Busy, k
    <3>4. \A q \in Publication!Busy(l) : Publication!Declared(q) = s11[l]
      BY <2>2, <3>2, <3>3
    <3>5. QED
      BY <1>1, <1>2, <3>1, <3>4 DEF Publication!Reconciled, Publication!Wanted
  <2>5. QED
    BY <1>4, <1>6, <2>3, <2>4 DEF Publication!Inv
<1>9. QED
  BY <1>7, <1>8

\* The source is read again: nothing has raced with this reconcile yet, but for a version
\* that disagrees with it.
LEMMA DesireKeeps ==
  ASSUME Publication!Inv, NEW p \in Actors, Publication!Desire(p)
  PROVE  Publication!Inv'
<1> DEFINE k == KindsInTurn[s7[p]]
<1>1. /\ Publication!Typed /\ Publication!LastCallIsTrue /\ Publication!RacesAreStale
      /\ Publication!DesiredIsTrue /\ Publication!DealtWith /\ Publication!Reconciled
      /\ Publication!InTurn
  BY DEF Publication!Inv
<1>2. /\ s5[p] = "desire" /\ s5' = [s5 EXCEPT ![p] = "scan"]
      /\ s8' = [s8 EXCEPT ![p] = Publication!Desired(p)]
      /\ s9' = [s9 EXCEPT ![p] = Publication!Nobody]
      /\ s10' = [s10 EXCEPT ![p] = Publication!Live(s2[k])]
      /\ s12' = [q \in Actors |->
                   IF Publication!Rivals(p) # {} /\ q \in Publication!Rivals(p) \cup {p} THEN Id
                   ELSE IF q = p THEN {} ELSE s12[q]]
      /\ s13' = IF Publication!Rivals(p) = {} THEN s13 ELSE [s13 EXCEPT ![k] = Id]
      /\ UNCHANGED <<s1, s2, s3, s4, s6, s7, s11>>
  BY DEF Publication!Desire
<1>3. k \in Publication!Kind
  BY <1>1, Turns DEF KindsInTurn
<1>4. KindsInTurn[s7[p]] = k
  OBVIOUS
<1>5. Publication!Rivals(p) = {q \in Publication!Busy(k) \ {p} :
                                 Publication!Declares(q) # Publication!Declares(p)}
  BY DEF Publication!Rivals
<1> HIDE DEF k
<1>6. Publication!Desired(p) \in [Id -> Good \cup {Void}] /\ Publication!Live(s2[k]) \subseteq Id
      /\ Publication!Nobody \in [Id -> Good \cup {Void}]
  BY <1>1, <1>3, <1>4 DEF Publication!Desired, Publication!Nobody, Publication!Live, Publication!Typed,
                   Publication!TypeOK, Publication!Roster
<1>7. Publication!Typed'
  <2>1. s12' \in [Actors -> SUBSET Id]
    BY <1>1, <1>2 DEF Publication!Typed, Publication!TypeOK
  <2>2. s13' \in [Publication!Kind -> SUBSET Id]
    BY <1>1, <1>2, <1>3 DEF Publication!Typed, Publication!TypeOK
  <2>3. QED
    BY <1>1, <1>2, <1>6, <2>1, <2>2 DEF Publication!Typed, Publication!TypeOK, Publication!Roster
<1>8. /\ OthersStay(p) /\ \A l : p \notin Publication!Busy(l)
      /\ \A l : p \in Publication!Busy(l)' <=> l = k
      /\ s8'[p] = Publication!Desired(p) /\ s9'[p] = Publication!Nobody
      /\ s10'[p] = Publication!Live(s2[k]) /\ s5'[p] = "scan"
  BY <1>1, <1>2, <1>4 DEF Publication!Typed, Publication!TypeOK, Publication!Busy, OthersStay
<1>9. /\ \A l : Publication!Busy(l) \subseteq Publication!Busy(l)' /\ Publication!Busy(l) \subseteq Actors
      /\ \A l : Publication!Busy(l)' \subseteq Publication!Busy(l) \cup {p}
      /\ \A q \in Actors : Publication!Declares(q)' = Publication!Declares(q)
      /\ \A q \in Actors : Publication!Declared(q)' = Publication!Declared(q)
      /\ \A q \in Actors : Publication!Desired(q)' = Publication!Desired(q)
  BY <1>2, <1>8, OthersAreAsBusy, BusyAreActors
     DEF Publication!Declares, Publication!Declared, Publication!Desired
<1>10. /\ \A l, q : q \in Publication!Busy(l) => s12[q] \subseteq s12'[q]
       /\ \A q \in Actors : q # p /\ q \notin Publication!Rivals(p) => s12'[q] = s12[q]
       /\ Publication!Rivals(p) # {} => /\ \A q \in Publication!Rivals(p) : s12'[q] = Id
                                        /\ s12'[p] = Id /\ s13'[k] = Id
       /\ Publication!Rivals(p) = {} => s12'[p] = {} /\ s13' = s13
       /\ \A l \in Publication!Kind : s13[l] \subseteq s13'[l] /\ (l # k => s13'[l] = s13[l])
  BY <1>1, <1>2, <1>3, <1>8, <1>9, BusyAreActors
     DEF Publication!Typed, Publication!TypeOK, Publication!Rivals
<1>11. \A l, i : Publication!Raced(l, i) => Publication!Raced(l, i)'
  BY <1>9, <1>10 DEF Publication!Raced
<1>12. Publication!RacesAreStale'
  <2>1. ASSUME NEW l \in Publication!Kind, NEW i \in Id, Publication!Raced(l, i)'
        PROVE  i \in s13'[l]
    <3>1. CASE l = k /\ Publication!Rivals(p) # {}
      BY <1>10, <3>1
    <3>2. CASE l # k \/ Publication!Rivals(p) = {}
      <4>1. PICK q \in Publication!Busy(l)' : i \in s12'[q]
        BY <2>1 DEF Publication!Raced
      <4>2. q # p
        BY <1>8, <1>10, <3>2, <4>1
      <4>3. q \in Publication!Busy(l) /\ s12'[q] = s12[q]
        BY <1>4, <1>5, <1>9, <1>10, <3>2, <4>1, <4>2 DEF Publication!Busy
      <4>4. QED
        BY <1>1, <1>10, <4>1, <4>3 DEF Publication!RacesAreStale, Publication!Raced
    <3>3. QED
      BY <3>1, <3>2
  <2>2. ASSUME NEW l \in Publication!Kind, NEW q \in Publication!Busy(l)',
               NEW r \in Publication!Busy(l)', Publication!Declares(q)' # Publication!Declares(r)'
        PROVE  s12'[q] = Id
    <3>1. q \in Actors /\ r \in Actors /\ Publication!Declares(q) # Publication!Declares(r)
      BY <1>9, <2>2, BusyAreActors
    <3>2. CASE q = p
      BY <1>5, <1>8, <1>9, <1>10, <2>2, <3>1, <3>2
    <3>3. CASE r = p
      BY <1>5, <1>8, <1>9, <1>10, <2>2, <3>1, <3>3
    <3>4. CASE q # p /\ r # p
      <4>1. s12[q] = Id
        BY <1>1, <1>9, <2>2, <3>1, <3>4 DEF Publication!RacesAreStale
      <4>2. QED
        BY <1>10, <3>1, <3>4, <4>1
    <3>5. QED
      BY <3>2, <3>3, <3>4
  <2>3. QED
    BY <2>1, <2>2 DEF Publication!RacesAreStale
<1>13. Publication!DesiredIsTrue'
  <2> SUFFICES ASSUME NEW l \in Publication!Kind, NEW i \in Id, NEW q \in Publication!Busy(l)',
                      ~Publication!Due(l, i)', i \notin s12'[q]
               PROVE  s8'[q][i] = Publication!Desired(q)'[i]
    BY DEF Publication!DesiredIsTrue
  <2>1. CASE q = p
    BY <1>8, <1>9, <2>1
  <2>2. CASE q # p
    BY <1>1, <1>2, <1>8, <1>9, <1>10, <2>2, CallsStay DEF Publication!DesiredIsTrue, OthersStay
  <2>3. QED
    BY <2>1, <2>2
<1>14. Publication!DealtWith'
  <2> SUFFICES ASSUME NEW l \in Publication!Kind, NEW i \in Id, NEW q \in Publication!Busy(l)',
                      Publication!Calm(l, i)', i \notin s10'[q]
               PROVE  \/ s2'[l][i] = s8'[q][i]
                      \/ s5'[q] = "scan" /\ s9'[q][i] = s2'[l][i]
    BY DEF Publication!DealtWith
  <2>1. CASE q = p
    BY <1>2, <1>8, <2>1 DEF Publication!Live, Publication!Nobody
  <2>2. CASE q # p
    <3>1. Publication!Calm(l, i)
      BY <1>2, <1>11, CallsStay DEF Publication!Calm
    <3>2. q \in Publication!Busy(l) /\ q \in Actors \ {p}
      BY <1>9, <2>2
    <3>3. QED
      BY <1>1, <1>2, <1>8, <3>1, <3>2 DEF Publication!DealtWith, OthersStay
  <2>3. QED
    BY <2>1, <2>2
<1>15. Publication!Reconciled'
  BY <1>1, <1>2, <1>9, <1>10, CallsStay DEF Publication!Reconciled, Publication!Wanted
<1>16. Publication!InTurn'
  BY <1>1, <1>2
     DEF Publication!InTurn, Publication!ManifestImpliesRoster, Publication!Typed, Publication!TypeOK
<1>17. QED
  BY <1>1, <1>2, <1>7, <1>12, <1>13, <1>14, <1>15, <1>16, CallsStay DEF Publication!Inv

\* The steps of a reconcile at its kind: it stays there, and no race is new.
LEMMA AtItsKindKeeps ==
  ASSUME Publication!Inv, NEW p \in Actors, OthersStay(p),
         UNCHANGED <<s1, s3, s4, s6, s7, s8, s11, s12, s13>>,
         s5[p] \in {"scan", "write"}, s5'[p] \in {"scan", "write"}
  PROVE  /\ Publication!LastCallIsTrue' /\ Publication!RacesAreStale' /\ Publication!DesiredIsTrue'
         /\ Publication!InTurn'
         /\ \A l : Publication!Busy(l)' = Publication!Busy(l)
         /\ \A l, i : Publication!Calm(l, i)' <=> Publication!Calm(l, i)
<1>1. /\ Publication!Typed /\ Publication!LastCallIsTrue /\ Publication!RacesAreStale
      /\ Publication!DesiredIsTrue /\ Publication!InTurn
  BY DEF Publication!Inv
<1>2. \A l : Publication!Busy(l)' = Publication!Busy(l)
  BY OthersAreAsBusy, BusyAreActors DEF Publication!Busy
<1>3. \A l, i : Publication!Calm(l, i)' <=> Publication!Calm(l, i)
  BY <1>2, CallsStay DEF Publication!Calm, Publication!Raced
<1>4. Publication!RacesAreStale'
  BY <1>1, <1>2 DEF Publication!RacesAreStale, Publication!Raced, Publication!Declares
<1>5. Publication!DesiredIsTrue'
  BY <1>1, <1>2, CallsStay DEF Publication!DesiredIsTrue, Publication!Desired, Publication!Declares
<1>6. Publication!InTurn'
  BY <1>1 DEF Publication!InTurn, Publication!ManifestImpliesRoster, OthersStay
<1>7. QED
  BY <1>1, <1>2, <1>3, <1>4, <1>5, <1>6, CallsStay

LEMMA ScanKeeps ==
  ASSUME Publication!Inv, NEW p \in Actors, NEW i,
         Publication!Scan(p, i) \/ Publication!Compare(p)
  PROVE  Publication!Inv'
<1>1. Publication!Typed /\ Publication!DealtWith /\ Publication!Reconciled
  BY DEF Publication!Inv
<1>2. /\ s5[p] = "scan" /\ UNCHANGED <<s1, s2, s3, s4, s6, s7, s8, s11, s12, s13>>
      /\ \/ /\ i \in s10[p] /\ s5' = s5
            /\ s9' = [s9 EXCEPT ![p][i] = s2[KindsInTurn[s7[p]]][i]]
            /\ s10' = [s10 EXCEPT ![p] = s10[p] \ {i}]
         \/ /\ s10[p] = {} /\ s9' = s9 /\ s5' = [s5 EXCEPT ![p] = "write"]
            /\ s10' = [s10 EXCEPT ![p] = Publication!Ops(p)]
  BY DEF Publication!Scan, Publication!Compare, Publication!history
<1>3. KindsInTurn[s7[p]] \in Publication!Kind
  BY <1>1, Turns
<1>4. Publication!Typed'
  <2>1. s9' \in [Actors -> [Id -> Good \cup {Void}]]
    <3>1. s9 \in [Actors -> [Id -> Good \cup {Void}]] /\ s2 \in [Publication!Kind -> [Id -> Good \cup {Void}]]
      BY <1>1 DEF Publication!Typed, Publication!TypeOK, Publication!Roster
    <3>2. i \in s10[p] => i \in Id /\ s2[KindsInTurn[s7[p]]][i] \in Good \cup {Void}
      BY <1>1, <1>3, <3>1 DEF Publication!Typed, Publication!TypeOK
    <3>3. QED
      BY <1>2, <3>1, <3>2
  <2>2. s10' \in [Actors -> SUBSET Id]
    BY <1>1, <1>2 DEF Publication!Typed, Publication!TypeOK, Publication!Ops
  <2>3. QED
    BY <1>1, <1>2, <2>1, <2>2 DEF Publication!Typed, Publication!TypeOK, Publication!Roster
<1>5. OthersStay(p) /\ s5'[p] \in {"scan", "write"}
  BY <1>1, <1>2 DEF OthersStay, Publication!Typed, Publication!TypeOK
<1>6. /\ Publication!LastCallIsTrue' /\ Publication!RacesAreStale' /\ Publication!DesiredIsTrue'
      /\ Publication!InTurn'
      /\ \A l : Publication!Busy(l)' = Publication!Busy(l)
      /\ \A l, j : Publication!Calm(l, j)' <=> Publication!Calm(l, j)
  BY <1>2, <1>5, AtItsKindKeeps
<1>7. Publication!DealtWith'
  <2> SUFFICES ASSUME NEW l \in Publication!Kind, NEW j \in Id, NEW q \in Publication!Busy(l),
                      Publication!Calm(l, j), j \notin s10'[q]
               PROVE  \/ s2[l][j] = s8[q][j]
                      \/ s5'[q] = "scan" /\ s9'[q][j] = s2[l][j]
    BY <1>2, <1>6 DEF Publication!DealtWith
  <2>1. q \in Actors
    BY DEF Publication!Busy
  <2>2. CASE q # p
    BY <1>1, <1>5, <2>1, <2>2 DEF Publication!DealtWith, OthersStay
  <2>3. CASE q = p
    <3>1. l = KindsInTurn[s7[p]]
      BY <2>3 DEF Publication!Busy
    <3>2. j \notin s10[p] => s2[l][j] = s8[p][j] \/ s9[p][j] = s2[l][j]
      BY <1>1, <2>3 DEF Publication!DealtWith
    <3>3. CASE s5' = s5
      BY <1>1, <1>2, <2>3, <3>1, <3>2, <3>3 DEF Publication!Typed, Publication!TypeOK, Publication!Roster
    <3>4. CASE s5' # s5
      BY <1>1, <1>2, <2>3, <3>1, <3>2, <3>4 DEF Publication!Typed, Publication!TypeOK, Publication!Ops
    <3>5. QED
      BY <3>3, <3>4
  <2>4. QED
    BY <2>2, <2>3
<1>8. Publication!Reconciled'
  BY <1>1, <1>2, <1>6, CallsStay
     DEF Publication!Reconciled, Publication!Wanted, Publication!Declared, Publication!Declares
<1>9. QED
  BY <1>4, <1>6, <1>7, <1>8 DEF Publication!Inv

\* What is written is what the other reconciles of the kind have read too, or it is a race.
LEMMA WriteKeeps ==
  ASSUME Publication!Inv, NEW p \in Actors, NEW i \in Id, Publication!Write(p, i)
  PROVE  Publication!Inv'
<1> DEFINE k == KindsInTurn[s7[p]]
<1>1. /\ Publication!Typed /\ Publication!RacesAreStale /\ Publication!DesiredIsTrue
      /\ Publication!DealtWith /\ Publication!Reconciled
  BY DEF Publication!Inv
<1>2. /\ s5[p] = "write" /\ s2' = [s2 EXCEPT ![k][i] = s8[p][i]]
      /\ s10' = [s10 EXCEPT ![p] = s10[p] \ {i}]
      /\ UNCHANGED <<s1, s3, s4, s5, s6, s7, s8, s9, s11, s12, s13>>
  BY DEF Publication!Write, Publication!history
<1>3. k \in Publication!Kind
  BY <1>1, Turns
<1>4. p \in Publication!Busy(k)
  BY <1>2 DEF Publication!Busy
<1>5. KindsInTurn[s7[p]] = k
  OBVIOUS
<1> HIDE DEF k
<1>6. /\ s2 \in [Publication!Kind -> [Id -> Good \cup {Void}]] /\ s8 \in [Actors -> [Id -> Good \cup {Void}]]
      /\ s8[p][i] \in Good \cup {Void}
  BY <1>1 DEF Publication!Typed, Publication!TypeOK, Publication!Roster
<1>7. /\ s2' \in [Publication!Kind -> [Id -> Good \cup {Void}]]
      /\ s2'[k][i] = s8[p][i]
      /\ \A l \in Publication!Kind, j \in Id : l # k \/ j # i => s2'[l][j] = s2[l][j]
  BY <1>2, <1>3, <1>6
<1>8. Publication!Typed'
  <2>1. s10' \in [Actors -> SUBSET Id]
    BY <1>1, <1>2 DEF Publication!Typed, Publication!TypeOK
  <2>2. QED
    BY <1>1, <1>2, <1>7, <2>1 DEF Publication!Typed, Publication!TypeOK, Publication!Roster
<1>9. OthersStay(p) /\ s5'[p] = "write"
  BY <1>1, <1>2 DEF OthersStay, Publication!Typed, Publication!TypeOK
<1>10. /\ Publication!LastCallIsTrue' /\ Publication!RacesAreStale' /\ Publication!DesiredIsTrue'
       /\ Publication!InTurn'
       /\ \A l : Publication!Busy(l)' = Publication!Busy(l)
       /\ \A l, j : Publication!Calm(l, j)' <=> Publication!Calm(l, j)
  BY <1>2, <1>9, AtItsKindKeeps
<1>11. Publication!DealtWith'
  <2> SUFFICES ASSUME NEW l \in Publication!Kind, NEW j \in Id, NEW q \in Publication!Busy(l),
                      Publication!Calm(l, j), j \notin s10'[q]
               PROVE  \/ s2'[l][j] = s8[q][j]
                      \/ s5[q] = "scan" /\ s9[q][j] = s2'[l][j]
    BY <1>2, <1>10 DEF Publication!DealtWith
  <2>1. q \in Actors
    BY DEF Publication!Busy
  <2>2. CASE l # k \/ j # i
    <3>1. s2'[l][j] = s2[l][j] /\ (q = p => l = k)
      BY <1>5, <1>7, <2>2 DEF Publication!Busy
    <3>2. j \notin s10[q]
      BY <1>1, <1>2, <2>1, <2>2, <3>1 DEF Publication!Typed, Publication!TypeOK
    <3>3. QED
      BY <1>1, <3>1, <3>2 DEF Publication!DealtWith
  <2>3. CASE l = k /\ j = i
    <3>1. /\ ~Publication!Due(k, i) /\ i \notin s12[p] /\ i \notin s12[q]
      BY <1>4, <2>3 DEF Publication!Calm, Publication!Raced
    <3>2. Publication!Declares(p) <=> Publication!Declares(q)
      BY <1>1, <1>3, <1>4, <2>3, <3>1 DEF Publication!RacesAreStale, Publication!Declares
    <3>3. /\ s8[p][i] = Publication!Desired(p)[i] /\ s8[q][i] = Publication!Desired(q)[i]
      BY <1>1, <1>3, <1>4, <2>3, <3>1 DEF Publication!DesiredIsTrue
    <3>4. KindsInTurn[s7[q]] = k
      BY <2>3 DEF Publication!Busy
    <3>5. QED
      BY <1>5, <1>7, <2>3, <3>2, <3>3, <3>4 DEF Publication!Desired
  <2>4. QED
    BY <2>2, <2>3
<1>12. Publication!Reconciled'
  <2> SUFFICES ASSUME NEW l \in Publication!Kind, NEW j \in Id,
                      s11[l] # "never", ~Publication!Due(l, j), j \notin s13[l],
                      \A q \in Publication!Busy(l) : Publication!Declared(q) = s11[l]
               PROVE  s2'[l][j] = Publication!Wanted(l)[j]
    BY <1>2, <1>10, CallsStay
       DEF Publication!Reconciled, Publication!Wanted, Publication!Declared, Publication!Declares
  <2>1. CASE l # k \/ j # i
    BY <1>1, <1>7, <2>1 DEF Publication!Reconciled
  <2>2. CASE l = k /\ j = i
    <3>1. i \notin s12[p]
      BY <1>1, <1>3, <1>4, <2>2 DEF Publication!RacesAreStale, Publication!Raced
    <3>2. s8[p][i] = Publication!Desired(p)[i]
      BY <1>1, <1>3, <1>4, <2>2, <3>1 DEF Publication!DesiredIsTrue
    <3>3. Publication!Declared(p) = s11[k]
      BY <1>4, <2>2
    <3>4. QED
      BY <1>5, <1>7, <2>2, <3>2, <3>3
         DEF Publication!Desired, Publication!Wanted, Publication!Declared, Publication!Declares
  <2>3. QED
    BY <2>1, <2>2
<1>13. QED
  BY <1>8, <1>10, <1>11, <1>12 DEF Publication!Inv

\* The first call is the last of its id, or another one is still due.
LEMMA FirstCall ==
  ASSUME Publication!Typed, Publication!LastCallIsTrue, s4 # <<>>, s4' = Tail(s4), s1' = s1
  PROVE  /\ Head(s4) \in Publication!CallOn /\ s4' \in Seq(Publication!CallOn)
         /\ Publication!LastCallIsTrue'
         /\ \A k, i : Publication!Due(k, i)' => Publication!Due(k, i)
         /\ \A k, i : /\ Publication!Due(k, i) /\ ~Publication!Due(k, i)'
                         => Head(s4).kind = k /\ Head(s4).id = i /\ Head(s4).value = s1[k][i]
         /\ \A k, i : Head(s4).kind = k /\ Head(s4).id = i => Publication!Due(k, i)
<1>1. s4 \in Seq(Publication!CallOn) /\ Len(s4) \in Nat
  BY CallsAreCalls
<1>2. /\ Head(s4) = s4[1] /\ s4' \in Seq(Publication!CallOn) /\ Len(s4') = Len(s4) - 1
      /\ \A n \in 1..Len(s4') : s4'[n] = s4[n + 1]
  BY <1>1, HeadTailProperties
<1>3. Len(s4) \in Nat \ {0}
  BY <1>1, EmptySeq
<1>4. 1 \in 1..Len(s4) /\ Head(s4) \in Publication!CallOn
  BY <1>1, <1>2, <1>3, CallsAreCalls
<1>5. \A n \in 1..Len(s4') : n + 1 \in 1..Len(s4)
  BY <1>2, <1>3
<1>6. \A n \in 1..Len(s4) : n # 1 => n - 1 \in 1..Len(s4') /\ s4'[n - 1] = s4[n]
  BY <1>2, <1>3
<1>7. Publication!LastCallIsTrue'
  <2> SUFFICES ASSUME NEW n \in 1..Len(s4'),
                      ~\E m \in n + 1..Len(s4') : s4'[m].kind = s4'[n].kind /\ s4'[m].id = s4'[n].id
               PROVE  s4'[n].value = s1'[s4'[n].kind][s4'[n].id]
    BY DEF Publication!LastCallIsTrue
  <2>1. ~\E m \in n + 1 + 1..Len(s4) : s4[m].kind = s4[n + 1].kind /\ s4[m].id = s4[n + 1].id
    <3> SUFFICES ASSUME NEW m \in n + 1 + 1..Len(s4),
                        s4[m].kind = s4[n + 1].kind /\ s4[m].id = s4[n + 1].id
                 PROVE  FALSE
      OBVIOUS
    <3>1. m - 1 \in n + 1..Len(s4') /\ s4'[m - 1] = s4[m] /\ s4'[n] = s4[n + 1]
      BY <1>2, <1>3, <1>6
    <3>2. QED
      BY <3>1
  <2>2. QED
    BY <1>2, <1>5, <2>1 DEF Publication!LastCallIsTrue
<1>8. \A k, i : Publication!Due(k, i)' => Publication!Due(k, i)
  BY <1>2, <1>5 DEF Publication!Due
<1>9. ASSUME NEW k, NEW i, Publication!Due(k, i), ~Publication!Due(k, i)'
      PROVE  Head(s4).kind = k /\ Head(s4).id = i /\ Head(s4).value = s1[k][i]
  <2>1. \A n \in 1..Len(s4) : n # 1 => ~(s4[n].kind = k /\ s4[n].id = i)
    BY <1>6, <1>9 DEF Publication!Due
  <2>2. s4[1].kind = k /\ s4[1].id = i
    BY <1>9, <2>1 DEF Publication!Due
  <2>3. ~\E m \in 1 + 1..Len(s4) : s4[m].kind = s4[1].kind /\ s4[m].id = s4[1].id
    BY <2>1, <2>2, <1>3
  <2>4. QED
    BY <1>2, <1>4, <2>2, <2>3 DEF Publication!LastCallIsTrue
<1>10. \A k, i : Head(s4).kind = k /\ Head(s4).id = i => Publication!Due(k, i)
  BY <1>2, <1>4 DEF Publication!Due
<1>11. QED
  BY <1>2, <1>4, <1>7, <1>8, <1>9, <1>10

\* A call races with every reconcile of its kind, whether it succeeds or is lost.
LEMMA CallKeeps ==
  ASSUME Publication!Inv, Publication!Call \/ Publication!CallFails
  PROVE  Publication!Inv'
<1> DEFINE c == Head(s4)
           k == c.kind
           i == c.id
<1>1. /\ Publication!Typed /\ Publication!LastCallIsTrue /\ Publication!RacesAreStale
      /\ Publication!DesiredIsTrue /\ Publication!DealtWith /\ Publication!Reconciled
      /\ Publication!InTurn
  BY DEF Publication!Inv
<1>2. /\ s4 # <<>> /\ s4' = Tail(s4) /\ Publication!Touch(c)
      /\ UNCHANGED <<s1, s3, s5, s6, s7, s8, s9, s10, s11>>
      /\ \/ /\ s2' = [s2 EXCEPT ![k][i] = c.value]
            /\ s13' = IF Publication!Busy(k) # {} \/ s11[k] = "undeclared"
                        THEN [s13 EXCEPT ![k] = s13[k] \cup {i}] ELSE s13
         \/ s2' = s2 /\ s13' = [s13 EXCEPT ![k] = s13[k] \cup {i}]
  BY DEF Publication!Call, Publication!CallFails, Publication!pass
<1>3. /\ c \in Publication!CallOn /\ s4' \in Seq(Publication!CallOn)
      /\ Publication!LastCallIsTrue'
      /\ \A l, j : Publication!Due(l, j)' => Publication!Due(l, j)
      /\ \A l, j : /\ Publication!Due(l, j) /\ ~Publication!Due(l, j)'
                      => k = l /\ i = j /\ c.value = s1[l][j]
  BY <1>1, <1>2, FirstCall
<1>4. k \in Publication!Kind /\ i \in Id /\ c.value \in Good \cup {Void} /\ Publication!Due(k, i)
  BY <1>1, <1>2, <1>3, FirstCall DEF Publication!CallOn
<1>5. s12' = [q \in Actors |-> IF q \in Publication!Busy(k) THEN s12[q] \cup {i} ELSE s12[q]]
  BY <1>2 DEF Publication!Touch
<1> HIDE DEF c, k, i
<1>6. /\ s2 \in [Publication!Kind -> [Id -> Good \cup {Void}]]
      /\ s2' \in [Publication!Kind -> [Id -> Good \cup {Void}]]
      /\ \A l \in Publication!Kind, j \in Id : l # k \/ j # i => s2'[l][j] = s2[l][j]
  <2>1. s2 \in [Publication!Kind -> [Id -> Good \cup {Void}]]
    BY <1>1 DEF Publication!Typed, Publication!TypeOK, Publication!Roster
  <2>2. QED
    BY <1>2, <1>4, <2>1
<1>7. /\ \A l \in Publication!Kind : s13[l] \subseteq s13'[l]
      /\ \A l \in Publication!Kind, j \in Id : l # k \/ j # i => (j \in s13'[l] <=> j \in s13[l])
      /\ i \notin s13'[k] => Publication!Busy(k) = {} /\ s11[k] # "undeclared" /\ s2'[k][i] = c.value
      /\ s13' \in [Publication!Kind -> SUBSET Id]
  <2>1. s13 \in [Publication!Kind -> SUBSET Id]
    BY <1>1 DEF Publication!Typed, Publication!TypeOK
  <2>2. CASE s13' = [s13 EXCEPT ![k] = s13[k] \cup {i}]
    BY <1>4, <2>1, <2>2
  <2>3. CASE /\ s13' = s13 /\ s2' = [s2 EXCEPT ![k][i] = c.value]
             /\ ~(Publication!Busy(k) # {} \/ s11[k] = "undeclared")
    BY <1>4, <1>6, <2>1, <2>3
  <2>4. QED
    BY <1>2, <2>2, <2>3
<1>8. Publication!Typed'
  <2>1. s12' \in [Actors -> SUBSET Id]
    BY <1>1, <1>4, <1>5 DEF Publication!Typed, Publication!TypeOK
  <2>2. QED
    BY <1>1, <1>2, <1>3, <1>6, <1>7, <2>1
       DEF Publication!Typed, Publication!TypeOK, Publication!Roster
<1>9. /\ \A l : Publication!Busy(l)' = Publication!Busy(l) /\ Publication!Busy(l) \subseteq Actors
      /\ \A q : /\ Publication!Declares(q)' = Publication!Declares(q)
                /\ Publication!Declared(q)' = Publication!Declared(q)
                /\ Publication!Desired(q)' = Publication!Desired(q)
  BY <1>2 DEF Publication!Busy, Publication!Declares, Publication!Declared, Publication!Desired
<1>10. \A l \in Publication!Kind : \A q \in Publication!Busy(l) :
         s12'[q] = IF l = k THEN s12[q] \cup {i} ELSE s12[q]
  <2>1. \A l, q : q \in Publication!Busy(l) => l = KindsInTurn[s7[q]]
    BY DEF Publication!Busy
  <2>2. QED
    BY <1>5, <1>9, <2>1
<1>11. \A l \in Publication!Kind, j \in Id :
         Publication!Raced(l, j)' <=>
           Publication!Raced(l, j) \/ (l = k /\ j = i /\ Publication!Busy(k) # {})
  BY <1>9, <1>10 DEF Publication!Raced
<1>12. Publication!RacesAreStale'
  <2>1. \A l \in Publication!Kind, j \in Id : Publication!Raced(l, j)' => j \in s13'[l]
    BY <1>1, <1>4, <1>7, <1>11 DEF Publication!RacesAreStale
  <2>2. ASSUME NEW l \in Publication!Kind, NEW q \in Publication!Busy(l),
               NEW r \in Publication!Busy(l), Publication!Declares(q) # Publication!Declares(r)
        PROVE  s12'[q] = Id
    <3>1. s12[q] = Id
      BY <1>1, <2>2 DEF Publication!RacesAreStale
    <3>2. QED
      BY <1>4, <1>10, <3>1
  <2>3. QED
    BY <1>9, <2>1, <2>2 DEF Publication!RacesAreStale
<1>13. Publication!DesiredIsTrue'
  <2> SUFFICES ASSUME NEW l \in Publication!Kind, NEW j \in Id, NEW q \in Publication!Busy(l),
                      ~Publication!Due(l, j)', j \notin s12'[q]
               PROVE  s8[q][j] = Publication!Desired(q)[j]
    BY <1>2, <1>9 DEF Publication!DesiredIsTrue
  <2>1. l # k \/ j # i
    BY <1>10
  <2>2. ~Publication!Due(l, j) /\ j \notin s12[q]
    BY <1>3, <1>10, <2>1
  <2>3. QED
    BY <1>1, <2>2 DEF Publication!DesiredIsTrue
<1>14. Publication!DealtWith'
  <2> SUFFICES ASSUME NEW l \in Publication!Kind, NEW j \in Id, NEW q \in Publication!Busy(l),
                      Publication!Calm(l, j)', j \notin s10[q]
               PROVE  \/ s2'[l][j] = s8[q][j]
                      \/ s5[q] = "scan" /\ s9[q][j] = s2'[l][j]
    BY <1>2, <1>9 DEF Publication!DealtWith
  <2>1. l # k \/ j # i
    BY <1>11 DEF Publication!Calm
  <2>2. Publication!Calm(l, j) /\ s2'[l][j] = s2[l][j]
    BY <1>3, <1>6, <1>11, <2>1 DEF Publication!Calm
  <2>3. QED
    BY <1>1, <2>2 DEF Publication!DealtWith
<1>15. Publication!Reconciled'
  <2> SUFFICES ASSUME NEW l \in Publication!Kind, NEW j \in Id,
                      s11[l] # "never", ~Publication!Due(l, j)', j \notin s13'[l],
                      \A q \in Publication!Busy(l) : Publication!Declared(q) = s11[l]
               PROVE  s2'[l][j] = Publication!Wanted(l)[j]
    BY <1>2, <1>9 DEF Publication!Reconciled, Publication!Wanted
  <2>1. CASE l # k \/ j # i
    BY <1>1, <1>3, <1>6, <1>7, <2>1 DEF Publication!Reconciled
  <2>2. CASE l = k /\ j = i
    <3>1. s11[l] = "declared"
      BY <1>1, <1>4, <1>7, <2>2 DEF Publication!Typed, Publication!TypeOK
    <3>2. c.value = s1[k][i]
      BY <1>3, <1>4, <2>2
    <3>3. QED
      BY <1>7, <2>2, <3>1, <3>2 DEF Publication!Wanted
  <2>3. QED
    BY <2>1, <2>2
<1>16. Publication!InTurn'
  BY <1>1, <1>2 DEF Publication!InTurn, Publication!ManifestImpliesRoster
<1>17. QED
  BY <1>3, <1>8, <1>12, <1>13, <1>14, <1>15, <1>16 DEF Publication!Inv

LEMMA PublicationNext == PublicationInv /\ [ProvedNext]_vars => PublicationInv'
<1>1. SUFFICES ASSUME PublicationInv, [ProvedNext]_vars, part' = "publication"
               PROVE  Publication!Inv'
  BY DEF PublicationInv
<1>2. Publication!Inv /\ [Publication!Next]_(Publication!vars)
  BY <1>1 DEF PublicationInv, ProvedNext, vars, Publication!vars, Publication!pass,
              Publication!history
<1>3. CASE Publication!Next
  <2>1. ASSUME NEW k \in Publication!Kind, NEW i \in Id, NEW v \in Good \cup {Void},
               Publication!Event(k, i, v)
        PROVE  Publication!Inv'
    BY <1>2, <2>1, EventKeeps
  <2>2. CASE Publication!Call \/ Publication!CallFails
    BY <1>2, <2>2, CallKeeps
  <2>3. ASSUME NEW p \in Actors, NEW m \in Manifests, Publication!Start(p, m)
        PROVE  Publication!Inv'
    BY <1>2, <2>3, StartKeeps
  <2>4. ASSUME NEW p \in Actors, Publication!Desire(p) \/ Publication!FinishKind(p)
                                 \/ Publication!WriteMeta(p) \/ Publication!Fail(p)
        PROVE  Publication!Inv'
    BY <1>2, <2>4, DesireKeeps, FinishKeeps, WriteMetaKeeps, FailKeeps
  <2>5. ASSUME NEW p \in Actors, NEW i, Publication!Scan(p, i) \/ Publication!Compare(p)
        PROVE  Publication!Inv'
    BY <1>2, <2>5, ScanKeeps
  <2>6. ASSUME NEW p \in Actors, NEW i \in Id, Publication!Write(p, i)
        PROVE  Publication!Inv'
    BY <1>2, <2>6, WriteKeeps
  <2>7. QED
    BY <1>3, <2>1, <2>2, <2>3, <2>4, <2>5, <2>6 DEF Publication!Next
<1>4. CASE UNCHANGED Publication!vars
  <2>1. UNCHANGED <<s1, s2, s3, s4, s5, s6, s7, s8, s9, s10, s11, s12, s13>>
    BY <1>4 DEF Publication!vars, Publication!pass, Publication!history
  <2>2. Publication!Typed' /\ Publication!InTurn'
    BY <1>2, <2>1 DEF Publication!Inv, Publication!Typed, Publication!TypeOK, Publication!InTurn,
                      Publication!ManifestImpliesRoster
  <2>3. \A k : Publication!Busy(k)' = Publication!Busy(k)
    BY <2>1 DEF Publication!Busy
  <2>4. Publication!RacesAreStale' /\ Publication!DesiredIsTrue' /\ Publication!DealtWith'
    BY <1>2, <2>1, <2>3, CallsStay
       DEF Publication!Inv, Publication!RacesAreStale, Publication!DesiredIsTrue,
           Publication!DealtWith, Publication!Calm, Publication!Raced, Publication!Declares,
           Publication!Desired
  <2>5. Publication!Reconciled'
    BY <1>2, <2>1, <2>3, CallsStay
       DEF Publication!Inv, Publication!Reconciled, Publication!Wanted, Publication!Declared,
           Publication!Declares
  <2>6. QED
    BY <1>2, <2>1, <2>2, <2>4, <2>5, CallsStay DEF Publication!Inv
<1>5. QED
  BY <1>2, <1>3, <1>4

\* With every call made and no reconcile running, a kind that was ever reconciled holds the
\* source's roster, whatever failed, died or ran at the same time, but for the ids on record
\* as raced; and no manifest is there before every kind was reconciled (reconcile.rs).
THEOREM PublicationCorrect == ProvedSpec => []PublicationHolds
<1>1. ASSUME Publication!Inv
      PROVE  Publication!TypeOK /\ Publication!RosterIsTruth /\ Publication!ManifestImpliesRoster
  <2>1. /\ Publication!Typed /\ Publication!Reconciled /\ Publication!InTurn
    BY <1>1 DEF Publication!Inv
  <2>2. ASSUME Publication!Quiet, NEW k \in Publication!Kind, s11[k] # "never", NEW i \in Id,
               i \notin s13[k]
        PROVE  s2[k][i] = Publication!Wanted(k)[i]
    <3>1. \A S : <<>> \in Seq(S) /\ Len(<<>>) = 0
      BY EmptySeq
    <3>2. Publication!Busy(k) = {} /\ ~Publication!Due(k, i)
      BY <2>2, <3>1 DEF Publication!Quiet, Publication!Busy, Publication!Due
    <3>3. QED
      BY <2>1, <2>2, <3>2 DEF Publication!Reconciled
  <2>3. QED
    BY <2>1, <2>2 DEF Publication!RosterIsTruth, Publication!Typed, Publication!InTurn
<1>2. PublicationInv => PublicationHolds
  BY <1>1 DEF PublicationInv, PublicationHolds
<1>3. QED
  BY PublicationInit, PublicationNext, <1>2, PTL DEF ProvedSpec

-----------------------------------------------------------------------------
(* DatabaseBoot: per replica s1 build, s2 step, s3 at; s4 holder; per replica s5 attempts,  *)
(* s6 overlapped, s7 beaten, s8 recorded, s9 next, s10 ran, s11 noted; per database s12     *)
(* ledger, s13 legacy, s14 schema, s15 old; per replica s16 why; s17 mishaps.               *)

DatabaseInv == part = "database" => Migrations!Inv

LEMMA DatabaseInit == ProvedInit => DatabaseInv
<1> SUFFICES ASSUME ProvedInit, part = "database" PROVE Migrations!Inv
  BY DEF DatabaseInv
<1>1. Migrations!Init
  BY DEF ProvedInit
<1>2. /\ s1 \in [BootReplica -> Builds] /\ s14 \in [Database -> [1..MaxVersion -> Sum \cup {NoSum}]]
      /\ MaxVersion \in Nat /\ MaxAttempts \in Nat \ {0}
  BY <1>1, MigrationsConstants DEF Migrations!Init, Migrations!Version
<1>3. Migrations!Typed
  <2>1. Migrations!TypeOK
    BY <1>1, <1>2, MigrationsConstants DEF Migrations!Init, Migrations!TypeOK, Migrations!Version,
       Migrations!Step
  <2>2. QED
    BY <1>1, <1>2, <2>1 DEF Migrations!Init, Migrations!Typed, Migrations!Version
<1>4. /\ \A r \in BootReplica : s3[r] = "out" /\ s11[r] = {} /\ s10[r] = {} /\ s16[r] = "none"
                               /\ s5[r] = 0 /\ s7[r] = 0
      /\ \A d \in Database : /\ s15[d] = "out"
                             /\ \A v \in 1..MaxVersion : s12[d][v] = NoSum /\ s13[d][v] = NoSum
                                                         /\ s14[d][v] = NoSum
  BY <1>1 DEF Migrations!Init, Migrations!Version
<1>5. Migrations!LockHeld /\ Migrations!ReadsTheLedger /\ Migrations!NotedWithReason
  BY <1>4 DEF Migrations!LockHeld, Migrations!ReadsTheLedger, Migrations!NotedWithReason
<1>6. Migrations!AttemptsCounted /\ Migrations!FailedForAReason /\ Migrations!ContentionIsForeign
      /\ Migrations!NobodyStopsAnother
  BY <1>2, <1>4 DEF Migrations!AttemptsCounted, Migrations!FailedForAReason,
     Migrations!ContentionIsForeign, Migrations!NobodyStopsAnother
<1>7. Migrations!TablesAgree
  BY <1>4 DEF Migrations!TablesAgree, Migrations!LedgerIsTheSchema, Migrations!Version
<1>8. QED
  BY <1>3, <1>5, <1>6, <1>7 DEF Migrations!Inv

\* What the tables of all databases say, and what was built from them.
LEMMA TablesStay ==
  ASSUME Migrations!Inv, UNCHANGED <<s1, s12, s13, s14, s15>>
  PROVE  Migrations!TablesAgree'
BY DEF Migrations!Inv, Migrations!TablesAgree, Migrations!LedgerIsTheSchema

\* A replica's transaction ends or moves on, and everyone else's stays what it was.
ElsewhereSame(r) ==
  \A q \in BootReplica \ {r} :
    /\ s2'[q] = s2[q] /\ s3'[q] = s3[q] /\ s8'[q] = s8[q] /\ s9'[q] = s9[q] /\ s10'[q] = s10[q]
    /\ s11'[q] = s11[q] /\ s16'[q] = s16[q]
    /\ s3[q] # "out" => s4'[Home[q]][s2[q]] = s4[Home[q]][s2[q]]

LEMMA OwnTransaction ==
  ASSUME Migrations!Inv, NEW r \in BootReplica, ElsewhereSame(r), UNCHANGED <<s1, s12, s13, s14, s15>>,
         s3'[r] # "out" => s2'[r] \in Migrations!Step /\ s4'[Home[r]][s2'[r]] = r,
         s3'[r] \in {"read", "creating"} => s2'[r] = "ledger" /\ s8'[r] = s12[Home[r]],
         s3'[r] \notin {"read", "creating"} => s11'[r] = {},
         s3'[r] = "creating" => /\ s9'[r] \in Migrations!Version
                                /\ s1[r][s9'[r]] # NoSum /\ s8'[r][s9'[r]] = NoSum,
         s10'[r] \subseteq s11'[r],
         \A v \in s11'[r] :
           /\ s1[r][v] # NoSum
           /\ v \in s10'[r] => s14[Home[r]][v] = NoSum /\ (v = 1 => s15[Home[r]] # "in")
           /\ v \notin s10'[r] => s13[Home[r]][v] = s1[r][v]
  PROVE  /\ Migrations!LockHeld' /\ Migrations!ReadsTheLedger' /\ Migrations!NotedWithReason'
         /\ Migrations!TablesAgree'
<1>1. Migrations!LockHeld /\ Migrations!ReadsTheLedger /\ Migrations!NotedWithReason
  BY DEF Migrations!Inv
<1>2. Migrations!LockHeld'
  BY <1>1 DEF Migrations!LockHeld, ElsewhereSame
<1>3. Migrations!ReadsTheLedger'
  BY <1>1 DEF Migrations!ReadsTheLedger, ElsewhereSame
<1>4. Migrations!NotedWithReason'
  BY <1>1 DEF Migrations!NotedWithReason, ElsewhereSame
<1>5. QED
  BY <1>2, <1>3, <1>4, TablesStay

\* Only the lock that r holds is given back.
LEMMA UnlockFrees ==
  ASSUME Migrations!Typed, Migrations!LockHeld, NEW r \in BootReplica, Migrations!Unlock(r)
  PROVE  /\ s4' \in [Database -> [Migrations!Step -> BootReplica \cup {NoSum}]]
         /\ \A q \in BootReplica \ {r} :
              s3[q] # "out" => s4'[Home[q]][s2[q]] = s4[Home[q]][s2[q]]
<1>1. \A q \in BootReplica : Home[q] \in Database
  BY MigrationsConstants
<1>2. s4 \in [Database -> [Migrations!Step -> BootReplica \cup {NoSum}]]
  BY DEF Migrations!Typed, Migrations!TypeOK
<1>3. QED
  BY <1>1, <1>2 DEF Migrations!Unlock, Migrations!LockHeld

LEMMA DatabaseFacts ==
  ASSUME Migrations!Inv
  PROVE  /\ Migrations!Typed /\ Migrations!LockHeld /\ Migrations!ReadsTheLedger
         /\ Migrations!NotedWithReason /\ Migrations!AttemptsCounted
         /\ Migrations!FailedForAReason /\ Migrations!ContentionIsForeign
         /\ Migrations!NobodyStopsAnother /\ Migrations!TablesAgree
         /\ s2 \in [BootReplica -> {"role", "ledger", "grant", "ready", "failed"}]
         /\ s3 \in [BootReplica -> {"out", "begun", "read", "creating"}]
         /\ s4 \in [Database -> [Migrations!Step -> BootReplica \cup {NoSum}]]
         /\ s5 \in [BootReplica -> 0..MaxAttempts] /\ s7 \in [BootReplica -> Nat]
         /\ s6 \in [BootReplica -> BOOLEAN]
         /\ s16 \in [BootReplica -> {"none", "contention", "mismatch", "exists", "mishap"}]
         /\ \A r \in BootReplica : Home[r] \in Database
         /\ MaxVersion \in Nat \ {0} /\ MaxAttempts \in Nat \ {0}
<1>1. Migrations!Typed /\ Migrations!TypeOK
  BY DEF Migrations!Inv, Migrations!Typed
<1>2. \A r \in BootReplica : Home[r] \in Database
  BY MigrationsConstants
<1>3. MaxVersion \in Nat \ {0} /\ MaxAttempts \in Nat \ {0}
  BY MigrationsConstants
<1>4. /\ Migrations!LockHeld /\ Migrations!ReadsTheLedger
      /\ Migrations!NotedWithReason /\ Migrations!AttemptsCounted
      /\ Migrations!FailedForAReason /\ Migrations!ContentionIsForeign
      /\ Migrations!NobodyStopsAnother /\ Migrations!TablesAgree
  BY DEF Migrations!Inv
<1>5. /\ s4 \in [Database -> [Migrations!Step -> BootReplica \cup {NoSum}]]
      /\ s2 \in [BootReplica -> {"role", "ledger", "grant", "ready", "failed"}]
  BY <1>1 DEF Migrations!TypeOK, Migrations!Step
<1>6. s6 \in [BootReplica -> BOOLEAN]
  BY <1>1 DEF Migrations!Typed
<1>7. /\ s3 \in [BootReplica -> {"out", "begun", "read", "creating"}]
      /\ s5 \in [BootReplica -> 0..MaxAttempts] /\ s7 \in [BootReplica -> Nat]
      /\ s16 \in [BootReplica -> {"none", "contention", "mismatch", "exists", "mishap"}]
  BY <1>1 DEF Migrations!TypeOK
<1>8. QED
  BY <1>1, <1>2, <1>3, <1>4, <1>5, <1>6, <1>7

\* A boot fails: its transaction rolls back, and the reason is a good one.
LEMMA GiveUpKeeps ==
  ASSUME Migrations!Inv, NEW r \in BootReplica,
         NEW reason \in {"contention", "mismatch", "exists", "mishap"},
         Migrations!GiveUp(r, reason), UNCHANGED <<s1, s5, s6, s7, s12, s13, s14, s15>>,
         reason = "contention" => MaxAttempts <= s7[r],
         reason = "exists" => s15[Home[r]] = "gone" /\ s13[Home[r]][1] # NoSum,
         reason = "mismatch" => \E q \in BootReplica : Home[q] = Home[r] /\ s1[q] # s1[r]
  PROVE  Migrations!Inv'
<1>1. /\ s2' = [s2 EXCEPT ![r] = "failed"] /\ s3' = [s3 EXCEPT ![r] = "out"]
      /\ s16' = [s16 EXCEPT ![r] = reason] /\ Migrations!Unlock(r)
      /\ s8' = [s8 EXCEPT ![r] = [v \in Migrations!Version |-> NoSum]]
      /\ s9' = [s9 EXCEPT ![r] = 1]
      /\ s10' = [s10 EXCEPT ![r] = {}] /\ s11' = [s11 EXCEPT ![r] = {}]
  BY DEF Migrations!GiveUp, Migrations!Forget
<1>2. /\ s4' \in [Database -> [Migrations!Step -> BootReplica \cup {NoSum}]]
      /\ \A q \in BootReplica \ {r} : s3[q] # "out" => s4'[Home[q]][s2[q]] = s4[Home[q]][s2[q]]
  BY <1>1, DatabaseFacts, UnlockFrees
<1>3. Migrations!Typed'
  <2>1. s8' \in [BootReplica -> [Migrations!Version -> Sum \cup {NoSum}]]
    BY <1>1, DatabaseFacts DEF Migrations!Typed
  <2>2. 1 \in 1..(MaxVersion + 1)
    BY DatabaseFacts
  <2>3. Migrations!TypeOK'
    BY <1>1, <1>2, <2>2, DatabaseFacts DEF Migrations!Typed, Migrations!TypeOK
  <2>4. QED
    BY <2>1, <2>3, DatabaseFacts DEF Migrations!Typed, Migrations!Version
<1>4. ElsewhereSame(r) /\ s3'[r] = "out" /\ s10'[r] = {} /\ s11'[r] = {}
  BY <1>1, <1>2, DatabaseFacts DEF ElsewhereSame, Migrations!Typed, Migrations!TypeOK
<1>5. /\ Migrations!LockHeld' /\ Migrations!ReadsTheLedger' /\ Migrations!NotedWithReason'
      /\ Migrations!TablesAgree'
  BY <1>4, OwnTransaction
<1>6. Migrations!AttemptsCounted'
  BY <1>1, DatabaseFacts DEF Migrations!AttemptsCounted, Migrations!Step
<1>7. Migrations!FailedForAReason'
  BY <1>1, DatabaseFacts DEF Migrations!FailedForAReason
<1>8. Migrations!ContentionIsForeign'
  BY <1>1, DatabaseFacts DEF Migrations!ContentionIsForeign
<1>9. Migrations!NobodyStopsAnother'
  BY <1>1, DatabaseFacts DEF Migrations!NobodyStopsAnother
<1>10. QED
  BY <1>3, <1>5, <1>6, <1>7, <1>8, <1>9 DEF Migrations!Inv

LEMMA BeginKeeps ==
  ASSUME Migrations!Inv, NEW r \in BootReplica, Migrations!Begin(r)
  PROVE  Migrations!Inv'
<1>1. /\ s2[r] \in Migrations!Step /\ s3[r] = "out" /\ s4[Home[r]][s2[r]] = NoSum
      /\ s4' = [s4 EXCEPT ![Home[r]][s2[r]] = r] /\ s3' = [s3 EXCEPT ![r] = "begun"]
      /\ s5' = [s5 EXCEPT ![r] = s5[r] + 1] /\ s6' = [s6 EXCEPT ![r] = FALSE]
      /\ UNCHANGED <<s1, s2, s7, s8, s9, s10, s11, s12, s13, s14, s15, s16>>
  BY DEF Migrations!Begin, Migrations!Lock, Migrations!tx, Migrations!tables
<1>2. s5[r] < MaxAttempts /\ s5[r] <= s7[r]
  BY <1>1, DatabaseFacts DEF Migrations!AttemptsCounted
<1>3. /\ s4' \in [Database -> [Migrations!Step -> BootReplica \cup {NoSum}]]
      /\ s4'[Home[r]][s2[r]] = r
      /\ \A q \in BootReplica \ {r} : s3[q] # "out" => s4'[Home[q]][s2[q]] = s4[Home[q]][s2[q]]
  BY <1>1, DatabaseFacts, MigrationsConstants DEF Migrations!LockHeld
<1>4. s5' \in [BootReplica -> 0..MaxAttempts] /\ s5'[r] = s5[r] + 1
      /\ \A q \in BootReplica \ {r} : s5'[q] = s5[q]
  BY <1>1, <1>2, DatabaseFacts
<1>5. Migrations!Typed'
  <2>1. Migrations!TypeOK'
    BY <1>1, <1>3, <1>4, DatabaseFacts DEF Migrations!Typed, Migrations!TypeOK
  <2>2. s6' \in [BootReplica -> BOOLEAN]
    BY <1>1, DatabaseFacts
  <2>3. QED
    BY <1>1, <2>1, <2>2, DatabaseFacts DEF Migrations!Typed
<1>6. /\ ElsewhereSame(r) /\ s3'[r] = "begun" /\ s11'[r] = {} /\ s10'[r] = {}
  BY <1>1, <1>3, DatabaseFacts
     DEF ElsewhereSame, Migrations!ReadsTheLedger, Migrations!NotedWithReason
<1>7. /\ Migrations!LockHeld' /\ Migrations!ReadsTheLedger' /\ Migrations!NotedWithReason'
      /\ Migrations!TablesAgree'
  BY <1>1, <1>3, <1>6, OwnTransaction
<1>8. Migrations!AttemptsCounted'
  <2>1. ASSUME NEW q \in BootReplica \ {r}
        PROVE  s2'[q] = s2[q] /\ s3'[q] = s3[q] /\ s5'[q] = s5[q] /\ s6'[q] = s6[q] /\ s7'[q] = s7[q]
    BY <1>1, <1>4, DatabaseFacts
  <2>2. s3'[r] = "begun" /\ s6'[r] = FALSE /\ s5'[r] > 0 /\ s5'[r] <= s7'[r] + 1
    BY <1>1, <1>2, <1>4, DatabaseFacts
  <2>3. QED
    BY <2>1, <2>2, DatabaseFacts DEF Migrations!AttemptsCounted
<1>9. /\ Migrations!FailedForAReason' /\ Migrations!ContentionIsForeign'
      /\ Migrations!NobodyStopsAnother'
  BY <1>1, DatabaseFacts DEF Migrations!FailedForAReason, Migrations!ContentionIsForeign,
     Migrations!NobodyStopsAnother
<1>10. QED
  BY <1>5, <1>7, <1>8, <1>9 DEF Migrations!Inv

\* A commit in the catalog overtakes only transactions of other databases.
LEMMA CommitCatalogKeeps ==
  ASSUME Migrations!Inv, NEW r \in BootReplica, Migrations!CommitCatalog(r)
  PROVE  Migrations!Inv'
<1>1. /\ s2[r] \in {"role", "grant"} /\ s3[r] = "begun"
      /\ s2' = [s2 EXCEPT ![r] = IF s2[r] = "role" THEN "ledger" ELSE "ready"]
      /\ s3' = [s3 EXCEPT ![r] = "out"] /\ s5' = [s5 EXCEPT ![r] = 0] /\ Migrations!Unlock(r)
      /\ s6' = [q \in BootReplica |-> s6[q] \/ (Migrations!SameRows(r, q) /\ s3[q] = "begun")]
      /\ s7' = [q \in BootReplica |->
                  IF q = r THEN 0
                  ELSE IF Migrations!SameRows(r, q) /\ s5[q] > 0 /\ Home[q] # Home[r]
                    THEN s7[q] + 1 ELSE s7[q]]
      /\ UNCHANGED <<s1, s8, s9, s10, s11, s12, s13, s14, s15, s16>>
  BY DEF Migrations!CommitCatalog, Migrations!Advance, Migrations!tx, Migrations!tables
<1>2. /\ s4' \in [Database -> [Migrations!Step -> BootReplica \cup {NoSum}]]
      /\ \A q \in BootReplica \ {r} : s3[q] # "out" => s4'[Home[q]][s2[q]] = s4[Home[q]][s2[q]]
  BY <1>1, DatabaseFacts, UnlockFrees
<1>3. /\ s7' \in [BootReplica -> Nat] /\ \A q \in BootReplica \ {r} : s7[q] <= s7'[q]
      /\ s6' \in [BootReplica -> BOOLEAN]
  BY <1>1, DatabaseFacts
<1>4. Migrations!Typed'
  <2>1. s2' \in [BootReplica -> Migrations!Step \cup {"ready", "failed"}]
    BY <1>1, DatabaseFacts DEF Migrations!Step
  <2>2. Migrations!TypeOK'
    BY <1>1, <1>2, <1>3, <2>1, DatabaseFacts DEF Migrations!Typed, Migrations!TypeOK
  <2>3. QED
    BY <1>1, <1>3, <2>2, DatabaseFacts DEF Migrations!Typed
<1>5. ElsewhereSame(r) /\ s3'[r] = "out" /\ s10'[r] = {} /\ s11'[r] = {}
  BY <1>1, <1>2, DatabaseFacts
     DEF ElsewhereSame, Migrations!ReadsTheLedger, Migrations!NotedWithReason
<1>6. /\ Migrations!LockHeld' /\ Migrations!ReadsTheLedger' /\ Migrations!NotedWithReason'
      /\ Migrations!TablesAgree'
  BY <1>1, <1>5, OwnTransaction
<1>7. Migrations!AttemptsCounted'
  <2> SUFFICES ASSUME NEW q \in BootReplica, s2'[q] \in Migrations!Step
               PROVE  /\ s3'[q] = "out" => s5'[q] < MaxAttempts /\ s5'[q] <= s7'[q]
                      /\ s3'[q] = "begun" => /\ s5'[q] > 0 /\ s5'[q] <= s7'[q] + 1
                                             /\ s6'[q] => s5'[q] <= s7'[q]
    BY DEF Migrations!AttemptsCounted
  <2>1. CASE q = r
    <3>1. s3'[q] = "out" /\ s5'[q] = 0 /\ s7'[q] = 0
      BY <1>1, <2>1, DatabaseFacts
    <3>2. QED
      BY <3>1, DatabaseFacts
  <2>2. CASE q # r
    <3>1. s2'[q] = s2[q] /\ s3'[q] = s3[q] /\ s5'[q] = s5[q] /\ s7[q] <= s7'[q]
      BY <1>1, <1>3, <2>2, DatabaseFacts
    <3>2. s5[q] \in 0..MaxAttempts /\ s7[q] \in Nat /\ s7'[q] \in Nat
      BY <1>3, DatabaseFacts
    <3>3. /\ s3[q] = "out" => s5[q] < MaxAttempts /\ s5[q] <= s7[q]
          /\ s3[q] = "begun" => /\ s5[q] > 0 /\ s5[q] <= s7[q] + 1
                                /\ s6[q] => s5[q] <= s7[q]
      BY <3>1, DatabaseFacts DEF Migrations!AttemptsCounted
    <3>4. ASSUME s3[q] = "begun", s6'[q], ~s6[q]
          PROVE  s7'[q] = s7[q] + 1
      <4>1. Migrations!SameRows(r, q)
        BY <1>1, <3>4
      <4>2. s2[q] = s2[r] /\ s4[Home[q]][s2[q]] = q /\ s4[Home[r]][s2[r]] = r
        BY <1>1, <3>4, <4>1, DatabaseFacts DEF Migrations!SameRows, Migrations!LockHeld
      <4>3. Home[q] # Home[r]
        BY <2>2, <4>2
      <4>4. QED
        BY <1>1, <2>2, <3>3, <3>4, <4>1, <4>3
    <3>5. QED
      BY <3>1, <3>2, <3>3, <3>4
  <2>3. QED
    BY <2>1, <2>2
<1>8. /\ s2[r] # "failed" /\ s16[r] = "none"
  BY <1>1, DatabaseFacts DEF Migrations!FailedForAReason
<1>9. Migrations!FailedForAReason' /\ Migrations!NobodyStopsAnother'
  BY <1>1, <1>8, DatabaseFacts DEF Migrations!FailedForAReason, Migrations!NobodyStopsAnother
<1>10. Migrations!ContentionIsForeign'
  <2> SUFFICES ASSUME NEW q \in BootReplica, s16[q] = "contention" PROVE s7'[q] >= MaxAttempts
    BY <1>1 DEF Migrations!ContentionIsForeign
  <2>1. q # r /\ s7[q] >= MaxAttempts /\ s7[q] <= s7'[q]
    BY <1>3, <1>8, DatabaseFacts DEF Migrations!ContentionIsForeign
  <2>2. s7[q] \in Nat /\ s7'[q] \in Nat
    BY <1>3, DatabaseFacts
  <2>3. QED
    BY <2>1, <2>2, DatabaseFacts
<1>11. QED
  BY <1>4, <1>6, <1>7, <1>9, <1>10 DEF Migrations!Inv

\* A step that collides has been overtaken by another database's.
LEMMA CollideKeeps ==
  ASSUME Migrations!Inv, NEW r \in BootReplica, Migrations!Collide(r)
  PROVE  Migrations!Inv'
<1>1. /\ s3[r] = "begun" /\ s6[r] /\ UNCHANGED <<s1, s5, s6, s7, s12, s13, s14, s15>>
  BY DEF Migrations!Collide, Migrations!tables
<1>2. /\ s2[r] \in Migrations!Step /\ s5[r] \in 0..MaxAttempts /\ s7[r] \in Nat
      /\ s5[r] > 0 /\ s5[r] <= s7[r]
  BY <1>1, DatabaseFacts DEF Migrations!LockHeld, Migrations!AttemptsCounted
<1>3. CASE Migrations!TriesAgain(r)
  <2>1. /\ s3' = [s3 EXCEPT ![r] = "out"] /\ Migrations!Unlock(r)
        /\ UNCHANGED <<s2, s8, s9, s10, s11, s16>> /\ s5[r] < MaxAttempts
    BY <1>3 DEF Migrations!Collide, Migrations!TriesAgain, Migrations!tx
  <2>2. /\ s4' \in [Database -> [Migrations!Step -> BootReplica \cup {NoSum}]]
        /\ \A q \in BootReplica \ {r} : s3[q] # "out" => s4'[Home[q]][s2[q]] = s4[Home[q]][s2[q]]
    BY <2>1, DatabaseFacts, UnlockFrees
  <2>3. Migrations!Typed'
    BY <1>1, <2>1, <2>2, DatabaseFacts DEF Migrations!Typed, Migrations!TypeOK
  <2>4. ElsewhereSame(r) /\ s3'[r] = "out" /\ s10'[r] = {} /\ s11'[r] = {}
    BY <1>1, <2>1, <2>2, DatabaseFacts
       DEF ElsewhereSame, Migrations!ReadsTheLedger, Migrations!NotedWithReason
  <2>5. /\ Migrations!LockHeld' /\ Migrations!ReadsTheLedger' /\ Migrations!NotedWithReason'
        /\ Migrations!TablesAgree'
    BY <1>1, <2>4, OwnTransaction
  <2>6. Migrations!AttemptsCounted'
    BY <1>1, <1>2, <2>1, DatabaseFacts DEF Migrations!AttemptsCounted
  <2>7. /\ Migrations!FailedForAReason' /\ Migrations!ContentionIsForeign'
        /\ Migrations!NobodyStopsAnother'
    BY <1>1, <2>1, DatabaseFacts DEF Migrations!FailedForAReason, Migrations!ContentionIsForeign,
       Migrations!NobodyStopsAnother
  <2>8. QED
    BY <2>3, <2>5, <2>6, <2>7 DEF Migrations!Inv
<1>4. CASE ~Migrations!TriesAgain(r)
  <2>1. Migrations!GiveUp(r, "contention")
    BY <1>4 DEF Migrations!Collide
  <2>2. MaxAttempts <= s7[r]
    BY <1>2, <1>4, DatabaseFacts DEF Migrations!TriesAgain
  <2>3. QED
    BY <1>1, <2>1, <2>2, GiveUpKeeps
<1>5. QED
  BY <1>3, <1>4

LEMMA MishapKeeps ==
  ASSUME Migrations!Inv, NEW r \in BootReplica, Migrations!Mishap(r)
  PROVE  Migrations!Inv'
BY GiveUpKeeps DEF Migrations!Mishap, Migrations!tables

LEMMA RestartKeeps ==
  ASSUME Migrations!Inv, NEW r \in BootReplica, Migrations!Restart(r)
  PROVE  Migrations!Inv'
<1>1. /\ s2[r] = "failed" /\ s2' = [s2 EXCEPT ![r] = "role"] /\ s16' = [s16 EXCEPT ![r] = "none"]
      /\ s5' = [s5 EXCEPT ![r] = 0] /\ s7' = [s7 EXCEPT ![r] = 0]
      /\ UNCHANGED <<s1, s3, s4, s6, s8, s9, s10, s11, s12, s13, s14, s15>>
  BY DEF Migrations!Restart, Migrations!tx, Migrations!tables
<1>2. s3[r] = "out"
  BY <1>1, DatabaseFacts DEF Migrations!LockHeld, Migrations!Step
<1>3. Migrations!Typed'
  <2>1. s2' \in [BootReplica -> Migrations!Step \cup {"ready", "failed"}]
    BY <1>1, DatabaseFacts DEF Migrations!Step
  <2>2. Migrations!TypeOK'
    BY <1>1, <2>1, DatabaseFacts DEF Migrations!Typed, Migrations!TypeOK
  <2>3. QED
    BY <1>1, <2>2, DatabaseFacts DEF Migrations!Typed
<1>4. ElsewhereSame(r) /\ s3'[r] = "out" /\ s10'[r] = {} /\ s11'[r] = {}
  BY <1>1, <1>2, DatabaseFacts
     DEF ElsewhereSame, Migrations!ReadsTheLedger, Migrations!NotedWithReason
<1>5. /\ Migrations!LockHeld' /\ Migrations!ReadsTheLedger' /\ Migrations!NotedWithReason'
      /\ Migrations!TablesAgree'
  BY <1>1, <1>4, OwnTransaction
<1>6. Migrations!AttemptsCounted'
  <2>1. s3'[r] = "out" /\ s5'[r] = 0 /\ s7'[r] = 0
    BY <1>1, <1>2, DatabaseFacts
  <2>2. ASSUME NEW q \in BootReplica \ {r}
        PROVE  s2'[q] = s2[q] /\ s3'[q] = s3[q] /\ s5'[q] = s5[q] /\ s6'[q] = s6[q] /\ s7'[q] = s7[q]
    BY <1>1, DatabaseFacts
  <2>3. QED
    BY <2>1, <2>2, DatabaseFacts DEF Migrations!AttemptsCounted
<1>7. Migrations!FailedForAReason' /\ Migrations!NobodyStopsAnother'
  BY <1>1, DatabaseFacts DEF Migrations!FailedForAReason, Migrations!NobodyStopsAnother
<1>8. Migrations!ContentionIsForeign'
  BY <1>1, DatabaseFacts DEF Migrations!ContentionIsForeign
<1>9. QED
  BY <1>3, <1>5, <1>6, <1>7, <1>8 DEF Migrations!Inv

\* What does not touch the attempts of a replica that is migrating.
LEMMA BootsStay ==
  ASSUME Migrations!Inv, NEW r \in BootReplica, s2[r] = "ledger", s3[r] # "out",
         s3' \in [BootReplica -> {"out", "begun", "read", "creating"}], s3'[r] \in {"read", "creating"},
         \A q \in BootReplica \ {r} : s3'[q] = s3[q],
         UNCHANGED <<s1, s2, s5, s6, s7, s13, s15, s16>>
  PROVE  /\ Migrations!AttemptsCounted' /\ Migrations!FailedForAReason'
         /\ Migrations!ContentionIsForeign' /\ Migrations!NobodyStopsAnother'
<1>1. Migrations!AttemptsCounted'
  BY DatabaseFacts DEF Migrations!AttemptsCounted
<1>2. /\ Migrations!FailedForAReason' /\ Migrations!ContentionIsForeign'
      /\ Migrations!NobodyStopsAnother'
  BY DatabaseFacts DEF Migrations!FailedForAReason, Migrations!ContentionIsForeign,
     Migrations!NobodyStopsAnother
<1>3. QED
  BY <1>1, <1>2

LEMMA ReadLedgerKeeps ==
  ASSUME Migrations!Inv, NEW r \in BootReplica, Migrations!ReadLedger(r)
  PROVE  Migrations!Inv'
<1>1. /\ s2[r] = "ledger" /\ s3[r] = "begun" /\ s8' = [s8 EXCEPT ![r] = s12[Home[r]]]
      /\ s3' = [s3 EXCEPT ![r] = "read"]
      /\ UNCHANGED <<s1, s2, s4, s5, s6, s7, s9, s10, s11, s12, s13, s14, s15, s16>>
  BY DEF Migrations!ReadLedger, Migrations!tables
<1>2. s12 \in [Database -> [Migrations!Version -> Sum \cup {NoSum}]]
      /\ s8 \in [BootReplica -> [Migrations!Version -> Sum \cup {NoSum}]]
  BY DatabaseFacts DEF Migrations!Typed, Migrations!TypeOK
<1>3. s8' \in [BootReplica -> [Migrations!Version -> Sum \cup {NoSum}]]
      /\ s3' \in [BootReplica -> {"out", "begun", "read", "creating"}] /\ s3'[r] = "read"
      /\ s8'[r] = s12[Home[r]]
  BY <1>1, <1>2, DatabaseFacts
<1>4. Migrations!Typed'
  <2>1. Migrations!TypeOK'
    BY <1>1, <1>3, DatabaseFacts DEF Migrations!Typed, Migrations!TypeOK
  <2>2. QED
    BY <1>1, <1>3, <2>1, DatabaseFacts DEF Migrations!Typed, Migrations!Version
<1>5. ElsewhereSame(r) /\ s10'[r] = {} /\ s11'[r] = {}
  BY <1>1, DatabaseFacts
     DEF ElsewhereSame, Migrations!ReadsTheLedger, Migrations!NotedWithReason
<1>6. s2'[r] \in Migrations!Step /\ s4'[Home[r]][s2'[r]] = r /\ s2'[r] = "ledger"
  BY <1>1, DatabaseFacts DEF Migrations!LockHeld
<1>7. /\ Migrations!LockHeld' /\ Migrations!ReadsTheLedger' /\ Migrations!NotedWithReason'
      /\ Migrations!TablesAgree'
  BY <1>1, <1>3, <1>5, <1>6, OwnTransaction
<1>8. /\ Migrations!AttemptsCounted' /\ Migrations!FailedForAReason'
      /\ Migrations!ContentionIsForeign' /\ Migrations!NobodyStopsAnother'
  BY <1>1, <1>3, BootsStay
<1>9. QED
  BY <1>4, <1>7, <1>8 DEF Migrations!Inv

\* A version is passed over or noted, and its reason is there.
LEMMA NoteKeeps ==
  ASSUME Migrations!Inv, NEW r \in BootReplica, s3[r] \in {"read", "creating"}, s9[r] \in Migrations!Version,
         s3' = [s3 EXCEPT ![r] = "read"], s9' = [s9 EXCEPT ![r] = s9[r] + 1],
         UNCHANGED <<s1, s2, s4, s5, s6, s7, s8, s12, s13, s14, s15, s16>>,
         s10' = [s10 EXCEPT ![r] = s10'[r]], s11' = [s11 EXCEPT ![r] = s11'[r]],
         s10'[r] \subseteq s11'[r], s11'[r] \subseteq Migrations!Version,
         \A v \in s11'[r] :
           /\ s1[r][v] # NoSum
           /\ v \in s10'[r] => s14[Home[r]][v] = NoSum /\ (v = 1 => s15[Home[r]] # "in")
           /\ v \notin s10'[r] => s13[Home[r]][v] = s1[r][v]
  PROVE  Migrations!Inv'
<1>1. /\ s2[r] = "ledger" /\ s8[r] = s12[Home[r]] /\ s2[r] \in Migrations!Step
      /\ s4[Home[r]][s2[r]] = r
  BY DatabaseFacts DEF Migrations!ReadsTheLedger, Migrations!LockHeld
<1>2. /\ s10 \in [BootReplica -> SUBSET Migrations!Version]
      /\ s11 \in [BootReplica -> SUBSET Migrations!Version]
      /\ s9 \in [BootReplica -> 1..(MaxVersion + 1)]
  BY DatabaseFacts DEF Migrations!Typed, Migrations!TypeOK
<1>3. s10' \in [BootReplica -> SUBSET Migrations!Version]
      /\ s11' \in [BootReplica -> SUBSET Migrations!Version]
  BY <1>2
<1>4. s9[r] + 1 \in 1..(MaxVersion + 1)
  BY <1>2, DatabaseFacts DEF Migrations!Version
<1>5. s9' \in [BootReplica -> 1..(MaxVersion + 1)]
  BY <1>2, <1>4
<1>6. Migrations!Typed'
  <2>1. s3' \in [BootReplica -> {"out", "begun", "read", "creating"}]
    BY DatabaseFacts
  <2>2. QED
    BY <1>3, <1>5, <2>1, DatabaseFacts DEF Migrations!Typed, Migrations!TypeOK
<1>7. ElsewhereSame(r) /\ s3'[r] = "read"
  BY <1>2, DatabaseFacts DEF ElsewhereSame
<1>8. /\ Migrations!LockHeld' /\ Migrations!ReadsTheLedger' /\ Migrations!NotedWithReason'
      /\ Migrations!TablesAgree'
  BY <1>1, <1>7, OwnTransaction
<1>9. /\ Migrations!AttemptsCounted' /\ Migrations!FailedForAReason'
      /\ Migrations!ContentionIsForeign' /\ Migrations!NobodyStopsAnother'
  <2>1. s3' \in [BootReplica -> {"out", "begun", "read", "creating"}]
        /\ \A q \in BootReplica \ {r} : s3'[q] = s3[q]
    BY DatabaseFacts
  <2>2. QED
    BY <1>1, <1>7, <2>1, BootsStay
<1>10. QED
  BY <1>6, <1>8, <1>9 DEF Migrations!Inv

\* What a transaction that has read the ledger knows.
LEMMA LedgerWasRead ==
  ASSUME Migrations!Inv, NEW r \in BootReplica, s3[r] \in {"read", "creating"}
  PROVE  /\ s2[r] = "ledger" /\ s8[r] = s12[Home[r]] /\ Home[r] \in Database
         /\ s2[r] \in Migrations!Step /\ s4[Home[r]][s2[r]] = r
         /\ s9 \in [BootReplica -> 1..(MaxVersion + 1)]
         /\ s10 \in [BootReplica -> SUBSET Migrations!Version]
         /\ s11 \in [BootReplica -> SUBSET Migrations!Version]
         /\ s10[r] \subseteq s11[r] /\ s11[r] \subseteq Migrations!Version
         /\ \A w \in s11[r] :
              /\ s1[r][w] # NoSum
              /\ w \in s10[r] => s14[Home[r]][w] = NoSum /\ (w = 1 => s15[Home[r]] # "in")
              /\ w \notin s10[r] => s13[Home[r]][w] = s1[r][w]
BY DatabaseFacts DEF Migrations!Typed, Migrations!TypeOK, Migrations!ReadsTheLedger,
   Migrations!NotedWithReason, Migrations!LockHeld

\* A migration nobody has recorded: the replica goes on to its SQL.
LEMMA LooksInVain ==
  ASSUME Migrations!Inv, NEW r \in BootReplica, s3[r] = "read", s9[r] \in Migrations!Version,
         s1[r][s9[r]] # NoSum, s8[r][s9[r]] = NoSum,
         s3' = [s3 EXCEPT ![r] = "creating"],
         UNCHANGED <<s1, s2, s4, s5, s6, s7, s8, s9, s10, s11, s12, s13, s14, s15, s16>>
  PROVE  Migrations!Inv'
<1>1. s3' \in [BootReplica -> {"out", "begun", "read", "creating"}] /\ s3'[r] = "creating"
      /\ \A q \in BootReplica \ {r} : s3'[q] = s3[q]
  BY DatabaseFacts
<1>2. Migrations!Typed'
  BY <1>1, DatabaseFacts DEF Migrations!Typed, Migrations!TypeOK
<1>3. ElsewhereSame(r)
  BY <1>1 DEF ElsewhereSame
<1>4. /\ Migrations!LockHeld' /\ Migrations!ReadsTheLedger' /\ Migrations!NotedWithReason'
      /\ Migrations!TablesAgree'
  BY <1>1, <1>3, LedgerWasRead, OwnTransaction
<1>5. /\ Migrations!AttemptsCounted' /\ Migrations!FailedForAReason'
      /\ Migrations!ContentionIsForeign' /\ Migrations!NobodyStopsAnother'
  BY <1>1, LedgerWasRead, BootsStay
<1>6. QED
  BY <1>2, <1>4, <1>5 DEF Migrations!Inv

LEMMA ApplyNextKeeps ==
  ASSUME Migrations!Inv, NEW r \in BootReplica, Migrations!ApplyNext(r)
  PROVE  Migrations!Inv'
<1> DEFINE d == Home[r]
           v == s9[r]
<1>1. /\ s3[r] = "read" /\ v \in Migrations!Version /\ v = s9[r] /\ d = Home[r] /\ d \in Database
      /\ UNCHANGED <<s1, s5, s6, s7, s12, s13, s14, s15>>
      /\ s3 = [s3 EXCEPT ![r] = "read"]
  BY DatabaseFacts DEF Migrations!ApplyNext, Migrations!tables
<1>2. /\ s8[r] = s12[d]
      /\ s10 \in [BootReplica -> SUBSET Migrations!Version]
      /\ s11 \in [BootReplica -> SUBSET Migrations!Version]
      /\ s10[r] \subseteq s11[r]
      /\ \A w \in s11[r] :
           /\ s1[r][w] # NoSum
           /\ w \in s10[r] => s14[d][w] = NoSum /\ (w = 1 => s15[d] # "in")
           /\ w \notin s10[r] => s13[d][w] = s1[r][w]
  BY <1>1, LedgerWasRead
<1>3. \/ /\ s9' = [s9 EXCEPT ![r] = v + 1]
         /\ UNCHANGED <<s2, s3, s4, s8, s10, s11, s16>>
      \/ /\ s1[r][v] # NoSum /\ s8[r][v] \notin {NoSum, s1[r][v]}
         /\ Migrations!GiveUp(r, "mismatch")
      \/ /\ s1[r][v] # NoSum /\ s13[d][v] = s1[r][v]
         /\ s11' = [s11 EXCEPT ![r] = s11[r] \cup {v}]
         /\ s9' = [s9 EXCEPT ![r] = v + 1]
         /\ UNCHANGED <<s2, s3, s4, s8, s10, s16>>
      \/ /\ s1[r][v] # NoSum /\ s8[r][v] = NoSum
         /\ s3' = [s3 EXCEPT ![r] = "creating"]
         /\ UNCHANGED <<s2, s4, s8, s9, s10, s11, s16>>
  BY DEF Migrations!ApplyNext, Migrations!Adopts
<1> HIDE DEF d, v
<1>4. CASE /\ s9' = [s9 EXCEPT ![r] = v + 1]
           /\ UNCHANGED <<s2, s3, s4, s8, s10, s11, s16>>
  <2>1. s10' = [s10 EXCEPT ![r] = s10'[r]] /\ s11' = [s11 EXCEPT ![r] = s11'[r]]
        /\ s10'[r] = s10[r] /\ s11'[r] = s11[r] /\ s11[r] \subseteq Migrations!Version
    BY <1>2, <1>4
  <2>2. QED
    BY <1>1, <1>2, <1>4, <2>1, NoteKeeps
<1>5. CASE /\ s1[r][v] # NoSum /\ s8[r][v] \notin {NoSum, s1[r][v]}
           /\ Migrations!GiveUp(r, "mismatch")
  <2>1. s12[d][v] \notin {NoSum, s1[r][v]} /\ d \in Database
    BY <1>1, <1>2, <1>5
  <2>2. PICK q \in BootReplica : Home[q] = d /\ s1[q][v] = s12[d][v]
    BY <1>1, <2>1, DatabaseFacts DEF Migrations!TablesAgree
  <2>3. Home[q] = Home[r] /\ s1[q] # s1[r]
    BY <1>1, <2>1, <2>2
  <2>4. QED
    BY <1>1, <1>5, <2>3, GiveUpKeeps
<1>6. CASE /\ s1[r][v] # NoSum /\ s13[d][v] = s1[r][v]
           /\ s11' = [s11 EXCEPT ![r] = s11[r] \cup {v}]
           /\ s9' = [s9 EXCEPT ![r] = v + 1]
           /\ UNCHANGED <<s2, s3, s4, s8, s10, s16>>
  <2>1. s10' = [s10 EXCEPT ![r] = s10'[r]] /\ s11' = [s11 EXCEPT ![r] = s11'[r]]
        /\ s10'[r] = s10[r] /\ s11'[r] = s11[r] \cup {v} /\ s11'[r] \subseteq Migrations!Version
    BY <1>1, <1>2, <1>6
  <2>2. /\ s10'[r] \subseteq s11'[r]
        /\ \A w \in s11'[r] :
             /\ s1[r][w] # NoSum
             /\ w \in s10'[r] => s14[d][w] = NoSum /\ (w = 1 => s15[d] # "in")
             /\ w \notin s10'[r] => s13[d][w] = s1[r][w]
    BY <1>2, <1>6, <2>1
  <2>3. QED
    BY <1>1, <1>6, <2>1, <2>2, NoteKeeps, ZenonT(40)
<1>7. CASE /\ s1[r][v] # NoSum /\ s8[r][v] = NoSum
           /\ s3' = [s3 EXCEPT ![r] = "creating"]
           /\ UNCHANGED <<s2, s4, s8, s9, s10, s11, s16>>
  BY <1>1, <1>7, LooksInVain
<1>8. QED
  BY <1>3, <1>4, <1>5, <1>6, <1>7

\* The SQL runs where nothing was; where something is, a 0.1.0 replica has put it there.
LEMMA RunSqlKeeps ==
  ASSUME Migrations!Inv, NEW r \in BootReplica, Migrations!RunSql(r)
  PROVE  Migrations!Inv'
<1> DEFINE d == Home[r]
           v == s9[r]
<1>1. /\ s3[r] = "creating" /\ v = s9[r] /\ d = Home[r] /\ d \in Database
      /\ v \in Migrations!Version /\ s1[r][v] # NoSum /\ s8[r][v] = NoSum
      /\ UNCHANGED <<s1, s5, s6, s7, s12, s13, s14, s15>>
  BY DatabaseFacts DEF Migrations!RunSql, Migrations!tables, Migrations!ReadsTheLedger
<1>2. \/ /\ ~Migrations!Creating(d, v) /\ s14[d][v] = NoSum
         /\ s10' = [s10 EXCEPT ![r] = s10[r] \cup {v}]
         /\ s11' = [s11 EXCEPT ![r] = s11[r] \cup {v}]
         /\ s9' = [s9 EXCEPT ![r] = v + 1] /\ s3' = [s3 EXCEPT ![r] = "read"]
         /\ UNCHANGED <<s2, s4, s8, s16>>
      \/ /\ s14[d][v] # NoSum
         /\ Migrations!GiveUp(r, "exists")
  BY DEF Migrations!RunSql
<1>3. /\ s8[r] = s12[d]
      /\ s10 \in [BootReplica -> SUBSET Migrations!Version]
      /\ s11 \in [BootReplica -> SUBSET Migrations!Version]
      /\ s10[r] \subseteq s11[r]
      /\ \A w \in s11[r] :
           /\ s1[r][w] # NoSum
           /\ w \in s10[r] => s14[d][w] = NoSum /\ (w = 1 => s15[d] # "in")
           /\ w \notin s10[r] => s13[d][w] = s1[r][w]
  BY <1>1, LedgerWasRead
<1> HIDE DEF d, v
<1>4. CASE /\ ~Migrations!Creating(d, v) /\ s14[d][v] = NoSum
           /\ s10' = [s10 EXCEPT ![r] = s10[r] \cup {v}]
           /\ s11' = [s11 EXCEPT ![r] = s11[r] \cup {v}]
           /\ s9' = [s9 EXCEPT ![r] = v + 1] /\ s3' = [s3 EXCEPT ![r] = "read"]
           /\ UNCHANGED <<s2, s4, s8, s16>>
  <2>1. s10' = [s10 EXCEPT ![r] = s10'[r]] /\ s11' = [s11 EXCEPT ![r] = s11'[r]]
        /\ s10'[r] = s10[r] \cup {v} /\ s11'[r] = s11[r] \cup {v}
        /\ s11'[r] \subseteq Migrations!Version
    BY <1>1, <1>3, <1>4
  <2>2. v = 1 => s15[d] # "in"
    BY <1>4 DEF Migrations!Creating
  <2>3. /\ s10'[r] \subseteq s11'[r]
        /\ \A w \in s11'[r] :
             /\ s1[r][w] # NoSum
             /\ w \in s10'[r] => s14[d][w] = NoSum /\ (w = 1 => s15[d] # "in")
             /\ w \notin s10'[r] => s13[d][w] = s1[r][w]
    BY <1>1, <1>3, <1>4, <2>1, <2>2
  <2>4. QED
    BY <1>1, <1>4, <2>1, <2>3, NoteKeeps, ZenonT(40)
<1>5. CASE /\ s14[d][v] # NoSum
           /\ Migrations!GiveUp(r, "exists")
  <2>1. s13[d][v] # NoSum
    BY <1>1, <1>3, <1>5, DatabaseFacts DEF Migrations!TablesAgree, Migrations!LedgerIsTheSchema
  <2>2. v = 1 /\ s15[d] = "gone"
    BY <1>1, <2>1, DatabaseFacts DEF Migrations!TablesAgree
  <2>3. QED
    BY <1>1, <1>5, <2>1, <2>2, GiveUpKeeps
<1>6. QED
  BY <1>2, <1>4, <1>5

\* Whoever commits holds the ledger's lock, so nobody else of its database has read it.
LEMMA CommitLedgerKeeps ==
  ASSUME Migrations!Inv, NEW r \in BootReplica, Migrations!CommitLedger(r)
  PROVE  Migrations!Inv'
<1> DEFINE d == Home[r]
<1>1. /\ s3[r] = "read" /\ d = Home[r] /\ d \in Database
      /\ s12' = [s12 EXCEPT ![d] = [v \in Migrations!Version |->
                   IF v \in s11[r] THEN s1[r][v] ELSE s12[d][v]]]
      /\ s14' = [s14 EXCEPT ![d] = [v \in Migrations!Version |->
                   IF v \in s10[r] THEN s1[r][v] ELSE s14[d][v]]]
      /\ Migrations!Advance(r) /\ Migrations!Unlock(r) /\ Migrations!Forget(r)
      /\ UNCHANGED <<s1, s6, s7, s13, s15, s16>>
  BY DatabaseFacts DEF Migrations!CommitLedger
<1> HIDE DEF d
<1>2. s2[r] = "ledger" /\ s4[d]["ledger"] = r /\ s10[r] \subseteq s11[r]
      /\ \A v \in s11[r] :
           /\ s1[r][v] # NoSum
           /\ v \in s10[r] => s14[d][v] = NoSum /\ (v = 1 => s15[d] # "in")
           /\ v \notin s10[r] => s13[d][v] = s1[r][v]
  BY <1>1, DatabaseFacts DEF Migrations!ReadsTheLedger, Migrations!LockHeld,
     Migrations!NotedWithReason
<1>3. /\ s2' = [s2 EXCEPT ![r] = "grant"] /\ s3' = [s3 EXCEPT ![r] = "out"]
      /\ s5' = [s5 EXCEPT ![r] = 0]
      /\ s8' = [s8 EXCEPT ![r] = [v \in Migrations!Version |-> NoSum]]
      /\ s9' = [s9 EXCEPT ![r] = 1]
      /\ s10' = [s10 EXCEPT ![r] = {}] /\ s11' = [s11 EXCEPT ![r] = {}]
  BY <1>1, <1>2 DEF Migrations!Advance, Migrations!Forget
<1>4. /\ s12 \in [Database -> [Migrations!Version -> Sum \cup {NoSum}]]
      /\ s14 \in [Database -> [Migrations!Version -> Sum \cup {NoSum}]]
      /\ s1 \in [BootReplica -> [Migrations!Version -> Sum \cup {NoSum}]]
      /\ s8 \in [BootReplica -> [Migrations!Version -> Sum \cup {NoSum}]]
      /\ s9 \in [BootReplica -> 1..(MaxVersion + 1)]
      /\ s10 \in [BootReplica -> SUBSET Migrations!Version]
      /\ s11 \in [BootReplica -> SUBSET Migrations!Version]
  BY DatabaseFacts, MigrationsConstants
     DEF Migrations!Typed, Migrations!TypeOK, Migrations!Version
<1>5. /\ \A e \in Database \ {d} : s12'[e] = s12[e] /\ s14'[e] = s14[e]
      /\ \A v \in Migrations!Version :
           /\ s12'[d][v] = IF v \in s11[r] THEN s1[r][v] ELSE s12[d][v]
           /\ s14'[d][v] = IF v \in s10[r] THEN s1[r][v] ELSE s14[d][v]
  BY <1>1, <1>4
<1>6. /\ s4' \in [Database -> [Migrations!Step -> BootReplica \cup {NoSum}]]
      /\ \A q \in BootReplica \ {r} : s3[q] # "out" => s4'[Home[q]][s2[q]] = s4[Home[q]][s2[q]]
  BY <1>1, DatabaseFacts, UnlockFrees
<1>7. /\ s12' \in [Database -> [Migrations!Version -> Sum \cup {NoSum}]]
      /\ s14' \in [Database -> [Migrations!Version -> Sum \cup {NoSum}]]
  <2>1. [v \in Migrations!Version |-> IF v \in s11[r] THEN s1[r][v] ELSE s12[d][v]]
          \in [Migrations!Version -> Sum \cup {NoSum}]
    BY <1>1, <1>4
  <2>2. [v \in Migrations!Version |-> IF v \in s10[r] THEN s1[r][v] ELSE s14[d][v]]
          \in [Migrations!Version -> Sum \cup {NoSum}]
    BY <1>1, <1>4
  <2>3. QED
    BY <1>1, <1>4, <2>1, <2>2
<1>8. Migrations!Typed'
  <2>1. 1 \in 1..(MaxVersion + 1) /\ 0 \in 0..MaxAttempts
    BY DatabaseFacts
  <2>2. s9' \in [BootReplica -> 1..(MaxVersion + 1)] /\ s5' \in [BootReplica -> 0..MaxAttempts]
    BY <1>3, <1>4, <2>1, DatabaseFacts
  <2>3. s8' \in [BootReplica -> [Migrations!Version -> Sum \cup {NoSum}]]
    BY <1>3, <1>4
  <2>4. /\ s10' \in [BootReplica -> SUBSET Migrations!Version]
        /\ s11' \in [BootReplica -> SUBSET Migrations!Version]
        /\ s2' \in [BootReplica -> Migrations!Step \cup {"ready", "failed"}]
        /\ s3' \in [BootReplica -> {"out", "begun", "read", "creating"}]
    BY <1>3, <1>4, DatabaseFacts DEF Migrations!Step
  <2>5. Migrations!TypeOK'
    BY <1>1, <1>6, <1>7, <2>2, <2>4, DatabaseFacts DEF Migrations!Typed, Migrations!TypeOK
  <2>6. QED
    BY <1>1, <2>3, <2>5, DatabaseFacts DEF Migrations!Typed, Migrations!Version
<1>9. /\ s3'[r] = "out" /\ s10'[r] = {} /\ s11'[r] = {}
      /\ \A q \in BootReplica \ {r} :
           s2'[q] = s2[q] /\ s3'[q] = s3[q] /\ s5'[q] = s5[q] /\ s8'[q] = s8[q]
           /\ s9'[q] = s9[q] /\ s10'[q] = s10[q] /\ s11'[q] = s11[q]
  BY <1>3, <1>4, DatabaseFacts
<1>10. ASSUME NEW q \in BootReplica \ {r}, s3[q] \in {"read", "creating"}
       PROVE  Home[q] \in Database \ {d}
  BY <1>1, <1>2, <1>10, DatabaseFacts DEF Migrations!ReadsTheLedger, Migrations!LockHeld
<1>11. Migrations!LockHeld'
  BY <1>6, <1>9, DatabaseFacts DEF Migrations!LockHeld
<1>12. Migrations!ReadsTheLedger'
  <2> SUFFICES ASSUME NEW q \in BootReplica
               PROVE  /\ s3'[q] \in {"read", "creating"} =>
                           s2'[q] = "ledger" /\ s8'[q] = s12'[Home[q]]
                      /\ s3'[q] \notin {"read", "creating"} => s11'[q] = {}
                      /\ s3'[q] = "creating" => /\ s9'[q] \in Migrations!Version
                                                /\ s1[q][s9'[q]] # NoSum
                                                /\ s8'[q][s9'[q]] = NoSum
    BY <1>1 DEF Migrations!ReadsTheLedger
  <2>1. CASE q = r
    BY <1>9, <2>1
  <2>2. CASE q # r
    <3>1. /\ s3[q] \in {"read", "creating"} => s2[q] = "ledger" /\ s8[q] = s12[Home[q]]
          /\ s3[q] \notin {"read", "creating"} => s11[q] = {}
          /\ s3[q] = "creating" => /\ s9[q] \in Migrations!Version
                                   /\ s1[q][s9[q]] # NoSum /\ s8[q][s9[q]] = NoSum
      BY DatabaseFacts DEF Migrations!ReadsTheLedger
    <3>2. s3[q] \in {"read", "creating"} => s12'[Home[q]] = s12[Home[q]]
      BY <1>5, <1>10, <2>2
    <3>3. QED
      BY <1>9, <2>2, <3>1, <3>2
  <2>3. QED
    BY <2>1, <2>2
<1>13. Migrations!NotedWithReason'
  <2> SUFFICES ASSUME NEW q \in BootReplica
               PROVE  /\ s10'[q] \subseteq s11'[q]
                      /\ \A v \in s11'[q] :
                           /\ s1[q][v] # NoSum
                           /\ v \in s10'[q] => /\ s14'[Home[q]][v] = NoSum
                                               /\ v = 1 => s15[Home[q]] # "in"
                           /\ v \notin s10'[q] => s13[Home[q]][v] = s1[q][v]
    BY <1>1 DEF Migrations!NotedWithReason
  <2>1. CASE q = r
    BY <1>9, <2>1
  <2>2. CASE q # r
    <3>1. s3[q] \notin {"read", "creating"} => s11[q] = {}
      BY DatabaseFacts DEF Migrations!ReadsTheLedger
    <3>2. s3[q] \in {"read", "creating"} => s14'[Home[q]] = s14[Home[q]]
      BY <1>5, <1>10, <2>2
    <3>3. s10'[q] = s10[q] /\ s11'[q] = s11[q]
      BY <1>9, <2>2
    <3>4. /\ s10[q] \subseteq s11[q]
          /\ \A v \in s11[q] :
               /\ s1[q][v] # NoSum
               /\ v \in s10[q] => s14[Home[q]][v] = NoSum /\ (v = 1 => s15[Home[q]] # "in")
               /\ v \notin s10[q] => s13[Home[q]][v] = s1[q][v]
      BY DatabaseFacts DEF Migrations!NotedWithReason
    <3>5. QED
      BY <3>1, <3>2, <3>3, <3>4
  <2>3. QED
    BY <2>1, <2>2
<1>14. Migrations!TablesAgree'
  <2>1. ASSUME NEW v \in Migrations!Version
        PROVE  /\ s12'[d][v] # NoSum => /\ s12'[d][v] = s14'[d][v]
                                        /\ \E q \in BootReplica :
                                             Home[q] = d /\ s1[q][v] = s12'[d][v]
               /\ s14'[d][v] # NoSum => s12'[d][v] # NoSum \/ s13[d][v] # NoSum
               /\ s13[d][v] # NoSum => v = 1 /\ s15[d] = "gone" /\ s14'[d][v] = s13[d][v]
    <3>1. /\ s12[d][v] # NoSum => /\ s12[d][v] = s14[d][v]
                                  /\ \E q \in BootReplica : Home[q] = d /\ s1[q][v] = s12[d][v]
          /\ s14[d][v] # NoSum => s12[d][v] # NoSum \/ s13[d][v] # NoSum
          /\ s13[d][v] # NoSum => v = 1 /\ s15[d] = "gone" /\ s14[d][v] = s13[d][v]
      BY <1>1, DatabaseFacts DEF Migrations!TablesAgree, Migrations!LedgerIsTheSchema
    <3>2. CASE v \in s10[r]
      BY <1>1, <1>2, <1>5, <3>1, <3>2
    <3>3. CASE v \in s11[r] \ s10[r]
      BY <1>1, <1>2, <1>5, <3>1, <3>3
    <3>4. CASE v \notin s11[r]
      BY <1>1, <1>2, <1>5, <3>1, <3>4
    <3>5. QED
      BY <3>2, <3>3, <3>4
  <2>2. 1 \in Migrations!Version /\ (s15[d] = "in" => s14'[d][1] = NoSum)
    <3>1. 1 \in Migrations!Version /\ (s15[d] = "in" => s14[d][1] = NoSum)
      BY <1>1, DatabaseFacts DEF Migrations!TablesAgree, Migrations!Version
    <3>2. QED
      BY <1>2, <1>5, <3>1
  <2>3. Migrations!LedgerIsTheSchema'
    BY <1>1, <1>5, <2>1, DatabaseFacts DEF Migrations!TablesAgree, Migrations!LedgerIsTheSchema
  <2>4. \A e \in Database, v \in Migrations!Version :
          /\ s12'[e][v] # NoSum => \E q \in BootReplica : Home[q] = e /\ s1[q][v] = s12'[e][v]
          /\ s13[e][v] # NoSum => v = 1 /\ s15[e] = "gone" /\ s14'[e][v] = s13[e][v]
    BY <1>5, <2>1, DatabaseFacts DEF Migrations!TablesAgree
  <2>5. \A e \in Database : s15[e] = "in" => s14'[e][1] = NoSum
    BY <1>5, <2>2, DatabaseFacts DEF Migrations!TablesAgree
  <2>6. QED
    BY <1>1, <2>3, <2>4, <2>5 DEF Migrations!TablesAgree, Migrations!Version
<1>15. Migrations!AttemptsCounted'
  <2>1. s3'[r] = "out" /\ s5'[r] = 0 /\ s7[r] \in Nat
    BY <1>3, DatabaseFacts
  <2>2. QED
    BY <1>1, <1>9, <2>1, DatabaseFacts DEF Migrations!AttemptsCounted
<1>16. s16[r] = "none"
  BY <1>2, DatabaseFacts DEF Migrations!FailedForAReason
<1>17. /\ Migrations!FailedForAReason' /\ Migrations!ContentionIsForeign'
       /\ Migrations!NobodyStopsAnother'
  BY <1>1, <1>9, <1>16, DatabaseFacts DEF Migrations!FailedForAReason,
     Migrations!ContentionIsForeign, Migrations!NobodyStopsAnother
<1>18. QED
  BY <1>8, <1>11, <1>12, <1>13, <1>14, <1>15, <1>17 DEF Migrations!Inv

\* The 0.1.0 migrator keeps to databases where nobody has made its tables.
LEMMA OldKeeps ==
  ASSUME Migrations!Inv, NEW d \in Database,
         Migrations!OldBegins(d) \/ Migrations!OldCommits(d) \/ Migrations!OldFails(d)
  PROVE  Migrations!Inv'
<1>1. /\ s15[d] \in {"out", "in"}
      /\ UNCHANGED <<s1, s2, s3, s4, s5, s6, s7, s8, s9, s10, s11, s12, s16>>
  BY DEF Migrations!OldBegins, Migrations!OldCommits, Migrations!OldFails, Migrations!tx,
     Migrations!tables
<1>2. /\ s15' \in [Database -> {"out", "in", "gone"}]
      /\ \A e \in Database \ {d} : s15'[e] = s15[e]
  <2>1. s15 \in [Database -> {"out", "in", "gone"}]
    BY DatabaseFacts DEF Migrations!Typed
  <2>2. QED
    BY <2>1 DEF Migrations!OldBegins, Migrations!OldCommits, Migrations!OldFails
<1>3. 1 \in Migrations!Version /\ \A v \in Migrations!Version : s13[d][v] = NoSum
  BY <1>1, DatabaseFacts DEF Migrations!TablesAgree, Migrations!Version
<1>4. ASSUME NEW q \in BootReplica, Home[q] = d
      PROVE  1 \notin s10[q] /\ s11[q] \subseteq s10[q]
  <2>1. 1 \notin s10[q]
    BY <1>4, DatabaseFacts
       DEF Migrations!OldBegins, Migrations!OldCommits, Migrations!OldFails, Migrations!Creating,
           Migrations!NotedWithReason
  <2>2. s11[q] \subseteq Migrations!Version
    BY DatabaseFacts DEF Migrations!Typed, Migrations!TypeOK
  <2>3. QED
    BY <1>3, <1>4, <2>1, <2>2, DatabaseFacts DEF Migrations!NotedWithReason
<1>5. /\ \A e \in Database \ {d} : s13'[e] = s13[e] /\ s14'[e] = s14[e]
      /\ \A v \in Migrations!Version \ {1} : s13'[d][v] = s13[d][v] /\ s14'[d][v] = s14[d][v]
      /\ s13' \in [Database -> [Migrations!Version -> Sum \cup {NoSum}]]
      /\ s14' \in [Database -> [Migrations!Version -> Sum \cup {NoSum}]]
      /\ \/ s13'[d][1] = s13[d][1] /\ s14'[d][1] = s14[d][1]
            /\ (s15'[d] = "in" => s14[d][1] = NoSum)
         \/ /\ s14[d][1] = NoSum /\ s15'[d] = "gone"
            /\ s13'[d][1] = OldSum /\ s14'[d][1] = OldSum
  <2>1. /\ s13 \in [Database -> [Migrations!Version -> Sum \cup {NoSum}]]
        /\ s14 \in [Database -> [Migrations!Version -> Sum \cup {NoSum}]]
        /\ s15 \in [Database -> {"out", "in", "gone"}]
    BY DatabaseFacts DEF Migrations!Typed, Migrations!TypeOK
  <2>2. CASE Migrations!OldBegins(d) \/ Migrations!OldFails(d)
    BY <2>1, <2>2 DEF Migrations!OldBegins, Migrations!OldFails, Migrations!tables
  <2>3. CASE Migrations!OldCommits(d)
    <3>1. /\ s14' = [s14 EXCEPT ![d][1] = OldSum] /\ s13' = [s13 EXCEPT ![d][1] = OldSum]
          /\ s15[d] = "in" /\ s15' = [s15 EXCEPT ![d] = "gone"]
      BY <2>3 DEF Migrations!OldCommits
    <3>2. /\ [s13[d] EXCEPT ![1] = OldSum] \in [Migrations!Version -> Sum \cup {NoSum}]
          /\ [s14[d] EXCEPT ![1] = OldSum] \in [Migrations!Version -> Sum \cup {NoSum}]
      BY <1>3, <2>1, MigrationsConstants
    <3>3. s14[d][1] = NoSum
      BY <3>1, DatabaseFacts DEF Migrations!TablesAgree
    <3>4. QED
      BY <1>3, <2>1, <3>1, <3>2, <3>3
  <2>4. QED
    BY <2>2, <2>3
<1>6. Migrations!Typed'
  <2>1. Migrations!TypeOK'
    BY <1>1, <1>5, DatabaseFacts DEF Migrations!Typed, Migrations!TypeOK, Migrations!Version
  <2>2. QED
    BY <1>1, <1>2, <2>1, DatabaseFacts DEF Migrations!Typed, Migrations!Version
<1>7. Migrations!LockHeld' /\ Migrations!ReadsTheLedger' /\ Migrations!AttemptsCounted'
      /\ Migrations!FailedForAReason' /\ Migrations!ContentionIsForeign'
  BY <1>1, DatabaseFacts
     DEF Migrations!LockHeld, Migrations!ReadsTheLedger, Migrations!AttemptsCounted,
         Migrations!FailedForAReason, Migrations!ContentionIsForeign
<1>8. Migrations!NotedWithReason'
  <2> SUFFICES ASSUME NEW q \in BootReplica
               PROVE  /\ s10[q] \subseteq s11[q]
                      /\ \A v \in s11[q] :
                           /\ s1[q][v] # NoSum
                           /\ v \in s10[q] => /\ s14'[Home[q]][v] = NoSum
                                              /\ v = 1 => s15'[Home[q]] # "in"
                           /\ v \notin s10[q] => s13'[Home[q]][v] = s1[q][v]
    BY <1>1 DEF Migrations!NotedWithReason
  <2>1. s11[q] \subseteq Migrations!Version
    BY DatabaseFacts DEF Migrations!Typed, Migrations!TypeOK
  <2>2. /\ s10[q] \subseteq s11[q]
        /\ \A v \in s11[q] :
             /\ s1[q][v] # NoSum
             /\ v \in s10[q] => s14[Home[q]][v] = NoSum /\ (v = 1 => s15[Home[q]] # "in")
             /\ v \notin s10[q] => s13[Home[q]][v] = s1[q][v]
    BY DatabaseFacts DEF Migrations!NotedWithReason
  <2>3. CASE Home[q] # d
    <3>1. Home[q] \in Database \ {d}
      BY <2>3, DatabaseFacts
    <3>2. s13'[Home[q]] = s13[Home[q]] /\ s14'[Home[q]] = s14[Home[q]]
          /\ s15'[Home[q]] = s15[Home[q]]
      BY <1>2, <1>5, <3>1
    <3>3. QED
      BY <2>2, <3>2
  <2>4. CASE Home[q] = d
    <3>1. 1 \notin s10[q] /\ s11[q] \subseteq s10[q]
      BY <1>4, <2>4
    <3>2. \A v \in s11[q] : v \in Migrations!Version \ {1} /\ v \in s10[q]
      BY <2>1, <3>1
    <3>3. \A v \in s11[q] : s14'[d][v] = s14[d][v]
      BY <1>5, <3>2
    <3>4. QED
      BY <2>2, <2>4, <3>2, <3>3
  <2>5. QED
    BY <2>3, <2>4
<1>9. Migrations!NobodyStopsAnother'
  <2>1. \A q \in BootReplica : s16[q] = "exists" => Home[q] # d
    BY <1>1, DatabaseFacts DEF Migrations!NobodyStopsAnother
  <2>2. QED
    BY <1>1, <1>2, <1>5, <2>1, DatabaseFacts DEF Migrations!NobodyStopsAnother
<1>10. Migrations!TablesAgree'
  <2>1. ASSUME NEW v \in Migrations!Version
        PROVE  /\ s12[d][v] # NoSum => /\ s12[d][v] = s14'[d][v]
                                       /\ \E q \in BootReplica :
                                            Home[q] = d /\ s1[q][v] = s12[d][v]
               /\ s14'[d][v] # NoSum => s12[d][v] # NoSum \/ s13'[d][v] # NoSum
               /\ s13'[d][v] # NoSum => v = 1 /\ s15'[d] = "gone" /\ s14'[d][v] = s13'[d][v]
    <3>1. /\ s12[d][v] # NoSum => /\ s12[d][v] = s14[d][v]
                                  /\ \E q \in BootReplica : Home[q] = d /\ s1[q][v] = s12[d][v]
          /\ s14[d][v] # NoSum => s12[d][v] # NoSum \/ s13[d][v] # NoSum
      BY DatabaseFacts DEF Migrations!TablesAgree, Migrations!LedgerIsTheSchema
    <3>2. OldSum # NoSum
      BY MigrationsConstants
    <3>3. QED
      BY <1>3, <1>5, <3>1, <3>2
  <2>2. s15'[d] = "in" => s14'[d][1] = NoSum
    BY <1>5
  <2>3. \A e \in Database \ {d} : s13'[e] = s13[e] /\ s14'[e] = s14[e] /\ s15'[e] = s15[e]
    BY <1>2, <1>5
  <2>4. Migrations!LedgerIsTheSchema'
    BY <1>1, <2>1, <2>3, DatabaseFacts DEF Migrations!TablesAgree, Migrations!LedgerIsTheSchema,
       Migrations!Version
  <2>5. \A e \in Database, v \in Migrations!Version :
          /\ s12[e][v] # NoSum => \E q \in BootReplica : Home[q] = e /\ s1[q][v] = s12[e][v]
          /\ s13'[e][v] # NoSum => v = 1 /\ s15'[e] = "gone" /\ s14'[e][v] = s13'[e][v]
    BY <2>1, <2>3, DatabaseFacts DEF Migrations!TablesAgree
  <2>6. \A e \in Database : s15'[e] = "in" => s14'[e][1] = NoSum
    BY <2>2, <2>3, DatabaseFacts DEF Migrations!TablesAgree
  <2>7. QED
    BY <1>1, <2>4, <2>5, <2>6 DEF Migrations!TablesAgree, Migrations!Version
<1>11. QED
  BY <1>6, <1>7, <1>8, <1>9, <1>10, DatabaseFacts DEF Migrations!Inv

LEMMA DatabaseNext == DatabaseInv /\ [ProvedNext]_vars => DatabaseInv'
<1>1. SUFFICES ASSUME DatabaseInv, [ProvedNext]_vars, part' = "database"
               PROVE  Migrations!Inv'
  BY DEF DatabaseInv
<1>2. Migrations!Inv /\ [Migrations!Next]_(Migrations!dvars)
  BY <1>1 DEF DatabaseInv, ProvedNext, vars, Migrations!dvars, Migrations!tx, Migrations!tables
<1>3. CASE Migrations!Next
  <2>1. ASSUME NEW r \in BootReplica,
               \/ Migrations!Begin(r) \/ Migrations!CommitCatalog(r) \/ Migrations!Collide(r)
               \/ Migrations!Mishap(r) \/ Migrations!Restart(r)
        PROVE  Migrations!Inv'
    BY <1>2, <2>1, BeginKeeps, CommitCatalogKeeps, CollideKeeps, MishapKeeps, RestartKeeps
  <2>2. ASSUME NEW r \in BootReplica,
               \/ Migrations!ReadLedger(r) \/ Migrations!ApplyNext(r)
               \/ Migrations!RunSql(r) \/ Migrations!CommitLedger(r)
        PROVE  Migrations!Inv'
    BY <1>2, <2>2, ReadLedgerKeeps, ApplyNextKeeps, RunSqlKeeps, CommitLedgerKeeps
  <2>3. ASSUME NEW d \in Database,
               Migrations!OldBegins(d) \/ Migrations!OldCommits(d) \/ Migrations!OldFails(d)
        PROVE  Migrations!Inv'
    BY <1>2, <2>3, OldKeeps
  <2>4. QED
    BY <1>3, <2>1, <2>2, <2>3 DEF Migrations!Next
<1>4. CASE UNCHANGED Migrations!dvars
  <2>1. UNCHANGED <<s1, s2, s3, s4, s5, s6, s7, s8, s9, s10, s11, s12, s13, s14, s15, s16>>
    BY <1>4 DEF Migrations!dvars, Migrations!tx, Migrations!tables
  <2>2. Migrations!Typed' /\ Migrations!LockHeld' /\ Migrations!ReadsTheLedger'
        /\ Migrations!NotedWithReason' /\ Migrations!TablesAgree'
    BY <1>2, <2>1, DatabaseFacts, TablesStay
       DEF Migrations!Typed, Migrations!TypeOK, Migrations!LockHeld, Migrations!ReadsTheLedger,
           Migrations!NotedWithReason
  <2>3. Migrations!AttemptsCounted' /\ Migrations!FailedForAReason'
        /\ Migrations!ContentionIsForeign' /\ Migrations!NobodyStopsAnother'
    BY <1>2, <2>1, DatabaseFacts
       DEF Migrations!AttemptsCounted, Migrations!FailedForAReason,
           Migrations!ContentionIsForeign, Migrations!NobodyStopsAnother
  <2>4. QED
    BY <2>2, <2>3 DEF Migrations!Inv
<1>5. QED
  BY <1>2, <1>3, <1>4

\* However many replicas, databases and releases boot together, and whatever fails: nobody gives
\* up on contention but to replicas of other databases, nobody is stopped but by other
\* checksums or a 0.1.0 replica, and the ledger is the schema (catalog_retry.rs, migrations.rs).
THEOREM BootsCorrect == ProvedSpec => []BootsAgree
<1>1. DatabaseInv => BootsAgree
  BY DatabaseFacts
     DEF DatabaseInv, BootsAgree, Migrations!Typed, Migrations!TablesAgree,
         Migrations!ParallelMigrationsAgree
<1>2. QED
  BY DatabaseInit, DatabaseNext, <1>1, PTL DEF ProvedSpec

-----------------------------------------------------------------------------
(* DirectoryReaders: s1 wire, s2 snapshot, s3 half; per kind and id s4 told; s5 dependency, *)
(* s6 reached.                                                                              *)

ReadersInv == part = "readers" => Readers!Inv

LEMMA KindsAre ==
  /\ Readers!Kinds = {"users", "groups", "service_accounts"}
  /\ Readers!Reserved["users"] = {"email", "first_name", "last_name"}
  /\ Readers!Reserved["groups"] = {"name", "member_ids"}
  /\ Readers!Reserved["service_accounts"] = {"name"}
BY DEF Readers!Kinds, Readers!Reserved, Readers!UserReservedKeys

LEMMA NullIs == Readers!Null.is = "null"
BY DEF Readers!Null

\* A core whose fields are all reserved and hold something, and extensions none of which is
\* reserved, come out of the flattened object as they went in.
LEMMA TakenBack ==
  ASSUME NEW kind \in Readers!Kinds, NEW core, NEW extensions,
         core = [field \in DOMAIN core |-> core[field]],
         extensions = [field \in DOMAIN extensions |-> extensions[field]],
         DOMAIN core \subseteq Readers!Reserved[kind],
         \A field \in DOMAIN core : core[field] # Readers!Null,
         DOMAIN extensions \cap Readers!Reserved[kind] = {}
  PROVE  LET bag == Readers!Serialize([is |-> kind, core |-> core, extensions |-> extensions]) IN
         /\ \A field \in DOMAIN core : field \in DOMAIN bag /\ bag[field] = core[field]
         /\ \A field \in Readers!Reserved[kind] \ DOMAIN core : field \notin DOMAIN bag
         /\ Readers!Taken(kind, bag) = [is |-> kind, core |-> core, extensions |-> extensions]
<1> DEFINE bag == Readers!Serialize([is |-> kind, core |-> core, extensions |-> extensions])
           reserved == Readers!Reserved[kind]
<1>1. /\ DOMAIN bag = DOMAIN extensions \cup DOMAIN core
      /\ \A field \in DOMAIN core : bag[field] = core[field]
      /\ \A field \in DOMAIN extensions : bag[field] = extensions[field]
  BY DEF Readers!Serialize
<1> HIDE DEF bag
<1>2. DOMAIN bag \cap (reserved \cap {field \in DOMAIN bag : bag[field] # Readers!Null}) = DOMAIN core
  BY <1>1
<1>3. DOMAIN bag \cap (DOMAIN bag \ reserved) = DOMAIN extensions
  BY <1>1
<1>4. Readers!Part(bag, reserved \cap {field \in DOMAIN bag : bag[field] # Readers!Null}) = core
  BY <1>1, <1>2 DEF Readers!Part
<1>5. Readers!Part(bag, DOMAIN bag \ reserved) = extensions
  BY <1>1, <1>3 DEF Readers!Part
<1>6. Readers!Taken(kind, bag) = [is |-> kind, core |-> core, extensions |-> extensions]
  BY <1>4, <1>5 DEF Readers!Taken, Readers!New, Readers!Shadows
<1>7. QED
  BY <1>1, <1>6 DEF bag

\* What was published reads back.
LEMMA ReadBack ==
  ASSUME NEW kind \in Readers!Kinds, NEW core \in RowCore[kind], NEW extensions \in RowExtensions,
         NEW dto, dto = Readers!New(kind, core, extensions), dto.is \in Readers!Kinds
  PROVE  /\ dto.is = kind
         /\ Readers!Deserialize(kind, Readers!Serialize(dto)) = dto
         /\ Readers!IsObject(Readers!Serialize(dto))
<1>1. /\ DOMAIN extensions \cap Readers!Reserved[kind] = {}
      /\ dto = [is |-> kind, core |-> core, extensions |-> extensions]
  BY KindsAre DEF Readers!New, Readers!Shadows, Readers!Failed
<1>2. Readers!IsCore(kind, core) /\ Readers!IsObject(core) /\ Readers!IsObject(extensions)
  BY ReadersConstants DEF Readers!IsCore
<1>3. \A field \in DOMAIN core : core[field] # Readers!Null
  <2>1. \A field \in DOMAIN core : core[field].is \in {"string", "ids"}
    BY <1>2, KindsAre DEF Readers!IsCore, Readers!RequiredString, Readers!RequiredIds
  <2>2. QED
    BY <2>1, NullIs
<1> DEFINE bag == Readers!Serialize(dto)
<1>4. /\ \A field \in DOMAIN core : field \in DOMAIN bag /\ bag[field] = core[field]
      /\ \A field \in Readers!Reserved[kind] \ DOMAIN core : field \notin DOMAIN bag
      /\ Readers!Taken(kind, bag) = dto
  BY <1>1, <1>2, <1>3, TakenBack DEF Readers!IsCore, Readers!IsObject
<1>5. Readers!IsObject(bag)
  <2>1. bag = [field \in DOMAIN extensions \cup DOMAIN core |->
                 IF field \in DOMAIN extensions THEN extensions[field] ELSE core[field]]
    BY <1>1 DEF Readers!Serialize
  <2> HIDE DEF bag
  <2>2. QED
    BY <2>1, <1>2 DEF Readers!IsObject
<1> HIDE DEF bag
<1>6. CASE kind = "users"
  <2>1. /\ Readers!RequiredString(bag, "email")
        /\ Readers!OptionalString(bag, "first_name") /\ Readers!OptionalString(bag, "last_name")
    BY <1>2, <1>4, <1>6, KindsAre
       DEF Readers!IsCore, Readers!RequiredString, Readers!OptionalString
  <2>2. QED
    BY <1>1, <1>4, <1>5, <1>6, <2>1 DEF bag, Readers!Deserialize, Readers!ReadUser
<1>7. CASE kind = "groups"
  <2>1. Readers!RequiredString(bag, "name") /\ Readers!RequiredIds(bag, "member_ids")
    BY <1>2, <1>4, <1>7 DEF Readers!IsCore, Readers!RequiredString, Readers!RequiredIds
  <2>2. QED
    BY <1>1, <1>4, <1>5, <1>7, <2>1 DEF bag, Readers!Deserialize, Readers!ReadGroup
<1>8. CASE kind = "service_accounts"
  <2>1. Readers!RequiredString(bag, "name")
    BY <1>2, <1>4, <1>8 DEF Readers!IsCore, Readers!RequiredString
  <2>2. QED
    BY <1>1, <1>4, <1>5, <1>8, <2>1 DEF bag, Readers!Deserialize, Readers!ReadServiceAccount
<1>9. QED
  BY <1>6, <1>7, <1>8, KindsAre

LEMMA Tripled ==
  ASSUME NEW a, NEW b, NEW c
  PROVE  Append(<<a, b>>, c) = <<a, b, c>>
<1> DEFINE S == {a, b, c}
           q == <<a, b>>
           t == Append(q, c)
<1>1. q \in Seq(S) /\ c \in S
  OBVIOUS
<1>2. Len(q) = 2 /\ q[1] = a /\ q[2] = b
  OBVIOUS
<1> HIDE DEF q, S
<1>3. /\ t \in Seq(S) /\ Len(t) = Len(q) + 1
      /\ \A i \in 1..Len(q) : t[i] = q[i]
      /\ t[Len(q) + 1] = c
  BY ONLY <1>1, AppendProperties
<1> HIDE DEF t
<1>4. t \in Seq(S) /\ Len(t) = 3 /\ t[1] = a /\ t[2] = b /\ t[3] = c
  BY <1>2, <1>3
<1>5. t = <<a, b, c>>
  BY <1>4, <1>1
<1>6. QED
  BY <1>5 DEF t, q

\* The key of an entity is under the prefix of its kind alone.
LEMMA OneReader ==
  ASSUME NEW kind \in Readers!Kinds, NEW id
  PROVE  {k \in Readers!Kinds : Readers!Matches(Readers!Prefix(k), Readers!KvKeyOf(kind, id))} = {kind}
<1>1. Readers!KvKeyOf(kind, id) = <<"identity", kind, id>>
  BY Tripled DEF Readers!KvKeyOf, Readers!Prefix
<1>2. ASSUME NEW k \in Readers!Kinds
      PROVE  Readers!Matches(Readers!Prefix(k), Readers!KvKeyOf(kind, id)) <=> k = kind
  BY <1>1 DEF Readers!Matches, Readers!Prefix, Readers!IsStrictPrefix, Readers!IsPrefix
<1>3. QED
  BY <1>2

\* What decodes is of the kind it was read as, shadows nothing, and if a group has members.
LEMMA DecodedBy ==
  ASSUME NEW kind \in Readers!Kinds, NEW bag, Readers!IsObject(bag),
         Readers!Deserialize(kind, bag).is = kind
  PROVE  Readers!Decoded(kind, Readers!Deserialize(kind, bag))
<1> DEFINE dto == Readers!Deserialize(kind, bag)
<1>1. /\ dto = Readers!Taken(kind, bag) \/ dto = Readers!Failed("malformed")
      /\ kind = "groups" => dto = Readers!Failed("malformed") \/ Readers!RequiredIds(bag, "member_ids")
  BY KindsAre DEF Readers!Deserialize, Readers!ReadUser, Readers!ReadGroup, Readers!ReadServiceAccount
<1>2. dto # Readers!Failed("malformed")
  BY KindsAre DEF Readers!Failed
<1>3. dto = Readers!New(kind, Readers!Part(bag, Readers!Reserved[kind] \cap
                                              {field \in DOMAIN bag : bag[field] # Readers!Null}),
                        Readers!Part(bag, DOMAIN bag \ Readers!Reserved[kind]))
  BY <1>1, <1>2 DEF Readers!Taken
<1> HIDE DEF dto
<1>4. /\ DOMAIN dto.extensions \cap Readers!Reserved[kind] = {}
      /\ dto.core = Readers!Part(bag, Readers!Reserved[kind] \cap
                                        {field \in DOMAIN bag : bag[field] # Readers!Null})
  BY <1>3, KindsAre DEF dto, Readers!New, Readers!Shadows, Readers!Failed
<1>5. ASSUME kind = "groups" PROVE dto.core["member_ids"].value \in Seq(RowId)
  <2>1. /\ "member_ids" \in DOMAIN bag /\ bag["member_ids"].is = "ids"
        /\ bag["member_ids"].value \in Seq(RowId)
    BY <1>1, <1>2, <1>5 DEF Readers!RequiredIds, Readers!IsObject
  <2>2. bag["member_ids"] # Readers!Null
    BY <2>1, NullIs
  <2>3. dto.core["member_ids"] = bag["member_ids"]
    BY <1>4, <1>5, <2>1, <2>2, KindsAre DEF Readers!Part
  <2>4. QED
    BY <2>1, <2>3
<1>6. QED
  BY <1>4, <1>5 DEF dto, Readers!Decoded

\* What is_valid_namespace measures: the segments and the dots between them.
LengthOf(namespace) ==
  Readers!FoldLeft(LAMBDA sum, segment : sum + segment.len, Len(namespace) - 1, namespace)

LEMMA TwoSegments ==
  ASSUME NEW namespace, NEW a, NEW b, namespace = <<a, b>>, a.len \in Nat, b.len \in Nat
  PROVE  LengthOf(namespace) = 1 + a.len + b.len
<1> DEFINE top(s) == Readers!Max(s)
           Sums(g) == g = [s \in SUBSET {1, 2} |->
                             IF s = {} THEN 1 ELSE g[s \ {top(s)}] + namespace[top(s)].len]
<1>1. DOMAIN namespace = {1, 2} /\ Len(namespace) - 1 = 1
  OBVIOUS
<1>2. LengthOf(namespace) = (CHOOSE g : Sums(g))[{1, 2}]
  BY <1>1 DEF LengthOf, Readers!FoldLeft, Readers!MapThenFoldSet
<1>3. top({1, 2}) = 2 /\ top({1}) = 1 /\ top({2}) = 2
  BY DEF Readers!Max
<1> HIDE DEF top
<1>4. \E g : Sums(g)
  <2> DEFINE sum(s) == IF s = {} THEN 1 ELSE IF s = {1} THEN 1 + a.len
                       ELSE IF s = {2} THEN 1 + b.len ELSE 1 + a.len + b.len
             f == [s \in SUBSET {1, 2} |-> sum(s)]
  <2>1. ASSUME NEW s \in SUBSET {1, 2}, s # {}
        PROVE  sum(s) = f[s \ {top(s)}] + namespace[top(s)].len
    <3>1. CASE s = {1}
      <4>1. s \ {top(s)} = {} /\ namespace[top(s)] = a
        BY <1>3, <3>1
      <4>2. QED
        BY <3>1, <4>1
    <3>2. CASE s = {2}
      <4>1. s \ {top(s)} = {} /\ namespace[top(s)] = b
        BY <1>3, <3>2
      <4>2. QED
        BY <3>2, <4>1
    <3>3. CASE s = {1, 2}
      <4>1. s \ {top(s)} = {1} /\ namespace[top(s)] = b
        BY <1>3, <3>3
      <4>2. QED
        BY <3>3, <4>1
    <3>4. s = {1} \/ s = {2} \/ s = {1, 2}
      BY <2>1
    <3>5. QED
      BY <3>1, <3>2, <3>3, <3>4
  <2>2. f = [s \in SUBSET {1, 2} |->
               IF s = {} THEN 1 ELSE f[s \ {top(s)}] + namespace[top(s)].len]
    BY <2>1
  <2>3. QED
    BY <2>2
<1> DEFINE g == CHOOSE g : Sums(g)
<1>5. Sums(g)
  BY <1>4
<1> HIDE DEF g
<1>6. g[{}] = 1
  BY <1>5
<1>7. g[{1}] = g[{}] + namespace[1].len
  <2>1. {1} \ {top({1})} = {}
    BY <1>3
  <2>2. QED
    BY <1>3, <1>5, <2>1
<1>8. g[{1, 2}] = g[{1}] + namespace[2].len
  <2>1. {1, 2} \ {top({1, 2})} = {1}
    BY <1>3
  <2>2. QED
    BY <1>3, <1>5, <2>1
<1>9. LengthOf(namespace) = g[{1, 2}]
  BY <1>2 DEF g
<1>10. QED
  BY <1>6, <1>7, <1>8, <1>9

\* What the sinks call an entity is a reference that would validate.
LEMMA EntitiesValidate ==
  ASSUME NEW kind \in Readers!Kinds, NEW id
  PROVE  Readers!ForeignRef(Readers!Namespace(kind), Readers!KeyText(id)) = Readers!EntityRef(kind, id)
<1> DEFINE first == Readers!Segment("identity", 8)
<1>1. PICK second \in {Readers!Segment("user", 4), Readers!Segment("group", 5),
                       Readers!Segment("service_account", 15)} :
        Readers!Namespace(kind) = <<first, second>>
  BY KindsAre DEF Readers!Namespace
<1>2. /\ first.len = 8 /\ first.plain
      /\ second.len \in 4..15 /\ second.plain
  BY DEF Readers!Segment
<1> DEFINE namespace == <<first, second>>
<1> HIDE DEF first
<1>3. DOMAIN namespace = {1, 2} /\ namespace[1] = first /\ namespace[2] = second
  OBVIOUS
<1>4. Readers!ValidNamespace(namespace)
  <2>1. LengthOf(namespace) = 1 + first.len + second.len
    BY <1>2, TwoSegments
  <2>2. \A i \in DOMAIN namespace : namespace[i].len > 0 /\ namespace[i].plain
    BY <1>2, <1>3
  <2>3. LengthOf(namespace) <= 64
    BY <1>2, <2>1
  <2> HIDE DEF namespace
  <2>4. Readers!ValidNamespace(namespace) <=>
          /\ \A i \in DOMAIN namespace : namespace[i].len > 0 /\ namespace[i].plain
          /\ LengthOf(namespace) <= 64
    BY DEF Readers!ValidNamespace, LengthOf, Readers!FoldLeft, Readers!MapThenFoldSet
  <2>5. QED
    BY <2>2, <2>3, <2>4
<1>5. Readers!ValidKey(Readers!KeyText(id))
  BY DEF Readers!ValidKey, Readers!KeyText
<1>6. QED
  BY <1>1, <1>4, <1>5 DEF first, Readers!ForeignRef, Readers!EntityRef

\* An adopter's name reaches an entity if it is the sinks' name of it.
LEMMA NamesReach ==
  ASSUME NEW kind \in Readers!Kinds, NEW id, NEW asked \in RowDependencies
  PROVE  Readers!EntityRef(kind, id) = Readers!ForeignRef(asked.namespace, asked.key)
           <=> asked = [namespace |-> Readers!Namespace(kind), key |-> Readers!KeyText(id)]
<1>1. asked = [namespace |-> asked.namespace, key |-> asked.key]
  BY ReadersConstants
<1>2. ASSUME Readers!EntityRef(kind, id) = Readers!ForeignRef(asked.namespace, asked.key)
      PROVE  asked = [namespace |-> Readers!Namespace(kind), key |-> Readers!KeyText(id)]
  <2>1. Readers!ForeignRef(asked.namespace, asked.key).is = "reference"
    BY <1>2 DEF Readers!EntityRef
  <2>2. Readers!ForeignRef(asked.namespace, asked.key) =
          [is |-> "reference", namespace |-> asked.namespace, key |-> asked.key]
    BY <2>1 DEF Readers!ForeignRef
  <2>3. asked.namespace = Readers!Namespace(kind) /\ asked.key = Readers!KeyText(id)
    BY <1>2, <2>2 DEF Readers!EntityRef
  <2>4. QED
    BY <1>1, <2>3
<1>3. ASSUME asked = [namespace |-> Readers!Namespace(kind), key |-> Readers!KeyText(id)]
      PROVE  Readers!EntityRef(kind, id) = Readers!ForeignRef(asked.namespace, asked.key)
  BY <1>3, EntitiesValidate
<1>4. QED
  BY <1>2, <1>3

\* Nothing about it reads as a publication.
LEMMA NothingRead ==
  /\ Readers!NoEntry.dto.is \notin Readers!Kinds
  /\ Readers!IsObject(Readers!NoEntry.bag)
BY KindsAre DEF Readers!NoEntry, Readers!NoObject, Readers!Failed, Readers!IsObject

\* A consumer that starts has been told nothing.
LEMMA FreshFollows ==
  ASSUME NEW manifest \in RowManifests,
         s2 = Readers!Fresh(manifest), s3 = Void, s4 = Readers!NobodyTold
  PROVE  /\ Readers!ToldOnce /\ Readers!IsSnapshot /\ Readers!SnapshotFollows
         /\ s2.memberships = {} /\ DOMAIN s4 = Readers!Kinds
         /\ \A kind \in Readers!Kinds, id \in RowId : s4[kind][id] = {}
<1>1. \A kind \in Readers!Kinds, id \in RowId : s4[kind][id] = {}
  BY DEF Readers!NobodyTold
<1>2. Readers!ToldOnce
  BY <1>1 DEF Readers!ToldOnce, Readers!NobodyTold
<1>3. Readers!IsSnapshot
  BY DEF Readers!IsSnapshot, Readers!Fresh
<1>4. Readers!SnapshotFollows
  BY <1>1, KindsAre DEF Readers!SnapshotFollows, Readers!Fresh, Readers!Members
<1>5. QED
  BY <1>1, <1>2, <1>3, <1>4 DEF Readers!Fresh, Readers!NobodyTold

LEMMA ReadersInit == ProvedInit => ReadersInv
<1>1. SUFFICES ASSUME Readers!Init PROVE Readers!Inv
  BY DEF ProvedInit, ReadersInv
<1>2. PICK manifest \in RowManifests : s2 = Readers!Fresh(manifest)
  BY <1>1 DEF Readers!Init
<1>3. PICK asked \in RowDependencies :
        s5 = [asked |-> asked, made |-> Readers!ForeignRef(asked.namespace, asked.key)]
  BY <1>1 DEF Readers!Init
<1>4. s1 = Readers!NoEntry /\ s3 = Void /\ s4 = Readers!NobodyTold /\ s6 = FALSE
  BY <1>1 DEF Readers!Init
<1>5. /\ Readers!ToldOnce /\ Readers!IsSnapshot /\ Readers!SnapshotFollows
      /\ s2.memberships = {} /\ DOMAIN s4 = Readers!Kinds
      /\ \A kind \in Readers!Kinds, id \in RowId : s4[kind][id] = {}
  BY <1>2, <1>4, FreshFollows
<1>6. Readers!TypeOK
  BY <1>4, <1>5 DEF Readers!TypeOK
<1>7. Readers!ReadsBack
  BY <1>4, <1>5, NothingRead DEF Readers!ReadsBack
<1>8. Readers!OneRefPerEntity
  BY <1>4, <1>5 DEF Readers!OneRefPerEntity
<1>9. QED
  BY <1>3, <1>4, <1>5, <1>6, <1>7, <1>8, NothingRead DEF Readers!Inv

\* Another entry on the wire changes nothing else.
LEMMA WireKeeps ==
  ASSUME Readers!Inv, UNCHANGED <<s2, s3, s4, s5, s6>>,
         Readers!IsObject(s1.bag)',
         (s1.dto.is)' \in Readers!Kinds =>
           /\ Readers!Deserialize((s1.dto.is)', (s1.bag)') = (s1.dto)'
           /\ {kind \in Readers!Kinds : Readers!Matches(Readers!Prefix(kind), (s1.key)')} = {(s1.dto.is)'}
  PROVE  Readers!Inv'
<1>1. Readers!ReadsBack'
  BY DEF Readers!Inv, Readers!ReadsBack
<1>2. Readers!SnapshotFollows'
  <2>1. \A id : Readers!Members(id)' = Readers!Members(id)
    BY DEF Readers!Members
  <2>2. QED
    BY <2>1 DEF Readers!Inv, Readers!SnapshotFollows
<1>3. Readers!TypeOK'
  BY DEF Readers!Inv, Readers!TypeOK
<1>4. Readers!ToldOnce'
  <2>1. Readers!ToldOnce /\ s3' = s3 /\ s4' = s4
    BY DEF Readers!Inv
  <2>2. QED
    BY ONLY <2>1 DEF Readers!ToldOnce
<1>5. Readers!IsSnapshot'
  BY DEF Readers!Inv, Readers!IsSnapshot
<1>6. Readers!OneRefPerEntity'
  BY DEF Readers!Inv, Readers!OneRefPerEntity
<1>7. QED
  BY <1>1, <1>2, <1>3, <1>4, <1>5, <1>6 DEF Readers!Inv

LEMMA PublishShapeKeeps ==
  ASSUME Readers!Inv, NEW id \in RowId, NEW kind \in Readers!Kinds, NEW core \in RowCore[kind],
         NEW extensions \in RowExtensions,
         Readers!Publish(id, Readers!New(kind, core, extensions))
  PROVE  Readers!Inv'
<1> DEFINE dto == Readers!New(kind, core, extensions)
<1>1. /\ dto.is \in Readers!Kinds
      /\ s1' = [key |-> Readers!KvKeyOf(dto.is, id), bag |-> Readers!Serialize(dto), dto |-> dto]
      /\ UNCHANGED <<s2, s3, s4, s5, s6>>
  BY DEF Readers!Publish
<1>2. /\ dto.is = kind
      /\ Readers!Deserialize(kind, Readers!Serialize(dto)) = dto
      /\ Readers!IsObject(Readers!Serialize(dto))
  BY <1>1, ReadBack
<1> HIDE DEF dto
<1>3. s1'.dto = dto /\ s1'.bag = Readers!Serialize(dto) /\ s1'.key = Readers!KvKeyOf(kind, id)
  BY <1>1, <1>2
<1>4. QED
  BY <1>1, <1>2, <1>3, OneReader, WireKeeps

LEMMA WriteForeignKeeps ==
  ASSUME Readers!Inv, NEW entry \in RowForeign, Readers!WriteForeign(entry)
  PROVE  Readers!Inv'
<1>1. /\ s1' = [Readers!NoEntry EXCEPT !.key = entry.key, !.bag = entry.bag]
      /\ UNCHANGED <<s2, s3, s4, s5, s6>>
  BY DEF Readers!WriteForeign
<1>2. s1'.dto = Readers!NoEntry.dto /\ s1'.bag = entry.bag
  BY <1>1 DEF Readers!NoEntry
<1>3. QED
  BY <1>1, <1>2, NothingRead, ReadersConstants, WireKeeps

LEMMA RebuildSnapshotKeeps ==
  ASSUME Readers!Inv, NEW manifest \in RowManifests, Readers!Rebuild(manifest)
  PROVE  Readers!Inv'
<1>1. /\ s2' = Readers!Fresh(manifest) /\ s3' = Void /\ s4' = Readers!NobodyTold /\ s6' = FALSE
      /\ UNCHANGED <<s1, s5>>
  BY DEF Readers!Rebuild
<1>2. \A kind \in Readers!Kinds, id \in RowId : s4'[kind][id] = {}
  BY <1>1 DEF Readers!NobodyTold
<1>3. Readers!ToldOnce'
  BY <1>1, <1>2 DEF Readers!ToldOnce, Readers!NobodyTold
<1>4. Readers!IsSnapshot'
  BY <1>1 DEF Readers!IsSnapshot, Readers!Fresh
<1>5. Readers!SnapshotFollows'
  BY <1>1, <1>2, KindsAre DEF Readers!SnapshotFollows, Readers!Fresh, Readers!Members
<1>6. Readers!TypeOK'
  BY <1>1 DEF Readers!TypeOK, Readers!Fresh, Readers!NobodyTold
<1>7. Readers!ReadsBack'
  BY <1>1, <1>2 DEF Readers!Inv, Readers!ReadsBack
<1>8. Readers!OneRefPerEntity'
  BY <1>1, <1>2 DEF Readers!OneRefPerEntity
<1>9. QED
  BY <1>1, <1>3, <1>4, <1>5, <1>6, <1>7, <1>8 DEF Readers!Inv

LEMMA SetMembersKeeps ==
  ASSUME Readers!Inv, Readers!SetMembers
  PROVE  Readers!Inv'
<1>1. PICK dto \in s4["groups"][s3] : s2' = Readers!WithMembers(s3, dto.core["member_ids"].value)
  BY DEF Readers!SetMembers
<1>2. s3 \in RowId /\ s3 # Void /\ s3' = Void /\ UNCHANGED <<s1, s4, s5, s6>>
  BY DEF Readers!SetMembers, Readers!Inv, Readers!TypeOK
<1> DEFINE ids == dto.core["member_ids"].value
<1>3. /\ s4["groups"][s3] = {dto} /\ ids \in Seq(RowId)
  BY <1>1, <1>2, KindsAre DEF Readers!Inv, Readers!ToldOnce, Readers!Decoded
<1> HIDE DEF ids
<1>4. \A i \in DOMAIN ids : ids[i] \in RowId
  BY <1>3, LenProperties, ElementOfSeq
<1>5. /\ s2'.memberships = {link \in s2.memberships : link[1] # s3} \cup {<<s3, ids[i]>> : i \in DOMAIN ids}
      /\ s2'.users = s2.users /\ s2'.group_names = s2.group_names
      /\ s2'.service_accounts = s2.service_accounts
      /\ Readers!IsSnapshot'
  <2>1. s2' = [s2 EXCEPT !.memberships = {link \in @ : link[1] # s3} \cup {<<s3, ids[i]>> : i \in DOMAIN ids}]
    BY <1>1 DEF Readers!WithMembers, ids
  <2>2. QED
    BY <2>1 DEF Readers!Inv, Readers!IsSnapshot
<1>6. Readers!TypeOK'
  BY <1>2, <1>4, <1>5 DEF Readers!Inv, Readers!TypeOK
<1>7. Readers!SnapshotFollows'
  <2>1. \A id : Readers!Members(id)' = Readers!Members(id)
    BY <1>2 DEF Readers!Members
  <2>2. \A user \in RowId : user \in Readers!Members(s3) <=> \E i \in DOMAIN ids : ids[i] = user
    <3>1. DOMAIN ids = 1..Len(ids)
      BY <1>3, LenProperties
    <3>2. QED
      BY <1>3, <3>1 DEF Readers!Members, Readers!Contains, ids
  <2>3. ASSUME NEW id \in RowId, NEW user \in RowId
        PROVE  <<id, user>> \in s2'.memberships <=> user \in Readers!Members(id)
    <3>1. CASE id = s3
      BY <1>5, <2>2, <3>1
    <3>2. CASE id # s3
      <4>1. <<id, user>> \in s2'.memberships <=> <<id, user>> \in s2.memberships
        BY <1>5, <3>2
      <4>2. QED
        BY <3>2, <4>1 DEF Readers!Inv, Readers!SnapshotFollows
    <3>3. QED
      BY <3>1, <3>2
  <2>4. QED
    BY <1>2, <1>5, <2>1, <2>3 DEF Readers!Inv, Readers!SnapshotFollows
<1>8. Readers!ToldOnce'
  BY <1>2 DEF Readers!Inv, Readers!ToldOnce
<1>9. Readers!ReadsBack'
  BY <1>2 DEF Readers!Inv, Readers!ReadsBack
<1>10. Readers!OneRefPerEntity'
  BY <1>2 DEF Readers!Inv, Readers!OneRefPerEntity
<1>11. QED
  BY <1>2, <1>5, <1>6, <1>7, <1>8, <1>9, <1>10 DEF Readers!Inv

\* A row that is read: it is told, and the snapshot has it.
LEMMA TakeInKeeps ==
  ASSUME Readers!Inv, NEW kind \in Readers!Kinds, NEW id \in RowId, NEW dto,
         Readers!Decoded(kind, dto), s3 = Void, id # Void,
         s1' = Readers!NoEntry, UNCHANGED s5,
         s2' = Readers!Upsert(kind, id, dto),
         s4' = [s4 EXCEPT ![kind][id] = {dto}],
         s3' = IF kind = "groups" THEN id ELSE Void,
         s6' = (s6 \/ (s4[kind][id] # {dto} /\ Readers!EntityRef(kind, id) = s5.made))
  PROVE  Readers!Inv'
<1>1. /\ s4'[kind][id] = {dto}
      /\ \A k \in Readers!Kinds, i \in RowId : <<k, i>> # <<kind, id>> => s4'[k][i] = s4[k][i]
      /\ s4' = [k \in Readers!Kinds |-> [i \in RowId |-> s4'[k][i]]]
  <2>1. s4 = [k \in Readers!Kinds |-> [i \in RowId |-> s4[k][i]]]
    BY DEF Readers!Inv, Readers!ToldOnce
  <2>2. DOMAIN s4 = Readers!Kinds /\ \A k \in Readers!Kinds : DOMAIN s4[k] = RowId
    BY ONLY <2>1
  <2>3. /\ s4'[kind] = [s4[kind] EXCEPT ![id] = {dto}]
        /\ \A k \in Readers!Kinds \ {kind} : s4'[k] = s4[k]
        /\ s4' = [k \in Readers!Kinds |-> s4'[k]]
    BY <2>2
  <2>4. s4'[kind] = [i \in RowId |-> s4'[kind][i]]
    BY <2>2, <2>3
  <2>5. \A k \in Readers!Kinds : s4'[k] = [i \in RowId |-> s4'[k][i]]
    <3>1. TAKE k \in Readers!Kinds
    <3>2. CASE k = kind
      BY <2>4, <3>2
    <3>3. CASE k # kind
      BY <2>1, <2>3, <3>3
    <3>4. QED
      BY <3>2, <3>3
  <2>6. QED
    BY <2>2, <2>3, <2>5
<1>2. /\ s2'.memberships = s2.memberships
      /\ Readers!IsSnapshot'
      /\ IF kind = "users" THEN /\ s2'.users[id] = Readers!KnownUser(dto)
                                /\ \A i \in RowId \ {id} : s2'.users[i] = s2.users[i]
                           ELSE s2'.users = s2.users
      /\ IF kind = "groups" THEN /\ s2'.group_names[id] = dto.core["name"].value
                                 /\ \A i \in RowId \ {id} : s2'.group_names[i] = s2.group_names[i]
                            ELSE s2'.group_names = s2.group_names
      /\ IF kind = "service_accounts"
           THEN /\ s2'.service_accounts[id] = dto.core["name"].value
                /\ \A i \in RowId \ {id} : s2'.service_accounts[i] = s2.service_accounts[i]
           ELSE s2'.service_accounts = s2.service_accounts
  <2>1. Readers!IsSnapshot
    BY DEF Readers!Inv
  <2>2. CASE kind = "users"
    <3>1. s2' = [s2 EXCEPT !.users[id] = Readers!KnownUser(dto)]
      BY <2>2 DEF Readers!Upsert, Readers!UpsertUser
    <3>2. QED
      BY <2>1, <2>2, <3>1 DEF Readers!IsSnapshot
  <2>3. CASE kind = "groups"
    <3>1. s2' = [s2 EXCEPT !.group_names[id] = dto.core["name"].value]
      BY <2>3 DEF Readers!Upsert, Readers!UpsertGroup
    <3>2. QED
      BY <2>1, <2>3, <3>1 DEF Readers!IsSnapshot
  <2>4. CASE kind = "service_accounts"
    <3>1. s2' = [s2 EXCEPT !.service_accounts[id] = dto.core["name"].value]
      BY <2>4 DEF Readers!Upsert, Readers!UpsertServiceAccount
    <3>2. QED
      BY <2>1, <2>4, <3>1 DEF Readers!IsSnapshot
  <2>5. QED
    BY <2>2, <2>3, <2>4, KindsAre
<1>3. Readers!TypeOK'
  BY <1>1, <1>2 DEF Readers!Inv, Readers!TypeOK
<1>4. Readers!ToldOnce'
  <2>1. ASSUME NEW k \in Readers!Kinds, NEW i \in RowId, NEW d \in s4'[k][i]
        PROVE  s4'[k][i] = {d} /\ Readers!Decoded(k, d)
    BY <1>1, <2>1 DEF Readers!Inv, Readers!ToldOnce
  <2>2. s3' # Void => s4'["groups"][s3'] # {}
    BY <1>1
  <2>3. QED
    BY <1>1, <2>1, <2>2 DEF Readers!ToldOnce
<1>5. Readers!SnapshotFollows'
  <2>1. ASSUME NEW i \in RowId, kind # "groups" \/ i # id
        PROVE  Readers!Members(i)' = Readers!Members(i)
    BY <1>1, <2>1, KindsAre DEF Readers!Members
  <2>2. ASSUME NEW i \in RowId, s3' # i, NEW user \in RowId
        PROVE  <<i, user>> \in s2'.memberships <=> user \in Readers!Members(i)'
    <3>1. s3 # i
      BY ReadersConstants
    <3>2. QED
      BY <1>2, <2>1, <2>2, <3>1 DEF Readers!Inv, Readers!SnapshotFollows
  <2>3. ASSUME NEW i \in RowId
        PROVE  /\ s4'["users"][i] = {} => s2'.users[i] = Void
               /\ \A d \in s4'["users"][i] : s2'.users[i] = Readers!KnownUser(d)
    <3>1. CASE kind = "users" /\ i = id
      BY <1>1, <1>2, <3>1
    <3>2. CASE ~ (kind = "users" /\ i = id)
      <4>1. s4'["users"][i] = s4["users"][i] /\ s2'.users[i] = s2.users[i]
        BY <1>1, <1>2, <3>2, KindsAre
      <4>2. QED
        BY <4>1 DEF Readers!Inv, Readers!SnapshotFollows
    <3>3. QED
      BY <3>1, <3>2
  <2>4. ASSUME NEW i \in RowId
        PROVE  /\ s4'["groups"][i] = {} => s2'.group_names[i] = Void
               /\ \A d \in s4'["groups"][i] : s2'.group_names[i] = d.core["name"].value
    <3>1. CASE kind = "groups" /\ i = id
      BY <1>1, <1>2, <3>1
    <3>2. CASE ~ (kind = "groups" /\ i = id)
      <4>1. s4'["groups"][i] = s4["groups"][i] /\ s2'.group_names[i] = s2.group_names[i]
        BY <1>1, <1>2, <3>2, KindsAre
      <4>2. QED
        BY <4>1 DEF Readers!Inv, Readers!SnapshotFollows
    <3>3. QED
      BY <3>1, <3>2
  <2>5. ASSUME NEW i \in RowId
        PROVE  /\ s4'["service_accounts"][i] = {} => s2'.service_accounts[i] = Void
               /\ \A d \in s4'["service_accounts"][i] :
                    s2'.service_accounts[i] = d.core["name"].value
    <3>1. CASE kind = "service_accounts" /\ i = id
      BY <1>1, <1>2, <3>1
    <3>2. CASE ~ (kind = "service_accounts" /\ i = id)
      <4>1. /\ s4'["service_accounts"][i] = s4["service_accounts"][i]
            /\ s2'.service_accounts[i] = s2.service_accounts[i]
        BY <1>1, <1>2, <3>2, KindsAre
      <4>2. QED
        BY <4>1 DEF Readers!Inv, Readers!SnapshotFollows
    <3>3. QED
      BY <3>1, <3>2
  <2>6. QED
    BY <2>2, <2>3, <2>4, <2>5 DEF Readers!SnapshotFollows
<1>6. Readers!ReadsBack'
  BY <1>4, NothingRead DEF Readers!ReadsBack, Readers!ToldOnce, Readers!Decoded
<1>7. Readers!OneRefPerEntity'
  <2> DEFINE named(k, i) == s5.asked = [namespace |-> Readers!Namespace(k), key |-> Readers!KeyText(i)]
  <2>1. Readers!EntityRef(kind, id) = s5.made <=> named(kind, id)
    BY NamesReach DEF Readers!Inv
  <2>2. s6 <=> \E k \in Readers!Kinds, i \in RowId : s4[k][i] # {} /\ named(k, i)
    BY DEF Readers!Inv, Readers!OneRefPerEntity
  <2> HIDE DEF named
  <2>3. s6' <=> \E k \in Readers!Kinds, i \in RowId : s4'[k][i] # {} /\ named(k, i)
    <3>1. s6' <=> s6 \/ (s4[kind][id] # {dto} /\ named(kind, id))
      BY <2>1
    <3>2. ASSUME s6'
          PROVE  \E k \in Readers!Kinds, i \in RowId : s4'[k][i] # {} /\ named(k, i)
      BY <1>1, <2>2, <3>1, <3>2
    <3>3. ASSUME NEW k \in Readers!Kinds, NEW i \in RowId, s4'[k][i] # {}, named(k, i)
          PROVE  s6'
      BY <1>1, <2>2, <3>1, <3>3
    <3>4. QED
      BY <3>2, <3>3
  <2>4. QED
    BY <2>3 DEF named, Readers!OneRefPerEntity
<1>8. QED
  BY <1>2, <1>3, <1>4, <1>5, <1>6, <1>7, NothingRead DEF Readers!Inv

LEMMA LoadKeeps ==
  ASSUME Readers!Inv, NEW kind \in Readers!Kinds, Readers!Load(kind)
  PROVE  Readers!Inv'
<1> DEFINE id == Readers!IdFromKvKey(kind, s1.key)
           dto == Readers!Deserialize(kind, s1.bag)
<1>1. s3 = Void /\ s1' = Readers!NoEntry /\ UNCHANGED s5
  BY DEF Readers!Load
<1>2. CASE id = Void \/ dto.is # kind
  <2>1. UNCHANGED <<s2, s3, s4, s6>>
    BY <1>2 DEF Readers!Load
  <2>2. QED
    BY <1>1, <2>1, NothingRead, WireKeeps
<1>3. CASE ~ (id = Void \/ dto.is # kind)
  <2>1. id \in RowId
    BY <1>3 DEF Readers!IdFromKvKey
  <2>2. Readers!Decoded(kind, dto)
    BY <1>3, DecodedBy DEF Readers!Inv
  <2>3. /\ s2' = Readers!Upsert(kind, id, dto)
        /\ s4' = [s4 EXCEPT ![kind][id] = {dto}]
        /\ s3' = IF kind = "groups" THEN id ELSE Void
        /\ s6' = (s6 \/ (s4[kind][id] # {dto} /\ Readers!EntityRef(kind, id) = s5.made))
    BY <1>3 DEF Readers!Load
  <2> HIDE DEF id, dto
  <2>4. QED
    BY <1>1, <1>3, <2>1, <2>2, <2>3, TakeInKeeps
<1>4. QED
  BY <1>2, <1>3

LEMMA ReadersNext == ReadersInv /\ [ProvedNext]_vars => ReadersInv'
<1>1. SUFFICES ASSUME ReadersInv, [ProvedNext]_vars, part' = "readers" PROVE Readers!Inv'
  BY DEF ReadersInv
<1>2. part = "readers" /\ (Readers!Next \/ UNCHANGED <<s1, s2, s3, s4, s5, s6>>)
  BY <1>1 DEF ProvedNext, vars
<1>3. Readers!Inv
  BY <1>1, <1>2 DEF ReadersInv
<1>4. CASE UNCHANGED <<s1, s2, s3, s4, s5, s6>>
  BY <1>3, <1>4, WireKeeps DEF Readers!Inv, Readers!ReadsBack
<1>5. ASSUME NEW id \in RowId, NEW extensions \in RowExtensions,
             \/ \E core \in RowCore["users"] : Readers!Publish(id, Readers!PublishedUser(core, extensions))
             \/ \E core \in RowCore["groups"] : Readers!Publish(id, Readers!PublishedGroup(core, extensions))
             \/ \E core \in RowCore["service_accounts"] :
                  Readers!Publish(id, Readers!PublishedServiceAccount(core, extensions))
      PROVE  Readers!Inv'
  BY <1>3, <1>5, KindsAre, PublishShapeKeeps
     DEF Readers!PublishedUser, Readers!PublishedGroup, Readers!PublishedServiceAccount
<1>6. ASSUME NEW kind \in Readers!Kinds, Readers!Load(kind)
      PROVE  Readers!Inv'
  BY <1>3, <1>6, LoadKeeps
<1>7. ASSUME NEW entry \in RowForeign, Readers!WriteForeign(entry)
      PROVE  Readers!Inv'
  BY <1>3, <1>7, WriteForeignKeeps
<1>8. CASE Readers!SetMembers
  BY <1>3, <1>8, SetMembersKeeps
<1>9. ASSUME NEW manifest \in RowManifests, Readers!Rebuild(manifest)
      PROVE  Readers!Inv'
  BY <1>3, <1>9, RebuildSnapshotKeeps
<1>10. QED
  BY <1>2, <1>4, <1>5, <1>6, <1>7, <1>8, <1>9 DEF Readers!Next

\* DirectoryReaders, for any shapes, entries and manifests: what was published reads back as it
\* was, by the readers of its kind alone; a snapshot answers what was last decoded, and nothing
\* of what its manifest does not declare; and only the sinks' own name of an entity reaches an
\* adopter who renders by it.
THEOREM ReadersCorrect == ProvedSpec => []DirectoryReadsHold
<1>1. ReadersInv => DirectoryReadsHold
  <2>1. SUFFICES ASSUME Readers!Inv PROVE Readers!DirectoryReadsHold
    BY DEF ReadersInv, DirectoryReadsHold
  <2>2. ASSUME NEW id \in RowId, Readers!UserExtensions(id) # Void
        PROVE  DOMAIN Readers!UserExtensions(id) \subseteq RowKept \ Readers!UserReservedKeys
    <3>1. s2.users[id] # Void /\ Readers!UserExtensions(id) = s2.users[id].extensions
      BY <2>2 DEF Readers!UserExtensions
    <3>2. PICK dto \in s4["users"][id] : s2.users[id] = Readers!KnownUser(dto)
      BY <2>1, <3>1 DEF Readers!Inv, Readers!SnapshotFollows
    <3>3. Readers!Decoded("users", dto)
      BY <2>1, KindsAre DEF Readers!Inv, Readers!ToldOnce
    <3>4. DOMAIN Readers!UserExtensions(id) = DOMAIN dto.extensions \cap RowKept
      BY <3>1, <3>2 DEF Readers!KnownUser, Readers!Persisted, Readers!Part
    <3>5. QED
      BY <3>3, <3>4, KindsAre DEF Readers!Decoded, Readers!UserReservedKeys
  <2>3. ASSUME NEW id \in RowId, s3 # id, NEW user \in RowId
        PROVE  Readers!IsMember(id, user) <=>
                 /\ s2.groups_published
                 /\ \E dto \in s4["groups"][id] :
                      Readers!Contains(dto.core["member_ids"].value, user)
    BY <2>1, <2>3 DEF Readers!Inv, Readers!SnapshotFollows, Readers!IsMember, Readers!Members
  <2>4. Readers!SnapshotTells
    BY <2>1, <2>2, <2>3
       DEF Readers!Inv, Readers!SnapshotFollows, Readers!SnapshotTells, Readers!ResolveUser,
           Readers!GroupName, Readers!ResolveServiceAccount
  <2>5. QED
    BY <2>1, <2>4 DEF Readers!Inv, Readers!DirectoryReadsHold
<1>2. QED
  BY ReadersInit, ReadersNext, <1>1, PTL DEF ProvedSpec
=============================================================================
